---------------------------- MODULE KeyPipelineProofs ----------------------------
(***************************************************************************)
(* For every number of keys and workers, batch size, buffer size and set   *)
(* of faults: what GenerateKeys returns is true of the keys, its error is  *)
(* the cause, and it leaves no worker behind.                              *)
(***************************************************************************)
EXTENDS KeyPipeline, FiniteSetTheorems, TLAPS

Workers == Generators \cup Scorers
Stores == {"todo", "jobs", "entities", "scored", "batch", "db", "rejected", "lost"}

(* TypeOK without its bound on the batch, which is Room. *)
Shape ==
  /\ at \in [Keys -> Stores \cup Workers]
  /\ producer \in {"loop", "done"}
  /\ gen \in [Generators -> {"take", "make", "emit", "done"}]
  /\ scorer \in [Scorers -> {"new", "take", "score", "emit", "done"}]
  /\ main \in {"spawn", "persist", "wait", "returned"}
  /\ jobsClosed \in BOOLEAN /\ entitiesClosed \in BOOLEAN /\ scoredClosed \in BOOLEAN
  /\ cancelled \in BOOLEAN /\ parentCancelled \in BOOLEAN
  /\ firstErr \in {"none", "ctx"} \cup FaultKinds
  /\ generated \in Nat /\ accepted \in Nat /\ saved \in Nat
  /\ outcome \in {"running", "ok", "ctx"} \cup FaultKinds

Room == Cardinality(In("batch")) < BatchSize

(* A worker holds one key while it makes, scores or passes it on, and none *)
(* otherwise.                                                              *)
Occupied ==
  /\ \A g \in Generators :
       IF gen[g] \in {"make", "emit"} THEN \E k \in Keys : In(g) = {k} ELSE In(g) = {}
  /\ \A s \in Scorers :
       IF scorer[s] \in {"score", "emit"} THEN \E k \in Keys : In(s) = {k} ELSE In(s) = {}

(* A channel is closed behind the last worker that sends on it, and        *)
(* GenerateKeys returns behind all of them.                                *)
Closing ==
  /\ jobsClosed <=> producer = "done"
  /\ entitiesClosed => \A g \in Generators : gen[g] = "done"
  /\ scoredClosed => ScorersDone
  /\ outcome = "running" <=> main # "returned"
  /\ main = "returned" => ScorersDone /\ \A g \in Generators : gen[g] = "done"

(* The context is cancelled by the first failure or by the caller, and by  *)
(* nothing else; only in the second case is there an error "ctx".          *)
Cause ==
  /\ cancelled <=> firstErr # "none" \/ parentCancelled
  /\ firstErr = "ctx" \/ outcome = "ctx" => parentCancelled
  /\ outcome = "ok" => ~cancelled

(* As long as the context is not cancelled, nothing is lost and each stage *)
(* ends only when the ones before it have ended and are empty.             *)
Flow ==
  ~cancelled =>
    /\ In("lost") = {}
    /\ jobsClosed => In("todo") = {}
    /\ \A g \in Generators : gen[g] = "done" => jobsClosed /\ In("jobs") = {}
    /\ \A s \in Scorers : scorer[s] = "done" => entitiesClosed /\ In("entities") = {}
    /\ main # "spawn" => \A s \in Scorers : scorer[s] # "new"
    /\ main \in {"wait", "returned"} =>
         scoredClosed /\ In("scored") = {} /\ In("batch") = {}

Made == {k \in Keys : at[k] \in {"entities", "scored", "batch", "db", "rejected"} \cup Scorers}
Passed == {k \in Keys : at[k] \in {"scored", "batch", "db"}}

(* The counters count keys. *)
Counts ==
  /\ saved = Cardinality(In("db"))
  /\ ~cancelled => generated = Cardinality(Made) /\ accepted = Cardinality(Passed)

IInv == Shape /\ Room /\ Occupied /\ Closing /\ Cause /\ Flow /\ Counts

-------------------------------------------------------------------------------
(* No worker has the name of a store, and none is of both kinds.           *)
LEMMA Names ==
  /\ \A w \in Workers : w \notin Stores
  /\ \A g \in Generators : g \notin Scorers
  BY PipelineAssumption DEF Workers, Stores

(* Where the keys are after a move, of one or of several.                  *)
LEMMA MoveOne ==
  ASSUME Shape, NEW k \in Keys, NEW place \in Stores \cup Workers, Move(k, place)
  PROVE  /\ at' \in [Keys -> Stores \cup Workers]
         /\ at'[k] = place /\ \A j \in Keys \ {k} : at'[j] = at[j]
  BY DEF Shape, Move

LEMMA MoveSome ==
  ASSUME Shape, NEW S \in SUBSET Keys, NEW place \in Stores \cup Workers, MoveAll(S, place)
  PROVE  /\ at' \in [Keys -> Stores \cup Workers]
         /\ \A k \in S : at'[k] = place
         /\ \A k \in Keys \ S : at'[k] = at[k]
  BY DEF Shape, MoveAll

(* A job that is there is taken.                                           *)
LEMMA JobIn ==
  ASSUME NEW place, In(place) # {}
  PROVE  Job(place) \in Keys /\ at[Job(place)] = place
  <1>1. \E k \in In(place) : TRUE
    OBVIOUS
  <1>2. Job(place) \in In(place)
    BY <1>1 DEF Job
  <1> QED
    BY <1>2 DEF In

(* Sets of keys are finite.                                                *)
LEMMA FiniteKeys ==
  ASSUME NEW S \in SUBSET Keys
  PROVE  IsFiniteSet(S) /\ Cardinality(S) \in Nat
  BY PipelineAssumption, FS_Subset, FS_CardinalityType

(* What a failure does to the context and the error.                       *)
LEMMA Failing ==
  ASSUME Shape, Cause, NEW err \in FaultKinds \cup {"ctx"}, Fail(err),
         err = "ctx" => cancelled, UNCHANGED <<parentCancelled, outcome>>,
         outcome = "running"
  PROVE  Cause' /\ cancelled' = TRUE /\ firstErr' \in {"none", "ctx"} \cup FaultKinds
  BY DEF Shape, Cause, Fail, errors, FaultKinds

LEMMA InitIInv == Init => IInv
  <1> SUFFICES ASSUME Init PROVE IInv
    OBVIOUS
  <1>1. Shape
    BY DEF Init, Shape, Stores
  <1>2. \A place : place # "todo" => In(place) = {}
    BY DEF Init, In
  <1>3. Room
    BY <1>2, FS_EmptySet, PipelineAssumption DEF Room
  <1>4. Occupied
    BY <1>2, Names DEF Init, Occupied, Workers, Stores
  <1>5. Closing
    BY PipelineAssumption DEF Init, Closing
  <1>6. Cause
    BY DEF Init, Cause
  <1>7. Flow
    BY <1>2 DEF Init, Flow
  <1>8. Counts
    <2>1. Made = {} /\ Passed = {}
      BY Names DEF Init, Made, Passed, Workers, Stores
    <2> QED
      BY <1>2, <2>1, FS_EmptySet DEF Init, Counts
  <1> QED
    BY <1>1, <1>3, <1>4, <1>5, <1>6, <1>7, <1>8 DEF IInv

-------------------------------------------------------------------------------
(* The counters and the batch after a step that moves keys between other   *)
(* places than those they are about.                                       *)
LEMMA SameCounts ==
  ASSUME IInv, Made' = Made, Passed' = Passed, In("db")' = In("db"),
         In("batch")' = In("batch"), UNCHANGED counters, cancelled => cancelled'
  PROVE  Room' /\ Counts'
  BY DEF IInv, Room, Counts, counters

(* A step that moves no key keeps what is said of the keys alone.          *)
LEMMA NoMove ==
  ASSUME IInv, UNCHANGED <<at, counters>>, cancelled => cancelled'
  PROVE  Room' /\ Counts'
  BY DEF IInv, Room, Counts, counters, In, Made, Passed

(* The producer queues a job, or closes the channel.                       *)
LEMMA ProducerStep ==
  ASSUME IInv, Producer
  PROVE  IInv'
  <1>1. CASE Produce
    <2> DEFINE k == Job("todo")
    <2>1. k \in Keys /\ at[k] = "todo"
      BY <1>1, JobIn DEF Produce
    <2>2. /\ at' \in [Keys -> Stores \cup Workers]
          /\ at'[k] = "jobs" /\ \A j \in Keys \ {k} : at'[j] = at[j]
      BY <1>1, <2>1, MoveOne DEF IInv, Produce, Stores
    <2> HIDE DEF k
    <2>3. Shape'
      BY <1>1, <2>2 DEF IInv, Shape, Produce, flags, errors, counters
    <2>4. Occupied'
      BY <1>1, <2>1, <2>2, Names DEF IInv, Occupied, In, Produce, Workers, Stores
    <2>5. Closing' /\ Cause'
      BY <1>1 DEF IInv, Closing, Cause, ScorersDone, Produce, flags, errors
    <2>6. Flow'
      BY <1>1, <2>1, <2>2 DEF IInv, Shape, Flow, Closing, In, Produce, flags, errors
    <2>7. /\ Made' = Made /\ Passed' = Passed /\ In("db")' = In("db")
          /\ In("batch")' = In("batch")
      BY <2>1, <2>2, Names DEF Made, Passed, In, Workers, Stores
    <2> QED
      BY <1>1, <2>3, <2>4, <2>5, <2>6, <2>7, SameCounts DEF IInv, Produce, errors
  <1>2. CASE ProducerEnd
    <2>1. Shape' /\ Occupied' /\ Closing' /\ Cause'
      BY <1>2 DEF IInv, Shape, Occupied, In, Closing, Cause, ScorersDone, ProducerEnd,
         errors, counters
    <2>2. Flow'
      BY <1>2 DEF IInv, Shape, Flow, In, ProducerEnd, errors
    <2> QED
      BY <1>2, <2>1, <2>2, NoMove DEF IInv, ProducerEnd, errors
  <1> QED
    BY <1>1, <1>2 DEF Producer

(* A generator takes a job or ends.                                        *)
LEMMA TakeJobStep ==
  ASSUME IInv, NEW g \in Generators, TakeJob(g) \/ GeneratorEnd(g)
  PROVE  IInv'
  <1>1. CASE TakeJob(g)
    <2> DEFINE k == Job("jobs")
    <2>1. k \in Keys /\ at[k] = "jobs"
      BY <1>1, JobIn DEF TakeJob
    <2>2. /\ at' \in [Keys -> Stores \cup Workers]
          /\ at'[k] = g /\ \A j \in Keys \ {k} : at'[j] = at[j]
      BY <1>1, <2>1, MoveOne DEF IInv, TakeJob, Workers
    <2> HIDE DEF k
    <2>3. Shape'
      BY <1>1, <2>2 DEF IInv, Shape, TakeJob, GenStays, flags, errors, counters
    <2>4. Occupied'
      <3>1. In(g) = {} /\ In(g)' = {k}
        BY <1>1, <2>1, <2>2 DEF IInv, Occupied, In, TakeJob
      <3>2. \A w \in Workers \ {g} : In(w)' = In(w)
        BY <2>1, <2>2, Names DEF In, Workers, Stores
      <3> QED
        BY <1>1, <2>1, <3>1, <3>2, Names
        DEF IInv, Shape, Occupied, TakeJob, GenStays, Workers
    <2>5. Closing' /\ Cause'
      BY <1>1 DEF IInv, Shape, Closing, Cause, ScorersDone, TakeJob, GenStays, flags, errors
    <2>6. Flow'
      BY <1>1, <2>1, <2>2, Names
      DEF IInv, Shape, Flow, In, TakeJob, GenStays, flags, errors, Workers, Stores
    <2>7. /\ Made' = Made /\ Passed' = Passed /\ In("db")' = In("db")
          /\ In("batch")' = In("batch")
      BY <2>1, <2>2, Names DEF Made, Passed, In, Workers, Stores
    <2> QED
      BY <1>1, <2>3, <2>4, <2>5, <2>6, <2>7, SameCounts
      DEF IInv, TakeJob, GenStays, errors, counters
  <1>2. CASE GeneratorEnd(g)
    <2>1. Shape' /\ Occupied' /\ Closing' /\ Cause'
      BY <1>2 DEF IInv, Shape, Occupied, In, Closing, Cause, ScorersDone, GeneratorEnd,
         GenStays, flags, errors
    <2>2. Flow'
      BY <1>2 DEF IInv, Shape, Flow, In, GeneratorEnd, GenStays, flags, errors
    <2> QED
      BY <1>2, <2>1, <2>2, NoMove DEF IInv, GeneratorEnd, GenStays, errors, counters
  <1> QED
    BY <1>1, <1>2

(* A generator makes a key or fails.                                       *)
LEMMA MakeStep ==
  ASSUME IInv, NEW g \in Generators, Make(g)
  PROVE  IInv'
  <1>1. CASE gen' = [gen EXCEPT ![g] = "emit"] /\ UNCHANGED <<at, errors>>
    <2>1. Shape' /\ Occupied' /\ Closing' /\ Cause'
      BY <1>1 DEF IInv, Shape, Occupied, In, Closing, Cause, ScorersDone, Make,
         GenStays, flags, errors
    <2>2. Flow'
      BY <1>1 DEF IInv, Shape, Flow, In, Make, GenStays, flags, errors
    <2> QED
      BY <1>1, <2>1, <2>2, NoMove DEF IInv, Make, GenStays, errors, counters
  <1>2. CASE /\ Fail("generate") /\ MoveAll(In(g), "lost")
             /\ gen' = [gen EXCEPT ![g] = "done"]
    <2>1. /\ at' \in [Keys -> Stores \cup Workers]
          /\ \A k \in In(g) : at'[k] = "lost"
          /\ \A k \in Keys \ In(g) : at'[k] = at[k]
      BY <1>2, MoveSome DEF IInv, In, Stores
    <2>2. /\ Cause' /\ cancelled' = TRUE /\ firstErr' \in {"none", "ctx"} \cup FaultKinds
      <3>1. outcome = "running"
        BY DEF IInv, Closing, Make
      <3> QED
        BY <1>2, <3>1, Failing DEF IInv, Make, GenStays, FaultKinds
    <2>3. Shape'
      BY <1>2, <2>1, <2>2 DEF IInv, Shape, Make, GenStays, flags
    <2>4. Occupied'
      <3>1. In(g)' = {}
        BY <2>1, Names DEF In, Workers, Stores
      <3>2. \A w \in Workers \ {g} : In(w)' = In(w)
        BY <2>1, Names DEF In, Workers, Stores
      <3> QED
        BY <1>2, <3>1, <3>2, Names DEF IInv, Shape, Occupied, Make, GenStays, Workers
    <2>5. Closing'
      BY <1>2 DEF IInv, Shape, Closing, ScorersDone, Make, GenStays, flags
    <2>6. Flow'
      BY <2>2 DEF Flow
    <2>7. In("db")' = In("db") /\ In("batch")' = In("batch")
      BY <2>1, Names DEF In, Workers, Stores
    <2>8. Room' /\ Counts'
      BY <2>2, <2>7 DEF IInv, Room, Counts, Make, GenStays
    <2> QED
      BY <2>2, <2>3, <2>4, <2>5, <2>6, <2>8 DEF IInv
  <1> QED
    BY <1>1, <1>2 DEF Make

(* A generator passes its key on, and counts it.                           *)
LEMMA EmitEntityStep ==
  ASSUME IInv, NEW g \in Generators, EmitEntity(g)
  PROVE  IInv'
  <1>1. PICK k \in Keys : In(g) = {k}
    BY DEF IInv, Occupied, EmitEntity
  <1>2. /\ at' \in [Keys -> Stores \cup Workers] /\ at[k] = g
        /\ at'[k] = "entities" /\ \A j \in Keys \ {k} : at'[j] = at[j]
    <2>1. MoveAll({k}, "entities")
      BY <1>1 DEF EmitEntity
    <2> QED
      BY <1>1, <2>1, MoveSome DEF IInv, In, Stores
  <1>3. Shape'
    BY <1>2 DEF IInv, Shape, EmitEntity, GenStays, flags, errors
  <1>4. Occupied'
    <2>1. In(g)' = {}
      BY <1>1, <1>2, Names DEF In, Workers, Stores
    <2>2. \A w \in Workers \ {g} : In(w)' = In(w)
      BY <1>2, Names DEF In, Workers, Stores
    <2> QED
      BY <2>1, <2>2, Names DEF IInv, Shape, Occupied, EmitEntity, GenStays, Workers
  <1>5. Closing' /\ Cause'
    BY DEF IInv, Shape, Closing, Cause, ScorersDone, EmitEntity, GenStays, flags, errors
  <1>6. Flow'
    <2>1. ~entitiesClosed
      BY DEF IInv, Closing, EmitEntity
    <2>2. /\ In("lost")' = In("lost") /\ In("todo")' = In("todo")
          /\ In("jobs")' = In("jobs") /\ In("scored")' = In("scored")
          /\ In("batch")' = In("batch")
      BY <1>2, Names DEF In, Workers, Stores
    <2> QED
      BY <2>1, <2>2 DEF IInv, Shape, Flow, EmitEntity, GenStays, flags, errors
  <1>7. /\ Made' = Made \cup {k} /\ k \notin Made /\ Passed' = Passed
        /\ In("db")' = In("db") /\ In("batch")' = In("batch")
    BY <1>2, Names DEF Made, Passed, In, Workers, Stores
  <1>8. Room' /\ Counts'
    <2>1. Cardinality(Made') = Cardinality(Made) + 1
      BY <1>7, FiniteKeys, FS_AddElement DEF Made
    <2> QED
      BY <1>7, <2>1 DEF IInv, Room, Counts, EmitEntity, GenStays, errors
  <1> QED
    BY <1>3, <1>4, <1>5, <1>6, <1>8 DEF IInv

(* A key that cannot be passed on is lost, after the context was cancelled.*)
LEMMA AbandonEntityStep ==
  ASSUME IInv, NEW g \in Generators, AbandonEntity(g)
  PROVE  IInv'
  <1>1. /\ at' \in [Keys -> Stores \cup Workers]
        /\ \A k \in In(g) : at'[k] = "lost"
        /\ \A k \in Keys \ In(g) : at'[k] = at[k]
    BY MoveSome DEF IInv, In, Stores, AbandonEntity
  <1>2. Shape'
    BY <1>1 DEF IInv, Shape, AbandonEntity, GenStays, flags, errors
  <1>3. Occupied'
    <2>1. In(g)' = {}
      BY <1>1, Names DEF In, Workers, Stores
    <2>2. \A w \in Workers \ {g} : In(w)' = In(w)
      BY <1>1, Names DEF In, Workers, Stores
    <2> QED
      BY <2>1, <2>2, Names DEF IInv, Shape, Occupied, AbandonEntity, GenStays, Workers
  <1>4. Closing' /\ Cause'
    BY DEF IInv, Shape, Closing, Cause, ScorersDone, AbandonEntity, GenStays, flags,
       errors
  <1>5. cancelled' = TRUE
    BY DEF IInv, Shape, AbandonEntity, errors
  <1>6. Flow'
    BY <1>5 DEF Flow
  <1>7. In("db")' = In("db") /\ In("batch")' = In("batch")
    BY <1>1, Names DEF In, Workers, Stores
  <1>8. Room' /\ Counts'
    BY <1>5, <1>7 DEF IInv, Room, Counts, AbandonEntity, GenStays
  <1> QED
    BY <1>2, <1>3, <1>4, <1>6, <1>8 DEF IInv

(* A channel is closed, the context is cancelled by the caller, or the     *)
(* last scorer is started: no key moves.                                   *)
LEMMA CloseStep ==
  ASSUME IInv, CloseEntities \/ CloseScored \/ SpawnEnd \/ ParentCancel
  PROVE  IInv'
  <1>1. CASE CloseEntities
    <2>1. Shape' /\ Occupied' /\ Closing' /\ Cause' /\ Flow'
      BY <1>1 DEF IInv, Shape, Occupied, In, Closing, Cause, Flow, ScorersDone,
         CloseEntities, errors, counters
    <2> QED
      BY <1>1, <2>1, NoMove DEF IInv, CloseEntities, errors
  <1>2. CASE CloseScored
    <2>1. Shape' /\ Occupied' /\ Closing' /\ Cause' /\ Flow'
      BY <1>2 DEF IInv, Shape, Occupied, In, Closing, Cause, Flow, ScorersDone,
         CloseScored, errors, counters
    <2> QED
      BY <1>2, <2>1, NoMove DEF IInv, CloseScored, errors
  <1>3. CASE SpawnEnd
    <2>1. Shape' /\ Occupied' /\ Closing' /\ Cause' /\ Flow'
      BY <1>3 DEF IInv, Shape, Occupied, In, Closing, Cause, Flow, ScorersDone,
         SpawnEnd, flags, errors, counters
    <2> QED
      BY <1>3, <2>1, NoMove DEF IInv, SpawnEnd, errors
  <1>4. CASE ParentCancel
    <2>1. Shape' /\ Occupied' /\ Closing' /\ Cause' /\ Flow'
      BY <1>4 DEF IInv, Shape, Occupied, In, Closing, Cause, Flow, ScorersDone,
         ParentCancel, flags, counters
    <2> QED
      BY <1>4, <2>1, NoMove DEF IInv, ParentCancel
  <1> QED
    BY <1>1, <1>2, <1>3, <1>4

(* A scorer is started, or its encryptor cannot be cloned.                 *)
LEMMA SpawnStep ==
  ASSUME IInv, NEW s \in Scorers, Spawn(s)
  PROVE  IInv'
  <1>1. CASE scorer' = [scorer EXCEPT ![s] = "take"] /\ UNCHANGED <<main, errors>>
    <2>1. Shape' /\ Occupied' /\ Closing' /\ Cause' /\ Flow'
      BY <1>1 DEF IInv, Shape, Occupied, In, Closing, Cause, Flow, ScorersDone,
         Spawn, flags, errors, counters
    <2> QED
      BY <1>1, <2>1, NoMove DEF IInv, Spawn, errors
  <1>2. CASE Fail("clone") /\ main' = "persist" /\ UNCHANGED scorer
    <2>1. Cause' /\ cancelled' = TRUE /\ firstErr' \in {"none", "ctx"} \cup FaultKinds
      <3>1. outcome = "running"
        BY DEF IInv, Closing, Spawn
      <3> QED
        BY <1>2, <3>1, Failing DEF IInv, Spawn, FaultKinds
    <2>2. Shape' /\ Occupied' /\ Closing' /\ Flow'
      BY <1>2, <2>1 DEF IInv, Shape, Occupied, In, Closing, Flow, ScorersDone,
         Spawn, flags, counters
    <2> QED
      BY <1>2, <2>1, <2>2, NoMove DEF IInv, Spawn
  <1> QED
    BY <1>1, <1>2 DEF Spawn

(* A scorer takes a key or ends.                                           *)
LEMMA TakeEntityStep ==
  ASSUME IInv, NEW s \in Scorers, TakeEntity(s) \/ ScorerEnd(s)
  PROVE  IInv'
  <1>1. CASE TakeEntity(s)
    <2>1. PICK k \in In("entities") : Move(k, s)
      BY <1>1 DEF TakeEntity
    <2>2. k \in Keys /\ at[k] = "entities"
      BY DEF In
    <2>3. /\ at' \in [Keys -> Stores \cup Workers]
          /\ at'[k] = s /\ \A j \in Keys \ {k} : at'[j] = at[j]
      BY <2>1, <2>2, MoveOne DEF IInv, Workers
    <2>4. Shape'
      BY <1>1, <2>3 DEF IInv, Shape, TakeEntity, ScorerStays, flags, errors
    <2>5. Occupied'
      <3>1. In(s) = {} /\ In(s)' = {k}
        BY <1>1, <2>2, <2>3 DEF IInv, Occupied, In, TakeEntity
      <3>2. \A w \in Workers \ {s} : In(w)' = In(w)
        BY <2>2, <2>3, Names DEF In, Workers, Stores
      <3> QED
        BY <1>1, <2>2, <3>1, <3>2, Names
        DEF IInv, Shape, Occupied, TakeEntity, ScorerStays, Workers
    <2>6. Closing' /\ Cause'
      BY <1>1 DEF IInv, Shape, Closing, Cause, ScorersDone, TakeEntity, ScorerStays,
         flags, errors
    <2>7. Flow'
      BY <1>1, <2>2, <2>3, Names
      DEF IInv, Shape, Flow, In, TakeEntity, ScorerStays, flags, errors, Workers, Stores
    <2>8. /\ Made' = Made /\ Passed' = Passed /\ In("db")' = In("db")
          /\ In("batch")' = In("batch")
      BY <2>2, <2>3, Names DEF Made, Passed, In, Workers, Stores
    <2> QED
      BY <1>1, <2>4, <2>5, <2>6, <2>7, <2>8, SameCounts
      DEF IInv, TakeEntity, ScorerStays, errors, counters
  <1>2. CASE ScorerEnd(s)
    <2>1. Shape' /\ Occupied' /\ Closing' /\ Cause'
      BY <1>2 DEF IInv, Shape, Occupied, In, Closing, Cause, ScorersDone, ScorerEnd,
         ScorerStays, flags, errors
    <2>2. Flow'
      BY <1>2 DEF IInv, Shape, Flow, In, ScorerEnd, ScorerStays, flags, errors
    <2> QED
      BY <1>2, <2>1, <2>2, NoMove DEF IInv, ScorerEnd, ScorerStays, errors, counters
  <1> QED
    BY <1>1, <1>2

(* A scorer rejects its key, serializes it, or fails.                      *)
LEMMA ScoreStep ==
  ASSUME IInv, NEW s \in Scorers, Score(s)
  PROVE  IInv'
  <1>1. CASE /\ MoveAll(In(s), "rejected")
             /\ scorer' = [scorer EXCEPT ![s] = "take"] /\ UNCHANGED errors
    <2>1. /\ at' \in [Keys -> Stores \cup Workers]
          /\ \A k \in In(s) : at'[k] = "rejected"
          /\ \A k \in Keys \ In(s) : at'[k] = at[k]
      BY <1>1, MoveSome DEF IInv, In, Stores
    <2>2. Shape'
      BY <1>1, <2>1 DEF IInv, Shape, Score, ScorerStays, flags, errors
    <2>3. Occupied'
      <3>1. In(s)' = {}
        BY <2>1, Names DEF In, Workers, Stores
      <3>2. \A w \in Workers \ {s} : In(w)' = In(w)
        BY <2>1, Names DEF In, Workers, Stores
      <3> QED
        BY <1>1, <3>1, <3>2, Names DEF IInv, Shape, Occupied, Score, ScorerStays, Workers
    <2>4. Closing' /\ Cause'
      BY <1>1 DEF IInv, Shape, Closing, Cause, ScorersDone, Score, ScorerStays, flags,
         errors
    <2>5. Flow'
      <3>1. /\ In("lost")' = In("lost") /\ In("todo")' = In("todo")
            /\ In("jobs")' = In("jobs") /\ In("entities")' = In("entities")
            /\ In("scored")' = In("scored") /\ In("batch")' = In("batch")
        BY <2>1, Names DEF In, Workers, Stores
      <3> QED
        BY <1>1, <3>1 DEF IInv, Shape, Flow, Score, ScorerStays, flags, errors
    <2>6. /\ Made' = Made /\ Passed' = Passed /\ In("db")' = In("db")
          /\ In("batch")' = In("batch")
      BY <2>1, Names DEF Made, Passed, In, Workers, Stores
    <2> QED
      BY <1>1, <2>2, <2>3, <2>4, <2>5, <2>6, SameCounts
      DEF IInv, Score, ScorerStays, errors, counters
  <1>2. CASE scorer' = [scorer EXCEPT ![s] = "emit"] /\ UNCHANGED <<at, errors>>
    <2>1. Shape' /\ Occupied' /\ Closing' /\ Cause'
      BY <1>2 DEF IInv, Shape, Occupied, In, Closing, Cause, ScorersDone, Score,
         ScorerStays, flags, errors
    <2>2. Flow'
      BY <1>2 DEF IInv, Shape, Flow, In, Score, ScorerStays, flags, errors
    <2> QED
      BY <1>2, <2>1, <2>2, NoMove DEF IInv, Score, ScorerStays, errors, counters
  <1>3. ASSUME NEW err \in Faults \cap {"score", "serialize"}, Fail(err),
               MoveAll(In(s), "lost"), scorer' = [scorer EXCEPT ![s] = "done"]
        PROVE  IInv'
    <2>1. /\ at' \in [Keys -> Stores \cup Workers]
          /\ \A k \in In(s) : at'[k] = "lost"
          /\ \A k \in Keys \ In(s) : at'[k] = at[k]
      BY <1>3, MoveSome DEF IInv, In, Stores
    <2>2. /\ Cause' /\ cancelled' = TRUE /\ firstErr' \in {"none", "ctx"} \cup FaultKinds
      <3>1. outcome = "running"
        BY DEF IInv, Shape, Closing, ScorersDone, Score
      <3> QED
        BY <1>3, <3>1, Failing DEF IInv, Score, ScorerStays, FaultKinds
    <2>3. Shape'
      BY <1>3, <2>1, <2>2 DEF IInv, Shape, Score, ScorerStays, flags
    <2>4. Occupied'
      <3>1. In(s)' = {}
        BY <2>1, Names DEF In, Workers, Stores
      <3>2. \A w \in Workers \ {s} : In(w)' = In(w)
        BY <2>1, Names DEF In, Workers, Stores
      <3> QED
        BY <1>3, <3>1, <3>2, Names DEF IInv, Shape, Occupied, Score, ScorerStays, Workers
    <2>5. Closing'
      BY <1>3 DEF IInv, Shape, Closing, ScorersDone, Score, ScorerStays, flags
    <2>6. Flow'
      BY <2>2 DEF Flow
    <2>7. In("db")' = In("db") /\ In("batch")' = In("batch")
      BY <2>1, Names DEF In, Workers, Stores
    <2>8. Room' /\ Counts'
      BY <2>2, <2>7 DEF IInv, Room, Counts, Score, ScorerStays
    <2> QED
      BY <2>2, <2>3, <2>4, <2>5, <2>6, <2>8 DEF IInv
  <1> QED
    BY <1>1, <1>2, <1>3 DEF Score

(* A scorer passes its key on, and counts it.                              *)
LEMMA EmitKeyInfoStep ==
  ASSUME IInv, NEW s \in Scorers, EmitKeyInfo(s)
  PROVE  IInv'
  <1>1. PICK k \in Keys : In(s) = {k}
    BY DEF IInv, Occupied, EmitKeyInfo
  <1>2. /\ at' \in [Keys -> Stores \cup Workers] /\ at[k] = s
        /\ at'[k] = "scored" /\ \A j \in Keys \ {k} : at'[j] = at[j]
    <2>1. MoveAll({k}, "scored")
      BY <1>1 DEF EmitKeyInfo
    <2> QED
      BY <1>1, <2>1, MoveSome DEF IInv, In, Stores
  <1>3. Shape'
    BY <1>2 DEF IInv, Shape, EmitKeyInfo, ScorerStays, flags, errors
  <1>4. Occupied'
    <2>1. In(s)' = {}
      BY <1>1, <1>2, Names DEF In, Workers, Stores
    <2>2. \A w \in Workers \ {s} : In(w)' = In(w)
      BY <1>2, Names DEF In, Workers, Stores
    <2> QED
      BY <2>1, <2>2, Names DEF IInv, Shape, Occupied, EmitKeyInfo, ScorerStays, Workers
  <1>5. Closing' /\ Cause'
    BY DEF IInv, Shape, Closing, Cause, ScorersDone, EmitKeyInfo, ScorerStays, flags,
       errors
  <1>6. Flow'
    <2>1. ~scoredClosed
      BY DEF IInv, Closing, ScorersDone, EmitKeyInfo
    <2>2. /\ In("lost")' = In("lost") /\ In("todo")' = In("todo")
          /\ In("jobs")' = In("jobs") /\ In("entities")' = In("entities")
          /\ In("batch")' = In("batch")
      BY <1>2, Names DEF In, Workers, Stores
    <2> QED
      BY <2>1, <2>2 DEF IInv, Shape, Flow, EmitKeyInfo, ScorerStays, flags, errors
  <1>7. /\ Passed' = Passed \cup {k} /\ k \notin Passed /\ Made' = Made
        /\ In("db")' = In("db") /\ In("batch")' = In("batch")
    BY <1>2, Names DEF Made, Passed, In, Workers, Stores
  <1>8. Room' /\ Counts'
    <2>1. Cardinality(Passed') = Cardinality(Passed) + 1
      BY <1>7, FiniteKeys, FS_AddElement DEF Passed
    <2> QED
      BY <1>7, <2>1 DEF IInv, Room, Counts, EmitKeyInfo, ScorerStays, errors
  <1> QED
    BY <1>3, <1>4, <1>5, <1>6, <1>8 DEF IInv

(* A scored key that cannot be passed on is lost.                          *)
LEMMA AbandonKeyInfoStep ==
  ASSUME IInv, NEW s \in Scorers, AbandonKeyInfo(s)
  PROVE  IInv'
  <1>1. /\ at' \in [Keys -> Stores \cup Workers]
        /\ \A k \in In(s) : at'[k] = "lost"
        /\ \A k \in Keys \ In(s) : at'[k] = at[k]
    BY MoveSome DEF IInv, In, Stores, AbandonKeyInfo
  <1>2. Shape'
    BY <1>1 DEF IInv, Shape, AbandonKeyInfo, ScorerStays, flags, errors
  <1>3. Occupied'
    <2>1. In(s)' = {}
      BY <1>1, Names DEF In, Workers, Stores
    <2>2. \A w \in Workers \ {s} : In(w)' = In(w)
      BY <1>1, Names DEF In, Workers, Stores
    <2> QED
      BY <2>1, <2>2, Names DEF IInv, Shape, Occupied, AbandonKeyInfo, ScorerStays, Workers
  <1>4. Closing' /\ Cause'
    BY DEF IInv, Shape, Closing, Cause, ScorersDone, AbandonKeyInfo, ScorerStays, flags,
       errors
  <1>5. cancelled' = TRUE
    BY DEF IInv, Shape, AbandonKeyInfo, errors
  <1>6. Flow'
    BY <1>5 DEF Flow
  <1>7. In("db")' = In("db") /\ In("batch")' = In("batch")
    BY <1>1, Names DEF In, Workers, Stores
  <1>8. Room' /\ Counts'
    BY <1>5, <1>7 DEF IInv, Room, Counts, AbandonKeyInfo, ScorerStays
  <1> QED
    BY <1>2, <1>3, <1>4, <1>6, <1>8 DEF IInv

-------------------------------------------------------------------------------
(* The persisting loop.  A flush moves the batch, or the batch and the key *)
(* just received, out of memory.                                           *)
Flushable(batch) ==
  In("batch") \subseteq batch /\ batch \subseteq In("batch") \cup In("scored")

(* Whatever becomes of the batch, the keys elsewhere stay where they are.  *)
LEMMA Flush ==
  ASSUME IInv, NEW batch, Flushable(batch), NEW place \in {"db", "lost"},
         MoveAll(batch, place)
  PROVE  /\ at' \in [Keys -> Stores \cup Workers]
         /\ \A k \in batch : at'[k] = place
         /\ \A k \in Keys \ batch : at'[k] = at[k]
         /\ In("batch")' = {}
         /\ \A w \in Workers \cup {"todo", "jobs", "entities"} : In(w)' = In(w)
         /\ batch \subseteq Keys
  <1>1. batch \in SUBSET Keys
    BY DEF Flushable, In
  <1>2. /\ at' \in [Keys -> Stores \cup Workers]
        /\ \A k \in batch : at'[k] = place
        /\ \A k \in Keys \ batch : at'[k] = at[k]
    BY <1>1, MoveSome DEF IInv, Stores
  <1>3. In("batch")' = {}
    BY <1>1, <1>2 DEF Flushable, In
  <1>4. \A w \in Workers \cup {"todo", "jobs", "entities"} : In(w)' = In(w)
    BY <1>1, <1>2, Names DEF Flushable, In, Workers, Stores
  <1> QED
    BY <1>1, <1>2, <1>3, <1>4

(* A batch is saved: it is in the database, all of it, and counted.        *)
LEMMA SavesStep ==
  ASSUME IInv, NEW batch, Flushable(batch), Saves(batch), PersistStays,
         main = "persist",
         \/ main' = "persist"
         \/ main' = "wait" /\ scoredClosed /\ In("scored") = {}
  PROVE  IInv'
  <1>1. /\ at' \in [Keys -> Stores \cup Workers]
        /\ \A k \in batch : at'[k] = "db"
        /\ \A k \in Keys \ batch : at'[k] = at[k]
        /\ In("batch")' = {}
        /\ \A w \in Workers \cup {"todo", "jobs", "entities"} : In(w)' = In(w)
        /\ batch \subseteq Keys
    BY Flush DEF Saves
  <1>2. Shape'
    <2>1. Cardinality(batch) \in Nat
      BY <1>1, FiniteKeys
    <2> QED
      BY <1>1, <2>1 DEF IInv, Shape, Saves, PersistStays, flags, errors
  <1>3. Room'
    BY <1>1, FS_EmptySet, PipelineAssumption DEF Room
  <1>4. Occupied'
    BY <1>1 DEF IInv, Occupied, PersistStays, Workers
  <1>5. Closing' /\ Cause'
    BY DEF IInv, Shape, Closing, Cause, ScorersDone, Saves, PersistStays, flags, errors
  <1>6. Flow'
    <2>1. In("lost")' = In("lost") /\ In("scored")' \subseteq In("scored")
      BY <1>1 DEF Flushable, In
    <2> QED
      BY <1>1, <2>1 DEF IInv, Shape, Flow, Saves, PersistStays, flags, errors
  <1>7. Made' = Made /\ Passed' = Passed
    BY <1>1, Names DEF Flushable, Made, Passed, In, Workers, Stores
  <1>8. saved' = Cardinality(In("db")')
    <2>1. In("db")' = In("db") \cup batch /\ In("db") \cap batch = {}
      BY <1>1 DEF Flushable, In
    <2>2. /\ IsFiniteSet(In("db")) /\ Cardinality(In("db")) \in Nat
          /\ IsFiniteSet(batch) /\ Cardinality(batch) \in Nat
      BY <1>1, FiniteKeys DEF In
    <2>3. Cardinality(In("db") \cup batch)
            = Cardinality(In("db")) + Cardinality(batch) - Cardinality({})
      BY <2>1, <2>2, FS_Union
    <2>4. saved = Cardinality(In("db")) /\ saved' = saved + Cardinality(batch)
      BY DEF IInv, Counts, Saves
    <2>5. Cardinality({}) = 0
      BY FS_EmptySet
    <2>6. Cardinality(In("db")')
            = Cardinality(In("db")) + Cardinality(batch) - Cardinality({})
      BY ONLY <2>1, <2>3, Zenon
    <2> QED
      BY <2>2, <2>4, <2>5, <2>6
  <1>9. Counts'
    BY <1>7, <1>8 DEF IInv, Counts, Saves, PersistStays, errors
  <1> QED
    BY <1>2, <1>3, <1>4, <1>5, <1>6, <1>9 DEF IInv

(* The batch is lost: the save failed, or the context was cancelled.       *)
LEMMA DropStep ==
  ASSUME IInv, NEW batch, Flushable(batch), MoveAll(batch, "lost"),
         NEW err \in FaultKinds \cup {"ctx"}, Fail(err), err = "ctx" => cancelled,
         UNCHANGED saved, PersistStays, main = "persist", main' = "wait"
  PROVE  IInv'
  <1>1. /\ at' \in [Keys -> Stores \cup Workers]
        /\ \A k \in batch : at'[k] = "lost"
        /\ \A k \in Keys \ batch : at'[k] = at[k]
        /\ In("batch")' = {}
        /\ \A w \in Workers \cup {"todo", "jobs", "entities"} : In(w)' = In(w)
        /\ batch \subseteq Keys
    BY Flush
  <1>2. Cause' /\ cancelled' = TRUE /\ firstErr' \in {"none", "ctx"} \cup FaultKinds
    BY Failing DEF IInv, Closing, PersistStays
  <1>3. Shape'
    BY <1>1, <1>2 DEF IInv, Shape, PersistStays, flags
  <1>4. Room'
    BY <1>1, FS_EmptySet, PipelineAssumption DEF Room
  <1>5. Occupied'
    BY <1>1 DEF IInv, Occupied, PersistStays, Workers
  <1>6. Closing'
    BY DEF IInv, Shape, Closing, ScorersDone, PersistStays, flags
  <1>7. Flow'
    BY <1>2 DEF Flow
  <1>8. In("db")' = In("db")
    BY <1>1 DEF Flushable, In
  <1>9. Counts'
    BY <1>2, <1>8 DEF IInv, Counts
  <1> QED
    BY <1>2, <1>3, <1>4, <1>5, <1>6, <1>7, <1>9 DEF IInv

(* A key joins the batch that is not full with it, or makes it full.       *)
LEMMA ReceiveStep ==
  ASSUME IInv, ReceiveKeyInfo
  PROVE  IInv'
  <1> DEFINE Batch(k) == In("batch") \cup {k}
  <1>1. PICK k \in In("scored") :
          \/ /\ Cardinality(Batch(k)) < BatchSize
             /\ Move(k, "batch") /\ UNCHANGED <<main, saved, errors>>
          \/ Saves(Batch(k)) /\ UNCHANGED main
          \/ SaveFails(Batch(k)) /\ main' = "wait"
    BY DEF ReceiveKeyInfo
  <1>2. k \in Keys /\ at[k] = "scored"
    BY DEF In
  <1>3. Flushable(Batch(k))
    BY DEF Flushable
  <1>4. CASE /\ Cardinality(Batch(k)) < BatchSize
             /\ Move(k, "batch") /\ UNCHANGED <<main, saved, errors>>
    <2>1. /\ at' \in [Keys -> Stores \cup Workers]
          /\ at'[k] = "batch" /\ \A j \in Keys \ {k} : at'[j] = at[j]
      BY <1>2, <1>4, MoveOne DEF IInv, Stores
    <2>2. Shape'
      BY <1>4, <2>1 DEF IInv, Shape, ReceiveKeyInfo, PersistStays, flags, errors
    <2>3. In("batch")' = Batch(k) /\ In("db")' = In("db")
      BY <1>2, <2>1 DEF In
    <2>4. Room'
      BY <1>4, <2>3 DEF Room
    <2>5. Occupied'
      <3>1. \A w \in Workers : In(w)' = In(w)
        BY <1>2, <2>1, Names DEF In, Workers, Stores
      <3> QED
        BY <3>1 DEF IInv, Occupied, ReceiveKeyInfo, PersistStays, Workers
    <2>6. Closing' /\ Cause'
      BY <1>4 DEF IInv, Shape, Closing, Cause, ScorersDone, ReceiveKeyInfo,
         PersistStays, flags, errors
    <2>7. Flow'
      <3>1. /\ In("lost")' = In("lost") /\ In("todo")' = In("todo")
            /\ In("jobs")' = In("jobs") /\ In("entities")' = In("entities")
        BY <1>2, <2>1 DEF In
      <3> QED
        BY <1>4, <3>1 DEF IInv, Shape, Flow, ReceiveKeyInfo, PersistStays, flags, errors
    <2>8. Made' = Made /\ Passed' = Passed
      BY <1>2, <2>1, Names DEF Made, Passed, Workers, Stores
    <2>9. Counts'
      BY <1>4, <2>3, <2>8 DEF IInv, Counts, ReceiveKeyInfo, PersistStays, errors
    <2> QED
      BY <2>2, <2>4, <2>5, <2>6, <2>7, <2>9 DEF IInv
  <1>5. CASE Saves(Batch(k)) /\ UNCHANGED main
    <2> HIDE DEF Batch
    <2> QED
      BY <1>3, <1>5, SavesStep DEF ReceiveKeyInfo
  <1>6. CASE SaveFails(Batch(k)) /\ main' = "wait"
    <2> HIDE DEF Batch
    <2> QED
      BY <1>3, <1>6, DropStep DEF ReceiveKeyInfo, SaveFails, FaultKinds
  <1> QED
    BY <1>1, <1>4, <1>5, <1>6

(* The last batch is flushed, or dropped because the context was cancelled.*)
LEMMA PersistEndStep ==
  ASSUME IInv, PersistEnd \/ PersistCancelled
  PROVE  IInv'
  <1> DEFINE batch == In("batch")
  <1>1. Flushable(batch)
    BY DEF Flushable
  <1> HIDE DEF batch
  <1>2. CASE PersistEnd /\ Saves(batch)
    BY <1>1, <1>2, SavesStep DEF PersistEnd
  <1>3. CASE PersistEnd /\ SaveFails(batch)
    BY <1>1, <1>3, DropStep DEF PersistEnd, SaveFails, FaultKinds
  <1>4. CASE PersistCancelled
    <2>1. MoveAll(batch, "lost")
      BY <1>4 DEF PersistCancelled, batch
    <2> QED
      BY <1>1, <1>4, <2>1, DropStep DEF PersistCancelled
  <1>5. PersistEnd => Saves(batch) \/ SaveFails(batch)
    BY DEF PersistEnd, batch
  <1> QED
    BY <1>2, <1>3, <1>4, <1>5

(* GenerateKeys returns.                                                   *)
LEMMA ReturnStep ==
  ASSUME IInv, Return
  PROVE  IInv'
  <1>1. Shape' /\ Occupied' /\ Closing' /\ Cause' /\ Flow'
    BY DEF IInv, Shape, Occupied, In, Closing, Cause, Flow, ScorersDone, Return,
       Result, flags, errors, counters, FaultKinds
  <1> QED
    BY <1>1, NoMove DEF IInv, Return, errors

LEMMA NextIInv ==
  ASSUME IInv, [Next]_vars
  PROVE  IInv'
  <1>1. CASE UNCHANGED vars
    BY <1>1 DEF IInv, Shape, Room, Occupied, In, Closing, Cause, Flow, Counts, Made,
       Passed, ScorersDone, vars, flags, errors, counters
  <1>2. CASE Main
    BY <1>2, SpawnStep, CloseStep, ReceiveStep, PersistEndStep, ReturnStep DEF Main
  <1>3. ASSUME NEW g \in Generators, Generator(g)
        PROVE  IInv'
    BY <1>3, TakeJobStep, MakeStep, EmitEntityStep, AbandonEntityStep DEF Generator
  <1>4. ASSUME NEW s \in Scorers, Scorer(s)
        PROVE  IInv'
    BY <1>4, TakeEntityStep, ScoreStep, EmitKeyInfoStep, AbandonKeyInfoStep DEF Scorer
  <1>5. CASE Producer \/ CloseEntities \/ CloseScored \/ ParentCancel
    BY <1>5, ProducerStep, CloseStep
  <1> QED
    BY <1>1, <1>2, <1>3, <1>4, <1>5 DEF Next, Returned

-------------------------------------------------------------------------------
(* The strengthened invariant holds of every run of GenerateKeys.          *)
THEOREM Invariant == Spec => []IInv
  BY InitIInv, NextIInv, PTL DEF Spec

(* Types; the batch that persistBatches collects is never full between two *)
(* of its steps.                                                           *)
THEOREM TypeCorrect == Spec => []TypeOK
  <1>1. IInv => TypeOK
    BY DEF IInv, Shape, Room, TypeOK, Stores, Workers
  <1> QED
    BY <1>1, Invariant, PTL

(* GenerateKeys returns nil only if every key was generated and scored and *)
(* the accepted ones are all in the database, and it logs the right counts.*)
THEOREM CompleteAlways == Spec => []Complete
  <1>1. ASSUME IInv, outcome = "ok"
        PROVE  /\ \A k \in Keys : at[k] \in {"db", "rejected"}
               /\ generated = Cardinality(Keys)
               /\ accepted = Cardinality(In("db")) /\ saved = accepted
    <2>1. main = "returned" /\ ~cancelled
      BY <1>1 DEF IInv, Closing, Cause
    <2>2. /\ \A g \in Generators : gen[g] = "done"
          /\ \A s \in Scorers : scorer[s] = "done"
      BY <1>1, <2>1 DEF IInv, Shape, Closing, Flow, ScorersDone
    <2>3. \A place \in Workers \cup (Stores \ {"db", "rejected"}) : In(place) = {}
      <3>1. \A w \in Workers : In(w) = {}
        BY <1>1, <2>2 DEF IInv, Occupied, Workers
      <3>2. In("jobs") = {} /\ In("todo") = {} /\ In("entities") = {}
        BY <1>1, <2>1, <2>2, PipelineAssumption DEF IInv, Flow
      <3>3. In("lost") = {} /\ In("scored") = {} /\ In("batch") = {}
        BY <1>1, <2>1 DEF IInv, Flow
      <3> QED
        BY <3>1, <3>2, <3>3 DEF Stores
    <2>4. \A k \in Keys : at[k] \in {"db", "rejected"}
      BY <1>1, <2>3 DEF IInv, Shape, In
    <2>5. Made = Keys /\ Passed = In("db")
      BY <2>4 DEF Made, Passed, In
    <2> QED
      BY <1>1, <2>1, <2>4, <2>5 DEF IInv, Counts
  <1>2. IInv => Complete
    BY <1>1 DEF Complete
  <1> QED
    BY <1>2, Invariant, PTL

(* A "context canceled" is reported only if the caller cancelled.          *)
THEOREM RootCauseAlways == Spec => []RootCause
  <1>1. IInv => RootCause
    BY DEF IInv, Cause, RootCause
  <1> QED
    BY <1>1, Invariant, PTL

(* No worker outlives GenerateKeys or sends on a closed channel.           *)
THEOREM NoStragglerAlways == Spec => []NoStraggler
  <1>1. IInv => NoStraggler
    BY DEF IInv, Closing, NoStraggler, ScorersDone
  <1> QED
    BY <1>1, Invariant, PTL
================================================================================
