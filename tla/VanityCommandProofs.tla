--------------------------- MODULE VanityCommandProofs ---------------------------
(***************************************************************************)
(* For every set of criteria and of target lengths, every longest run and  *)
(* every bound: what `gpgenie vanity` leaves on disk and in the database   *)
(* is consistent after any sequence of invocations, failed writes and      *)
(* kills.                                                                  *)
(***************************************************************************)
EXTENDS SearchedCommand, TLAPS

(* Where a search has gone on from cp and not yet ended with a longer key. *)
Mining == {"mine", "progress", "last progress", "result"}

(* What a checkpoint claims is so, be it in memory or on disk.             *)
Sound(c) ==
  /\ c.best # NoKey => Complete(c.best) /\ c.best.criteria = c.criteria
  /\ c.saved => c.best \in db

Sounds == Sound(cp) /\ Sound(file) /\ \A k \in db : Complete(k)

(* While the process runs it has not exited, it works for the criteria of  *)
(* its options, and with --resume its checkpoint is ahead of the file of   *)
(* the same criteria.                                                      *)
Running ==
  pc # "idle" =>
    /\ exit = "none" /\ cp.criteria = opts.criteria
    /\ opts.resume /\ file.criteria = cp.criteria
         => cp.best.run >= file.best.run /\ cp.attempts >= file.attempts

(* The search runs as long as the best key is too short; the save of its   *)
(* last progress either reached the disk or is remembered as failed.       *)
Searching ==
  /\ pc \in Mining => cp.best.run < opts.minRun
  /\ pc = "result" /\ ~saveFailed => file = cp /\ ~torn

(* From its discovery to its adoption a candidate beats the best key, and  *)
(* has the artifacts written so far.                                       *)
Found ==
  /\ pc \in {"finalize", "finalized"} \cup Files => candidate # NoKey
  /\ pc \in {"last progress", "result", "finalize", "finalized"} \cup Files /\ candidate # NoKey
       => candidate.criteria = opts.criteria /\ candidate.run > cp.best.run
  /\ pc \in {"private", "metadata"} => <<candidate, "public">> \in artifacts
  /\ pc = "metadata" => <<candidate, "private">> \in artifacts
  /\ pc = "finalized" => Complete(candidate)

(* After its adoption it is the best key; it is stored before it is marked.*)
Adopted ==
  /\ pc \in {"reload", "store", "upsert", "mark"} => candidate # NoKey /\ cp.best = candidate
  /\ pc = "mark" => cp.saved

IInv == TypeOK /\ Sounds /\ Running /\ Searching /\ Found /\ Adopted /\ SuccessDurable

-------------------------------------------------------------------------------
(* "No key" is not a key, and a key has its artifacts as long as they stay.*)
LEMMA NoKeyIsNone == NoKey \notin Key
  BY DEF NoKey, Key

LEMMA BestRun ==
  ASSUME NEW k \in Key \cup {NoKey}
  PROVE  /\ k.run \in Nat /\ k.run <= MaxRun
         /\ k # NoKey => k.run > 0 /\ k \in Key /\ k.criteria \in Criteria
         /\ k = NoKey => k.run = 0
  BY CommandAssumption DEF Key, NoKey

(* The fields of a checkpoint, and what assigning one of them makes of it. *)
LEMMA Fields ==
  ASSUME NEW c \in Checkpoint
  PROVE  /\ c.attempts \in Nat /\ c.attempts \in 0..MaxSpent
         /\ c.best \in Key \cup {NoKey} /\ c.criteria \in Criteria /\ c.saved \in BOOLEAN
  BY CommandAssumption DEF Checkpoint

LEMMA Counted ==
  ASSUME NEW c \in Checkpoint, NEW n \in 0..MaxSpent, NEW d,
         d = [c EXCEPT !.attempts = n]
  PROVE  /\ d \in Checkpoint /\ d.attempts = n
         /\ d.best = c.best /\ d.criteria = c.criteria /\ d.saved = c.saved
  BY DEF Checkpoint

LEMMA Retargeted ==
  ASSUME NEW c \in Checkpoint, NEW w \in Criteria, NEW d,
         d = [c EXCEPT !.criteria = w]
  PROVE  /\ d \in Checkpoint /\ d.criteria = w
         /\ d.attempts = c.attempts /\ d.best = c.best /\ d.saved = c.saved
         /\ c.criteria = w => d = c
  BY DEF Checkpoint

LEMMA Emptied ==
  ASSUME NEW w \in Criteria
  PROVE  /\ Empty(w) \in Checkpoint /\ Empty(w).attempts = 0 /\ Empty(w).best = NoKey
         /\ Empty(w).criteria = w /\ Empty(w).saved = FALSE
  BY CommandAssumption DEF Checkpoint, Empty

(* The fields of the options.                                              *)
LEMMA Given ==
  ASSUME NEW o \in Options
  PROVE  /\ o.criteria \in Criteria /\ o.minRun \in Nat /\ o.minRun > 0
         /\ o.saveDB \in BOOLEAN /\ o.resume \in BOOLEAN
  <1>1. o.minRun \in 1..MaxRun
    BY CommandAssumption DEF Options
  <1> QED
    BY <1>1, CommandAssumption DEF Options

LEMMA InitIInv == Init => IInv
  <1> SUFFICES ASSUME Init PROVE IInv
    OBVIOUS
  <1>1. TypeOK
    <2>1. cp = Empty(opts.criteria) /\ file = Empty(opts.criteria) /\ opts.criteria \in Criteria
      BY Given DEF Init
    <2>2. cp \in Checkpoint /\ file \in Checkpoint /\ cp.attempts = 0
      BY <2>1, Emptied
    <2>3. spent \in cp.attempts..MaxSpent /\ used \in 0..MaxKeys
      BY <2>2, CommandAssumption DEF Init
    <2> QED
      BY <2>2, <2>3 DEF Init, TypeOK
  <1> QED
    BY <1>1 DEF Init, IInv, Sounds, Sound, Running, Searching, Found, Adopted,
       SuccessDurable, Empty, Mining, Files

(* An invocation starts from the checkpoint on disk.                       *)
LEMMA StartStep ==
  ASSUME IInv, NEW o \in Options, Start(o)
  PROVE  IInv'
  <1>1. CASE /\ o.resume
             /\ Exit("error") /\ UNCHANGED <<cp, spent, candidate>>
    <2>1. TypeOK'
      BY <1>1 DEF IInv, TypeOK, Start, Exit, disk
    <2> QED
      BY <1>1, <2>1 DEF IInv, Sounds, Sound, Complete, Running, Searching, Found, Adopted,
         SuccessDurable, Start, Exit, disk, Mining, Files
  <1>2. CASE /\ ~(o.resume /\ torn)
             /\ cp' = Resumed(o) /\ spent' = cp'.attempts /\ candidate' = cp'.best
             /\ IF NeedsMining(o, cp') THEN pc' = "mine" /\ exit' = "none"
                ELSE IF o.saveDB /\ ~cp'.saved THEN pc' = "reload" /\ exit' = "none"
                ELSE Exit("ok")
    <2>1. /\ cp' \in Checkpoint /\ cp'.criteria = o.criteria
          /\ \/ cp' = Empty(o.criteria)
             \/ /\ o.resume /\ cp'.best = file.best /\ cp'.saved = file.saved
                /\ HasSearchState(file) => cp' = file
          /\ o.resume /\ file.criteria = o.criteria
               => cp'.best = file.best /\ cp'.attempts = file.attempts
      <3>1. o.criteria \in Criteria /\ file \in Checkpoint
        BY Given DEF IInv, TypeOK
      <3>2. CASE ~o.resume
        BY <1>2, <3>1, <3>2, Emptied DEF Resumed
      <3>3. CASE o.resume /\ HasSearchState(file) /\ file.criteria # o.criteria
        BY <1>2, <3>1, <3>3, Emptied DEF Resumed
      <3>4. CASE o.resume /\ ~(HasSearchState(file) /\ file.criteria # o.criteria)
        <4>1. cp' = [file EXCEPT !.criteria = o.criteria]
          BY <1>2, <3>4 DEF Resumed
        <4> QED
          BY <3>1, <3>4, <4>1, Retargeted
      <3> QED
        BY <3>2, <3>3, <3>4
    <2>2. Sounds'
      <3>1. UNCHANGED <<file, artifacts, db>>
        BY DEF Start, disk
      <3>2. CASE cp' = Empty(o.criteria)
        BY <3>1, <3>2, Emptied, Given DEF IInv, Sounds, Sound, Complete
      <3>3. CASE cp'.best = file.best /\ cp'.saved = file.saved /\ (HasSearchState(file) => cp' = file)
        BY <3>1, <3>3 DEF IInv, Sounds, Sound, Complete, HasSearchState
      <3> QED
        BY <2>1, <3>2, <3>3
    <2>3. /\ cp'.attempts \in 0..MaxSpent /\ cp'.best \in Key \cup {NoKey}
          /\ cp'.best.run \in Nat /\ file.best.run \in Nat /\ file.attempts \in Nat
      BY <2>1, Fields, BestRun DEF IInv, TypeOK
    <2>4. TypeOK'
      <3>1. spent' \in cp'.attempts..MaxSpent
        BY <1>2, <2>3, CommandAssumption
      <3>2. pc' \in {"mine", "reload", "idle"} /\ exit' \in {"none", "ok"}
        BY <1>2 DEF Exit
      <3> QED
        BY <1>2, <2>1, <2>3, <3>1, <3>2 DEF IInv, TypeOK, Start, disk
    <2>5. (pc' # "idle" => exit' = "none") => Running'
      BY <2>1, <2>3 DEF Running, Start, disk
    <2>6. CASE NeedsMining(o, cp') /\ pc' = "mine" /\ exit' = "none"
      BY <2>2, <2>4, <2>5, <2>6 DEF IInv, Searching, Found, Adopted, SuccessDurable,
         Start, NeedsMining, Mining, Files
    <2>7. CASE ~NeedsMining(o, cp')
      <3>1. cp'.best # NoKey
        BY <2>3, <2>7, Given, BestRun DEF NeedsMining
      <3>2. o.resume /\ cp' = file
        BY <2>1, <3>1, Given, Emptied DEF HasSearchState
      <3>3. CASE o.saveDB /\ ~cp'.saved /\ pc' = "reload" /\ exit' = "none"
        BY <1>2, <2>2, <2>4, <2>5, <3>1, <3>3 DEF IInv, Searching, Found, Adopted,
           SuccessDurable, Start, Mining, Files
      <3>4. CASE ~(o.saveDB /\ ~cp'.saved) /\ Exit("ok")
        <4>1. SuccessDurable'
          BY <1>2, <2>1, <3>2, <3>4 DEF IInv, Sounds, Sound, SuccessDurable, Start, disk
        <4> QED
          BY <2>2, <2>4, <2>5, <3>4, <4>1 DEF IInv, Searching, Found, Adopted, Exit,
             Mining, Files
      <3> QED
        BY <1>2, <2>7, <3>3, <3>4
    <2> QED
      BY <1>2, <2>6, <2>7
  <1> QED
    BY <1>1, <1>2 DEF Start

(* Reading the artifacts again, and the decisions that change nothing else *)
(* than where the command goes on.                                         *)
LEMMA GotoStep ==
  ASSUME IInv, Reload \/ SearchRejects \/ Result \/ Finalize
  PROVE  IInv'
  <1>1. TypeOK'
    BY DEF IInv, TypeOK, Reload, SearchRejects, Result, Finalize, Goto, Exit, disk, mem,
       Saving, Files
  <1>2. Sounds'
    BY DEF IInv, Sounds, Sound, Complete, Reload, SearchRejects, Result, Finalize, disk, mem
  <1>3. Running' /\ Searching' /\ Found' /\ Adopted'
    BY DEF IInv, Running, Searching, Found, Adopted, Complete, Reload, SearchRejects, Result,
       Finalize, Goto, Exit, disk, mem, Mining, Files
  <1>4. SuccessDurable'
    <2>1. CASE exit' = "ok"
      <3>1. pc = "result" /\ candidate = NoKey /\ ~saveFailed /\ ~searchFailed
        BY <2>1 DEF IInv, Running, Reload, SearchRejects, Result, Finalize, Goto, Exit
      <3>2. file = cp /\ ~torn /\ cp.best.run < opts.minRun /\ cp.criteria = opts.criteria
        BY <3>1 DEF IInv, Searching, Running, Mining
      <3>3. ~(file.best.run >= opts.minRun)
        BY <3>2, Fields, BestRun, Given DEF IInv, TypeOK
      <3> QED
        BY <3>1, <3>2, <3>3 DEF SuccessDurable, Reload, SearchRejects, Result, Finalize,
           disk, mem
    <2> QED
      BY <2>1 DEF SuccessDurable
  <1> QED
    BY <1>1, <1>2, <1>3, <1>4 DEF IInv

(* The callback moves nothing but the count of attempts, and that forward. *)
Progressed ==
  /\ cp' \in Checkpoint /\ cp'.attempts = spent /\ spent >= cp.attempts
  /\ cp'.best = cp.best /\ cp'.criteria = cp.criteria /\ cp'.saved = cp.saved
  /\ cp.attempts \in Nat /\ cp.best.run \in Nat /\ file.attempts \in Nat /\ spent \in 0..MaxSpent

LEMMA ProgressMade ==
  ASSUME IInv, NEW label, Progress(label)
  PROVE  Progressed
  <1>1. /\ cp \in Checkpoint /\ file \in Checkpoint /\ cp.attempts \in Nat
        /\ file.attempts \in Nat /\ cp.best.run \in Nat
    BY Fields, BestRun DEF IInv, TypeOK
  <1>2. spent \in 0..MaxSpent /\ spent >= cp.attempts
    BY <1>1, CommandAssumption DEF IInv, TypeOK
  <1>3. cp' = [cp EXCEPT !.attempts = spent]
    BY DEF Progress
  <1> QED
    BY <1>1, <1>2, <1>3, Counted DEF Progressed

(* Mining, and the progress that is reported meanwhile.                    *)
LEMMA MineStep ==
  ASSUME IInv, Mine \/ Report
  PROVE  IInv'
  <1>1. CASE Mine
    <2>1. TypeOK'
      BY <1>1, Fields, CommandAssumption DEF IInv, TypeOK, Mine, disk
    <2> QED
      BY <1>1, <2>1 DEF IInv, Sounds, Sound, Complete, Running, Searching, Found, Adopted,
         SuccessDurable, Mine, disk, Mining, Files
  <1>2. CASE Report
    <2>1. Progressed
      BY <1>2, ProgressMade DEF Report
    <2>2. TypeOK'
      BY <1>2, <2>1, Fields, CommandAssumption
      DEF IInv, TypeOK, Report, Progress, Progressed, Goto, disk, Saving
    <2> QED
      BY <1>2, <2>1, <2>2 DEF IInv, Sounds, Sound, Complete, Running, Searching, Found,
         Adopted, SuccessDurable, Report, Progress, Progressed, Goto, disk, Mining, Files
  <1> QED
    BY <1>1, <1>2

(* The search ends with a longer key or with none.                         *)
LEMMA SearchEndsStep ==
  ASSUME IInv, SearchEnds
  PROVE  IInv'
  <1>1. Progressed
    BY ProgressMade DEF SearchEnds
  <1>2. /\ pc = "mine" /\ pc' = "last progress" /\ exit' = exit /\ searchFailed' \in BOOLEAN
        /\ spent' = spent /\ opts' = opts /\ saveFailed' = saveFailed /\ UNCHANGED disk
    BY DEF SearchEnds, Progress, Goto
  <1>3. /\ used' \in 0..MaxKeys
        /\ \/ candidate' = NoKey
           \/ /\ candidate' \in Key /\ candidate'.criteria = opts.criteria
              /\ candidate'.run > cp.best.run
    <2>1. CASE candidate' = NoKey /\ UNCHANGED used
      BY <2>1 DEF IInv, TypeOK
    <2>2. ASSUME used < MaxKeys, used' = used + 1, NEW run \in (cp.best.run + 1)..MaxRun,
                 candidate' = [id |-> used + 1, run |-> run, criteria |-> opts.criteria]
          PROVE  /\ used' \in 0..MaxKeys /\ candidate' \in Key
                 /\ candidate'.criteria = opts.criteria /\ candidate'.run > cp.best.run
      <3>1. used + 1 \in 1..MaxKeys /\ run \in 1..MaxRun /\ run > cp.best.run
        BY <1>1, <2>2, CommandAssumption DEF IInv, TypeOK, Progressed
      <3>2. opts.criteria \in Criteria
        BY Given DEF IInv, TypeOK
      <3> QED
        BY <2>2, <3>1, <3>2, CommandAssumption DEF Key
    <2> QED
      BY <2>1, <2>2 DEF SearchEnds
  <1>4. TypeOK'
    <2>1. spent' \in cp'.attempts..MaxSpent
      <3>1. spent \in 0..MaxSpent /\ cp'.attempts = spent
        BY <1>1 DEF Progressed
      <3>2. spent \in spent..MaxSpent
        BY <3>1, CommandAssumption
      <3>3. spent' = spent
        BY <1>2
      <3> QED
        BY <3>1, <3>2, <3>3
    <2>3. candidate' \in Key \cup {NoKey}
      BY <1>3
    <2>2. pc' \in Saving
      BY <1>2 DEF Saving
    <2> QED
      BY <1>1, <1>2, <1>3, <2>1, <2>2, <2>3 DEF IInv, TypeOK, Progressed, disk
  <1>5. Sounds'
    BY <1>1, <1>2 DEF IInv, Progressed, Sounds, Sound, Complete, disk
  <1>7. Running'
    <2>1. /\ cp'.attempts = spent /\ spent >= cp.attempts /\ cp'.best = cp.best
          /\ cp'.criteria = cp.criteria /\ spent \in Nat /\ cp.attempts \in Nat
          /\ file.attempts \in Nat
      BY <1>1, CommandAssumption DEF Progressed
    <2>2. file' = file /\ opts' = opts /\ exit' = exit
      BY <1>2 DEF disk
    <2>3. exit = "none" /\ cp.criteria = opts.criteria
      BY <1>2 DEF IInv, Running
    <2>4. ASSUME opts'.resume, file'.criteria = cp'.criteria
          PROVE  cp'.best.run >= file'.best.run /\ cp'.attempts >= file'.attempts
      <3>1. cp.best.run >= file.best.run /\ cp.attempts >= file.attempts
        BY <1>2, <2>1, <2>2, <2>4 DEF IInv, Running
      <3>2. cp'.best.run >= file'.best.run
        BY <2>1, <2>2, <3>1
      <3>3. spent >= file.attempts
        BY <2>1, <3>1
      <3> QED
        BY <2>1, <2>2, <3>2, <3>3
    <2> QED
      BY <2>1, <2>2, <2>3, <2>4 DEF Running
  <1>6. Searching' /\ Found' /\ Adopted' /\ SuccessDurable'
    BY <1>1, <1>2, <1>3 DEF IInv, Progressed, Running, Searching, Found, Adopted,
       SuccessDurable, Mining, Files
  <1> QED
    BY <1>4, <1>5, <1>6, <1>7 DEF IInv

(* One of the three files is written, or the command ends without it.      *)
LEMMA WriteArtifactStep ==
  ASSUME IInv, NEW f \in Files, WriteArtifact(f)
  PROVE  IInv'
  <1>1. /\ pc = f /\ candidate \in Key /\ exit = "none" /\ NextLabel(f) \in Files \cup {"finalized"}
        /\ UNCHANGED <<file, torn, db, used, opts, cp, spent, candidate, saveFailed,
                       searchFailed>>
    BY DEF IInv, TypeOK, Running, Found, WriteArtifact, mem, NextLabel, Files
  <1>2. /\ artifacts' = artifacts \cup {<<candidate, f>>} \/ artifacts' = artifacts
        /\ artifacts \subseteq artifacts'
    BY DEF WriteArtifact
  <1>3. TypeOK'
    <2>1. artifacts' \subseteq Key \X Files
      BY <1>1, <1>2 DEF IInv, TypeOK
    <2>2. /\ pc' \in {"idle", "finalized"} \cup Files
          /\ exit' \in {"none", "error"}
      BY <1>1 DEF WriteArtifact, Goto, Exit
    <2> QED
      BY <1>1, <2>1, <2>2 DEF IInv, TypeOK
  <1>4. Sounds'
    BY <1>1, <1>2 DEF IInv, Sounds, Sound, Complete
  <1>5. CASE artifacts' = artifacts \cup {<<candidate, f>>} /\ Goto(NextLabel(f))
    <2>1. Running' /\ Searching' /\ Adopted' /\ SuccessDurable'
      BY <1>1, <1>5 DEF IInv, Running, Searching, Adopted, SuccessDurable, Goto,
         NextLabel, Files, Mining
    <2>2. Found'
      BY <1>1, <1>5 DEF IInv, Found, Complete, Goto, NextLabel, Files
    <2> QED
      BY <1>3, <1>4, <2>1, <2>2 DEF IInv
  <1>6. CASE Exit("error") /\ UNCHANGED artifacts
    BY <1>1, <1>3, <1>4, <1>6 DEF IInv, Running, Searching, Adopted, Found, SuccessDurable,
       Exit, Files, Mining
  <1> QED
    BY <1>5, <1>6 DEF WriteArtifact

(* The checkpoint in memory adopts the key, not yet saved.                 *)
LEMMA AdoptStep ==
  ASSUME IInv, Adopt
  PROVE  IInv'
  <1>1. /\ pc = "finalized" /\ pc' = "store" /\ exit' = exit /\ exit = "none"
        /\ candidate \in Key /\ candidate # NoKey /\ Complete(candidate)
        /\ cp.criteria = opts.criteria /\ candidate.criteria = opts.criteria
        /\ candidate.run > cp.best.run
        /\ UNCHANGED <<file, torn, artifacts, db, used, opts, spent, candidate, saveFailed,
                       searchFailed>>
    BY DEF IInv, TypeOK, Running, Found, Adopt, Goto, disk
  <1>2. /\ cp \in Checkpoint /\ cp.attempts \in Nat /\ cp.best.run \in Nat
        /\ file.best.run \in Nat /\ file.attempts \in Nat /\ candidate.run \in Nat
        /\ spent \in 0..MaxSpent /\ spent >= cp.attempts
    <2>1. /\ cp.best \in Key \cup {NoKey} /\ cp.attempts \in Nat
          /\ file.best \in Key \cup {NoKey} /\ file.attempts \in Nat
      BY Fields DEF IInv, TypeOK
    <2> QED
      BY <1>1, <2>1, BestRun, CommandAssumption DEF IInv, TypeOK
  <1>3. /\ cp' \in Checkpoint /\ cp'.attempts = spent /\ cp'.best = candidate
        /\ cp'.saved = FALSE /\ cp'.criteria = cp.criteria
    BY <1>1, <1>2 DEF Adopt, Checkpoint
  <1>4. TypeOK'
    <2>1. spent \in spent..MaxSpent
      BY <1>2, CommandAssumption
    <2> QED
      BY <1>1, <1>3, <2>1 DEF IInv, TypeOK, Saving
  <1>5. Sounds'
    BY <1>1, <1>3 DEF IInv, Sounds, Sound, Complete
  <1>6. Running'
    <2>1. ASSUME opts.resume, file.criteria = cp.criteria
          PROVE  candidate.run >= file.best.run /\ spent >= file.attempts
      <3>1. cp.best.run >= file.best.run /\ cp.attempts >= file.attempts
        BY <1>1, <2>1 DEF IInv, Running
      <3> QED
        BY <1>1, <1>2, <3>1
    <2> QED
      BY <1>1, <1>3, <2>1 DEF Running
  <1> QED
    BY <1>1, <1>3, <1>4, <1>5, <1>6 DEF IInv, Searching, Found, Adopted, SuccessDurable,
       Mining, Files

(* Opening the checkpoint file truncates it, or a save fails.              *)
LEMMA TruncateStep ==
  ASSUME IInv, Truncate \/ SaveFails
  PROVE  IInv'
  <1>1. CASE Truncate
    <2>1. TypeOK'
      BY <1>1 DEF IInv, TypeOK, Truncate, mem
    <2> QED
      BY <1>1, <2>1 DEF IInv, Sounds, Sound, Complete, Running, Searching, Found, Adopted,
         SuccessDurable, Truncate, Saving, Mining, Files, mem
  <1>2. CASE SaveFails
    <2>1. /\ pc \in Saving
          /\ \/ pc = "progress" /\ pc' = "mine" /\ saveFailed' = TRUE /\ exit' = exit
             \/ pc = "last progress" /\ pc' = "result" /\ saveFailed' = TRUE /\ exit' = exit
             \/ pc \in {"store", "mark"} /\ pc' = "idle" /\ exit' = "error" /\ saveFailed' = saveFailed
          /\ UNCHANGED <<file, torn, artifacts, db, used, opts, cp, spent, candidate,
                         searchFailed>>
      BY <1>2 DEF SaveFails, Saving, Goto, Exit, disk
    <2>2. TypeOK'
      BY <2>1 DEF IInv, TypeOK
    <2> QED
      BY <2>1, <2>2 DEF IInv, Sounds, Sound, Complete, Running, Searching, Found, Adopted,
         SuccessDurable, Saving, Mining, Files
  <1> QED
    BY <1>1, <1>2

(* The checkpoint reaches the disk, and the command goes on or succeeds.   *)
LEMMA WriteCheckpointStep ==
  ASSUME IInv, WriteCheckpoint
  PROVE  IInv'
  <1>1. /\ pc \in Saving /\ file' = cp /\ torn' = FALSE
        /\ UNCHANGED <<artifacts, db, used, opts, cp, spent, candidate, saveFailed,
                       searchFailed>>
        /\ exit = "none" /\ cp.criteria = opts.criteria
    BY DEF IInv, Running, WriteCheckpoint, mem, Saving
  <1>2. cp.best.run \in Nat /\ cp.attempts \in Nat
    BY Fields, BestRun DEF IInv, TypeOK
  <1>3. Sounds'
    BY <1>1 DEF IInv, Sounds, Sound, Complete
  <1>4. \/ pc = "progress" /\ pc' = "mine" /\ exit' = "none"
        \/ pc = "last progress" /\ pc' = "result" /\ exit' = "none"
        \/ pc = "store" /\ pc' = "upsert" /\ exit' = "none"
        \/ /\ pc \in {"store", "mark"} /\ pc' = "idle" /\ exit' \in {"ok", "error"}
           /\ pc = "store" => ~(opts.saveDB /\ candidate.run >= opts.minRun)
    BY <1>1 DEF WriteCheckpoint, Continue, AfterSearch, Goto, Exit, Saving
  <1>5. TypeOK'
    BY <1>1, <1>4 DEF IInv, TypeOK
  <1>6. Running'
    <2>1. cp.best.run >= cp.best.run /\ cp.attempts >= cp.attempts
      BY <1>2
    <2>2. exit' = "none" \/ pc' = "idle"
      BY <1>4
    <2> QED
      BY <1>1, <2>1, <2>2 DEF Running
  <1>7. Searching' /\ Found' /\ Adopted'
    BY <1>1, <1>4 DEF IInv, Searching, Found, Adopted, Mining, Files
  <1>8. SuccessDurable'
    <2>1. CASE pc = "store" /\ exit' = "ok"
      BY <1>1, <1>4, <2>1 DEF IInv, Adopted, SuccessDurable
    <2>2. CASE pc = "mark" /\ exit' = "ok"
      BY <1>1, <2>2 DEF IInv, Adopted, Sounds, Sound, SuccessDurable
    <2> QED
      BY <1>4, <2>1, <2>2 DEF SuccessDurable
  <1> QED
    BY <1>3, <1>5, <1>6, <1>7, <1>8 DEF IInv

(* The key is stored and the checkpoint in memory says so, or the command  *)
(* ends.                                                                   *)
LEMMA UpsertStep ==
  ASSUME IInv, Upsert
  PROVE  IInv'
  <1>1. /\ pc = "upsert" /\ exit = "none" /\ candidate \in Key /\ cp.best = candidate
        /\ cp \in Checkpoint /\ Complete(candidate)
        /\ UNCHANGED <<file, torn, artifacts, used, opts, spent, candidate, saveFailed,
                       searchFailed>>
    BY DEF IInv, TypeOK, Running, Adopted, Sounds, Sound, Upsert
  <1>2. CASE /\ db' = db \cup {candidate} /\ cp' = [cp EXCEPT !.saved = TRUE]
             /\ Goto("mark")
    <2>1. /\ cp' \in Checkpoint /\ cp'.saved = TRUE /\ cp'.best = cp.best
          /\ cp'.attempts = cp.attempts /\ cp'.criteria = cp.criteria
      BY <1>1, <1>2 DEF Checkpoint
    <2>2. pc' = "mark" /\ exit' = exit
      BY <1>2 DEF Goto
    <2>3. TypeOK'
      BY <1>1, <1>2, <2>1, <2>2 DEF IInv, TypeOK, Saving
    <2>4. Sounds'
      BY <1>1, <1>2, <2>1 DEF IInv, Sounds, Sound, Complete
    <2>5. Running'
      BY <1>1, <2>1, <2>2 DEF IInv, Running
    <2> QED
      BY <1>1, <2>1, <2>2, <2>3, <2>4, <2>5 DEF IInv, Searching, Found, Adopted,
         SuccessDurable, Mining, Files
  <1>3. CASE Exit("error") /\ UNCHANGED <<db, cp>>
    <2>1. TypeOK'
      BY <1>1, <1>3 DEF IInv, TypeOK, Exit
    <2> QED
      BY <1>1, <1>3, <2>1 DEF IInv, Sounds, Sound, Complete, Running, Searching, Found,
         Adopted, SuccessDurable, Exit, Mining, Files
  <1> QED
    BY <1>2, <1>3 DEF Upsert

(* A kill leaves what is on disk and in the database.                      *)
LEMMA CrashStep ==
  ASSUME IInv, Crash
  PROVE  IInv'
  <1>1. opts.criteria \in Criteria
    BY Given DEF IInv, TypeOK
  <1>2. TypeOK'
    <2>1. cp' = Empty(opts.criteria) /\ spent' = 0
      BY DEF Crash
    <2>2. cp' \in Checkpoint /\ cp'.attempts = 0
      BY <1>1, <2>1, Emptied
    <2>3. 0 \in 0..MaxSpent
      BY CommandAssumption
    <2> QED
      BY <2>1, <2>2, <2>3 DEF IInv, TypeOK, Crash, Exit, disk
  <1>3. Sounds'
    BY <1>1, Emptied DEF IInv, Sounds, Sound, Complete, Crash, disk
  <1> QED
    BY <1>2, <1>3 DEF IInv, Running, Searching, Found, Adopted, SuccessDurable, Crash,
       Exit, disk, Mining, Files

LEMMA NextIInv ==
  ASSUME IInv, [Next]_vars
  PROVE  IInv'
  <1>1. CASE UNCHANGED vars
    <2>1. TypeOK'
      BY <1>1 DEF IInv, TypeOK, vars, disk, mem
    <2>2. Sounds' /\ Running' /\ Searching'
      BY <1>1 DEF IInv, Sounds, Sound, Complete, Running, Searching, vars, disk, mem
    <2>3. Found' /\ Adopted' /\ SuccessDurable'
      BY <1>1 DEF IInv, Complete, Found, Adopted, SuccessDurable, vars, disk, mem
    <2> QED
      BY <2>1, <2>2, <2>3 DEF IInv
  <1>2. CASE Next
    BY <1>2, StartStep, GotoStep, MineStep, SearchEndsStep, WriteArtifactStep, AdoptStep,
       TruncateStep, WriteCheckpointStep, UpsertStep, CrashStep DEF Next
  <1> QED
    BY <1>1, <1>2

-------------------------------------------------------------------------------
(* The strengthened invariant holds over any sequence of invocations.      *)
THEOREM Invariant == Spec => []IInv
  BY InitIInv, NextIInv, PTL DEF Spec

(* Types of the disk, the database and the memory of the command.          *)
THEOREM TypeCorrect == Spec => []TypeOK
  <1>1. IInv => TypeOK
    BY DEF IInv
  <1> QED
    BY <1>1, Invariant, PTL

(* A key named on disk or in the database has all its artifact files.      *)
THEOREM ArtifactsFirstAlways == Spec => []ArtifactsFirst
  <1>1. IInv => ArtifactsFirst
    BY DEF IInv, Sounds, Sound, ArtifactsFirst
  <1> QED
    BY <1>1, Invariant, PTL

(* The saved_to_database of a checkpoint on disk is true.                  *)
THEOREM SavedFlagAlways == Spec => []SavedFlag
  <1>1. IInv => SavedFlag
    BY DEF IInv, Sounds, Sound, SavedFlag
  <1> QED
    BY <1>1, Invariant, PTL

(* The best key of a checkpoint on disk was mined for its criteria.        *)
THEOREM RightCriteriaAlways == Spec => []RightCriteria
  <1>1. IInv => RightCriteria
    BY DEF IInv, Sounds, Sound, RightCriteria
  <1> QED
    BY <1>1, Invariant, PTL

(* Exit status 0 means that what was found is on disk, and in the database *)
(* when that was asked for.                                                *)
THEOREM SuccessDurableAlways == Spec => []SuccessDurable
  <1>1. IInv => SuccessDurable
    BY DEF IInv
  <1> QED
    BY <1>1, Invariant, PTL

(* With --resume and the same criteria, the best run and the attempts on   *)
(* disk never go back.                                                     *)
THEOREM DurableProgressAlways == Spec => DurableProgress
  <1>1. ASSUME IInv, [Next]_vars
        PROVE  [opts.resume /\ file'.criteria = file.criteria
                 => file'.best.run >= file.best.run /\ file'.attempts >= file.attempts]_vars
    <2>1. CASE file' = file
      <3>1. file.best.run \in Nat /\ file.attempts \in Nat
        BY <1>1, Fields, BestRun DEF IInv, TypeOK
      <3> QED
        BY <2>1, <3>1
    <2>2. CASE WriteCheckpoint
      <3>1. file' = cp /\ pc # "idle"
        BY <2>2 DEF WriteCheckpoint, Saving
      <3> QED
        BY <1>1, <3>1 DEF IInv, Running
    <2>3. file' = file \/ WriteCheckpoint
      BY <1>1 DEF Next, vars, disk, Start, Reload, Mine, Report, SearchEnds, SearchRejects,
         Result, Finalize, WriteArtifact, Adopt, Truncate, SaveFails, Upsert, Crash
    <2> QED
      BY <2>1, <2>2, <2>3
  <1> QED
    BY <1>1, Invariant, PTL DEF Spec, DurableProgress

(* A failed database save is retried from artifacts that are there, and    *)
(* without mining.                                                         *)
THEOREM RetryNeedsNoMiningAlways == Spec => RetryNeedsNoMining
  <1>1. ASSUME IInv, [Next]_vars
        PROVE  [/\ pc = "reload" => Complete(candidate)
                /\ pc = "idle" /\ pc' = "mine" /\ opts'.resume
                     /\ file.criteria = opts'.criteria
                   => file.best.run < opts'.minRun]_vars
    <2> SUFFICES ASSUME Next
                 PROVE  /\ pc = "reload" => Complete(candidate)
                        /\ pc = "idle" /\ pc' = "mine" /\ opts'.resume
                             /\ file.criteria = opts'.criteria
                           => file.best.run < opts'.minRun
      BY <1>1
    <2>1. pc = "reload" => Complete(candidate)
      BY <1>1 DEF IInv, Adopted, Sounds, Sound
    <2>2. ASSUME pc = "idle", pc' = "mine", opts'.resume, file.criteria = opts'.criteria
          PROVE  file.best.run < opts'.minRun
      <3>1. PICK o \in Options : Start(o)
        BY <2>2 DEF Next, Reload, Mine, Report, SearchEnds, SearchRejects, Result,
           Finalize, WriteArtifact, Adopt, Truncate, WriteCheckpoint, SaveFails, Upsert,
           Saving, Files, Crash
      <3>2. opts' = o /\ cp' = Resumed(o) /\ NeedsMining(o, cp')
        BY <2>2, <3>1 DEF Start, Exit
      <3>3. cp' = [file EXCEPT !.criteria = o.criteria]
        BY <2>2, <3>2 DEF Resumed
      <3>4. cp'.best = file.best
        BY <1>1, <3>3, Given, Retargeted DEF IInv, TypeOK
      <3> QED
        BY <3>2, <3>4 DEF NeedsMining
    <2> QED
      BY <2>1, <2>2
  <1> QED
    BY <1>1, Invariant, PTL DEF Spec, RetryNeedsNoMining

-------------------------------------------------------------------------------
(* The command with its searches opened up (module SearchedCommand).       *)

(* A search in progress has gone on from the best key of the checkpoint.   *)
InSearch ==
  pc \in {"mine", "progress"} =>
    /\ outcome = "searching"
    /\ top \in cp.best.run .. MaxRun
    /\ retained = 0 \/ retained \in (cp.best.run + 1) .. top

(* After it, the longest run promoted is that of the key it handed over, or*)
(* of the best key as before.                                              *)
AfterIt ==
  /\ pc \in {"last progress", "result", "finalize", "finalized"} \cup Files
       => top = IF candidate # NoKey THEN candidate.run ELSE cp.best.run
  /\ pc \in {"reload", "store", "upsert", "mark"} => top = cp.best.run

SInv == InSearch /\ AfterIt /\ BestOnDisk

(* What a search may return is what the command's own model expects.       *)
LEMMA ReturnsEnd ==
  ASSUME IInv, InSearch, SearchReturns
  PROVE  /\ SearchEnds
         /\ top' = top
         /\ top = IF candidate' # NoKey THEN candidate'.run ELSE cp.best.run
  <1>1. /\ pc = "mine" /\ Progress("last progress") /\ searchFailed' \in BOOLEAN
        /\ UNCHANGED <<disk, opts, spent, saveFailed>> /\ HandedOver(retained)
        /\ retained = IF top > cp.best.run THEN top ELSE 0
        /\ top' = top
    BY DEF SearchReturns, Search!Return, Search!NoCandidate
  <1>2. cp.best.run \in Nat /\ cp.best.run <= MaxRun /\ top \in cp.best.run .. MaxRun
    BY <1>1, Fields, BestRun DEF IInv, TypeOK, InSearch
  <1>5. top \in Nat /\ cp.best.run <= top /\ top <= MaxRun /\ MaxRun \in Nat
    BY <1>2, CommandAssumption
  <1>6. retained = (IF top > cp.best.run THEN top ELSE 0) /\ cp.best.run \in Nat
    BY <1>1, <1>2
  <1>3. CASE top > cp.best.run
    <2>1. retained = top /\ retained # 0 /\ retained \in (cp.best.run + 1) .. MaxRun
      BY <1>3, <1>5, <1>6
    <2>2. /\ used < MaxKeys /\ used' = used + 1
          /\ candidate' = [id |-> used + 1, run |-> retained, criteria |-> opts.criteria]
      BY <1>1, <2>1 DEF HandedOver, Search!NoCandidate
    <2>3. candidate'.run = top /\ candidate' # NoKey
      BY <2>1, <2>2 DEF NoKey
    <2> QED
      BY <1>1, <2>1, <2>2, <2>3 DEF SearchEnds
  <1>4. CASE ~(top > cp.best.run)
    <2>1. retained = 0 /\ top = cp.best.run
      BY <1>4, <1>5, <1>6
    <2>2. candidate' = NoKey /\ UNCHANGED used
      BY <1>1, <2>1 DEF HandedOver, Search!NoCandidate
    <2> QED
      BY <1>1, <2>1, <2>2 DEF SearchEnds
  <1> QED
    BY <1>3, <1>4

(* Every step of the composition is a step of the command or of the search.*)
LEMMA SearchedStep ==
  ASSUME IInv, InSearch, [SearchedNext]_<<vars, search>>
  PROVE  [Next]_vars
  <1>1. CASE \E o \in Options : SearchedStart(o)
    BY <1>1 DEF SearchedStart, Next
  <1>2. CASE SearchGoesOn
    BY <1>2 DEF SearchGoesOn
  <1>3. CASE SearchReturns
    BY <1>3, ReturnsEnd DEF Next
  <1>4. CASE SearchedResult \/ SearchedCrash \/ CommandStep
    BY <1>4 DEF SearchedResult, SearchedCrash, CommandStep, Next
  <1>5. CASE UNCHANGED <<vars, search>>
    BY <1>5
  <1> QED
    BY <1>1, <1>2, <1>3, <1>4, <1>5 DEF SearchedNext

(* A search begins with the best run of the checkpoint; without one, it is *)
(* already on disk.                                                        *)
LEMMA SearchStarts ==
  ASSUME IInv, IInv', NEW o \in Options, SearchedStart(o)
  PROVE  SInv'
  <1>1. /\ top' = cp'.best.run /\ retained' = 0 /\ outcome' = "searching"
        /\ pc' \in {"mine", "reload", "idle"}
        /\ exit' \in {"none", "ok", "error"}
        /\ exit' = "ok" => candidate' = cp'.best /\ ~NeedsMining(o, cp')
    BY DEF SearchedStart, Search!NoCandidate, Start, Exit
  <1>2. cp' \in Checkpoint
    BY DEF IInv, TypeOK
  <1>3. cp'.best \in Key \cup {NoKey}
    BY <1>2, Fields
  <1>4. cp'.best.run \in Nat /\ cp'.best.run <= MaxRun
    BY <1>3, BestRun
  <1>5. InSearch'
    BY <1>1, <1>4, CommandAssumption DEF InSearch
  <1>6. AfterIt'
    BY <1>1 DEF AfterIt, Files
  <1>7. ASSUME exit' = "ok" PROVE file'.best.run = top'
    <2>1. candidate' = cp'.best /\ ~NeedsMining(o, cp')
      BY <1>1, <1>7
    <2>2. cp'.best # NoKey
      <3>1. o.minRun > 0 /\ o.minRun \in Nat /\ ~(cp'.best.run < o.minRun)
        BY <2>1, Given DEF NeedsMining
      <3>2. cp'.best.run # 0
        BY <1>4, <3>1
      <3> QED
        BY <3>2 DEF NoKey
    <2>3. file'.best = candidate'
      BY <1>7, <2>1, <2>2 DEF IInv, SuccessDurable
    <2> QED
      BY <1>1, <2>1, <2>3
  <1> QED
    BY <1>5, <1>6, <1>7 DEF SInv, BestOnDisk

LEMMA SearchMoves ==
  ASSUME IInv, SInv, SearchGoesOn
  PROVE  SInv'
  <1>1. /\ pc \in {"mine", "progress"} /\ UNCHANGED <<pc, cp, candidate, exit, file, outcome>>
        /\ \/ top' \in (top + 1) .. MaxRun /\ retained' = retained
           \/ /\ retained' \in (retained + 1) .. top /\ retained' > cp.best.run
              /\ top' = top
    BY DEF SearchGoesOn, Search!Improve, Search!Retain, vars, disk, mem
  <1>2. /\ cp.best.run \in Nat /\ MaxRun \in Nat /\ top \in cp.best.run .. MaxRun
        /\ retained = 0 \/ retained \in (cp.best.run + 1) .. top
    BY <1>1, Fields, BestRun, CommandAssumption DEF IInv, TypeOK, SInv, InSearch
  <1>3. InSearch'
    <2>1. top' \in cp.best.run .. MaxRun
      BY <1>1, <1>2
    <2>2. retained' = 0 \/ retained' \in (cp.best.run + 1) .. top'
      BY <1>1, <1>2
    <2> QED
      BY <1>1, <2>1, <2>2 DEF SInv, InSearch
  <1>4. AfterIt' /\ BestOnDisk'
    <2>1. exit' = "none"
      BY <1>1 DEF IInv, Running
    <2> QED
      BY <1>1, <2>1 DEF AfterIt, BestOnDisk, Files
  <1> QED
    BY <1>3, <1>4 DEF SInv

LEMMA SearchLeaves ==
  ASSUME IInv, SInv, SearchReturns \/ SearchedCrash
  PROVE  SInv'
  <1>1. CASE SearchReturns
    <2>1. /\ top' = top /\ top = IF candidate' # NoKey THEN candidate'.run ELSE cp.best.run
      BY <1>1, ReturnsEnd DEF SInv
    <2>2. pc = "mine" /\ pc' = "last progress" /\ exit' = exit /\ Progress("last progress")
      BY <1>1 DEF SearchReturns, Progress, Goto
    <2>3. cp'.best = cp.best /\ exit = "none"
      BY <2>2, ProgressMade DEF Progressed, IInv, Running
    <2> QED
      BY <2>1, <2>2, <2>3 DEF SInv, InSearch, AfterIt, BestOnDisk
  <1>2. CASE SearchedCrash
    BY <1>2 DEF SearchedCrash, Crash, Exit, SInv, InSearch, AfterIt, BestOnDisk, Files
  <1> QED
    BY <1>1, <1>2

(* The other steps leave the search and the best keys as they are, or adopt*)
(* the key that was handed over, or write the checkpoint.                  *)
LEMMA CommandKeeps ==
  ASSUME IInv, SInv, (CommandStep /\ UNCHANGED search) \/ SearchedResult
  PROVE  SInv'
  <1>0. top' = top /\ (pc # "result" => UNCHANGED <<retained, outcome>>)
    BY DEF search, SearchedResult, Result
  <1>1. CASE Mine \/ Report
    <2>1. /\ pc = "mine" /\ pc' \in {"mine", "progress"} /\ exit' = exit
          /\ candidate' = candidate /\ file' = file
      BY <1>1 DEF Mine, Report, Progress, Goto, disk
    <2>2. cp'.best = cp.best
      BY <1>1, ProgressMade DEF Mine, Report, Progressed
    <2>3. exit = "none"
      BY <2>1 DEF IInv, Running
    <2> QED
      BY <1>0, <2>1, <2>2, <2>3 DEF SInv, InSearch, AfterIt, BestOnDisk, Files
  <1>2. CASE Reload \/ SearchRejects \/ Finalize \/ \E f \in Files : WriteArtifact(f)
    <2>1. /\ pc \in {"reload", "mine", "finalize"} \cup Files
          /\ UNCHANGED <<cp, candidate, file>>
          /\ exit' \in {exit, "error"}
      BY <1>2 DEF Reload, SearchRejects, Finalize, WriteArtifact, Goto, Exit, disk, mem
    <2>2. /\ pc = "reload" => pc' \in {"upsert", "idle"}
          /\ pc = "mine" => pc' = "idle"
          /\ pc \in {"finalize"} \cup Files => pc' \in {"idle", "finalized"} \cup Files
      BY <1>2 DEF Reload, SearchRejects, Finalize, WriteArtifact, Goto, Exit, NextLabel, Files
    <2>3. exit = "none"
      BY <2>1 DEF IInv, Running, Files
    <2> QED
      BY <1>0, <2>1, <2>2, <2>3 DEF SInv, InSearch, AfterIt, BestOnDisk, Files
  <1>3. CASE Result
    <2>1. pc = "result" /\ UNCHANGED <<cp, candidate, file>> /\ pc' \in {"finalize", "idle"}
      BY <1>3 DEF Result, Goto, Exit, disk, mem
    <2>2. exit' = "ok" => candidate = NoKey /\ file = cp
      BY <1>3 DEF Result, Goto, Exit, IInv, Running, Searching
    <2>3. top = IF candidate # NoKey THEN candidate.run ELSE cp.best.run
      BY <2>1 DEF SInv, AfterIt
    <2>4. AfterIt' /\ InSearch'
      BY <1>0, <2>1, <2>3 DEF InSearch, AfterIt, Files
    <2>5. BestOnDisk'
      BY <1>0, <2>1, <2>2, <2>3 DEF BestOnDisk
    <2> QED
      BY <2>4, <2>5 DEF SInv
  <1>4. CASE Adopt
    <2>1. /\ pc = "finalized" /\ pc' = "store" /\ exit' = exit /\ exit = "none"
          /\ candidate # NoKey /\ top = candidate.run
      BY <1>4 DEF Adopt, Goto, IInv, Running, Found, SInv, AfterIt
    <2>2. cp'.best = candidate
      BY <1>4 DEF Adopt, IInv, TypeOK, Checkpoint
    <2> QED
      BY <1>0, <2>1, <2>2 DEF SInv, InSearch, AfterIt, BestOnDisk, Files
  <1>5. CASE Truncate
    BY <1>0, <1>5 DEF Truncate, mem, Saving, SInv, InSearch, AfterIt, BestOnDisk
  <1>6. CASE WriteCheckpoint \/ SaveFails
    <2>1. /\ pc \in Saving /\ UNCHANGED <<cp, candidate>> /\ exit = "none"
          /\ pc = "progress" => pc' = "mine"
          /\ pc = "last progress" => pc' = "result"
          /\ pc \in {"store", "mark"} => pc' \in {"upsert", "idle"}
      BY <1>6 DEF WriteCheckpoint, SaveFails, Continue, AfterSearch, Goto, Exit, mem, Saving,
         IInv, Running
    <2>2. exit' = "ok" => file' = cp /\ pc \in {"store", "mark"}
      BY <1>6, <2>1 DEF WriteCheckpoint, SaveFails, Continue, AfterSearch, Goto, Exit, Saving
    <2> QED
      BY <1>0, <2>1, <2>2 DEF SInv, InSearch, AfterIt, BestOnDisk, Saving, Files
  <1>7. CASE Upsert
    <2>1. /\ pc = "upsert" /\ pc' \in {"mark", "idle"} /\ exit' \in {"none", "error"}
      BY <1>7 DEF Upsert, Goto, Exit, IInv, Running
    <2>2. cp'.best = cp.best
      BY <1>7 DEF Upsert, IInv, TypeOK, Checkpoint
    <2> QED
      BY <1>0, <2>1, <2>2 DEF SInv, InSearch, AfterIt, BestOnDisk, Files
  <1> QED
    BY <1>1, <1>2, <1>3, <1>4, <1>5, <1>6, <1>7 DEF CommandStep, SearchedResult

(* The invariants of the command and of its searches, together.            *)
LEMMA SearchedInit0 == SearchedInit => Init /\ IInv /\ SInv
  <1> SUFFICES ASSUME SearchedInit PROVE Init /\ IInv /\ SInv
    OBVIOUS
  <1>1. Init /\ IInv
    BY InitIInv DEF SearchedInit
  <1> QED
    BY <1>1 DEF Init, SInv, InSearch, AfterIt, BestOnDisk, Files

LEMMA SearchedNextInv ==
  ASSUME IInv, SInv, [SearchedNext]_<<vars, search>>
  PROVE  [Next]_vars /\ IInv' /\ SInv'
  <1>1. [Next]_vars
    BY SearchedStep DEF SInv
  <1>2. IInv'
    BY <1>1, NextIInv
  <1>3. ASSUME UNCHANGED <<vars, search>> PROVE SInv'
    <2>1. UNCHANGED <<pc, cp, candidate, exit, file, top, retained, outcome>>
      BY <1>3 DEF vars, disk, mem, search
    <2> QED
      BY <2>1 DEF SInv, InSearch, AfterIt, BestOnDisk
  <1>4. ASSUME SearchedNext PROVE SInv'
    BY <1>2, <1>4, SearchStarts, SearchMoves, SearchLeaves, CommandKeeps DEF SearchedNext
  <1> QED
    BY <1>1, <1>2, <1>3, <1>4

(* cmd/vanity.go:240-280: whatever a search does within its contract, the  *)
(* command with it behaves as VanityCommand says.                          *)
THEOREM SearchedImplements == SearchedSpec => Spec
  <1>1. SearchedInit => Init /\ IInv /\ SInv
    BY SearchedInit0
  <1>2. IInv /\ SInv /\ [SearchedNext]_<<vars, search>> => [Next]_vars /\ IInv' /\ SInv'
    BY SearchedNextInv
  <1> QED
    BY <1>1, <1>2, PTL DEF SearchedSpec, Spec

(* cmd/vanity.go:240-280, search.go:329-332: with exit status 0 the key of *)
(* the longest run that any runner promoted is the best key on disk.       *)
THEOREM BestOnDiskAlways == SearchedSpec => []BestOnDisk
  <1>1. SearchedInit => IInv /\ SInv
    BY SearchedInit0
  <1>2. IInv /\ SInv /\ [SearchedNext]_<<vars, search>> => IInv' /\ SInv'
    BY SearchedNextInv
  <1>3. SInv => BestOnDisk
    BY DEF SInv
  <1> QED
    BY <1>1, <1>2, <1>3, PTL DEF SearchedSpec
================================================================================
