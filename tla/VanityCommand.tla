----------------------------- MODULE VanityCommand -----------------------------
(***************************************************************************)
(* `gpgenie vanity` (cmd/vanity.go, runVanity) over several invocations:   *)
(* what a checkpoint file, three artifact files per key and a database hold*)
(* when the process may fail or be killed between any two writes.          *)
(*                                                                         *)
(* Of the search itself only what a caller sees is here: some attempts are *)
(* spent, progress is reported now and then, and at the end there is a     *)
(* candidate longer than the best one known, or none (SearchEnds).  Module *)
(* SearchedCommand puts SearchContract in its place.                       *)
(***************************************************************************)
EXTENDS Integers, FiniteSets

CONSTANTS
  Criteria,        (* the values of --scope and --digits together            *)
  MinRuns,         (* the values of --min-run                                *)
  MaxRun,
  MaxKeys,         (* bound of the model: candidates found in all runs       *)
  MaxSpent         (* bound of the model: attempts of one checkpoint         *)

ASSUME CommandAssumption ==
  /\ Criteria # {} /\ MaxRun \in Nat /\ MaxKeys \in Nat /\ MaxSpent \in Nat
  /\ MinRuns \subseteq 1..MaxRun

Files == {"public", "private", "metadata"}

(* A found key: fresh random material, so keys of one run length differ. *)
Key == [id : 1..MaxKeys, run : 1..MaxRun, criteria : Criteria]

NoKey == [id |-> 0, run |-> 0, criteria |-> "none"]

Checkpoint ==
  [attempts : 0..MaxSpent, best : Key \cup {NoKey}, criteria : Criteria,
   saved : BOOLEAN]

Options == [criteria : Criteria, minRun : MinRuns, saveDB : BOOLEAN,
            resume : BOOLEAN]

VARIABLES
  file,       (* the last complete checkpoint written; no file is read like
                 an empty one                                                *)
  torn,       (* the file was truncated after that and is not parseable      *)
  artifacts,  (* complete artifact files: pairs <<key, file>>                *)
  db,         (* keys in the database                                        *)
  used,       (* ids of candidates found so far                              *)
  pc,         (* control point of the process, "idle" between two of them    *)
  opts,       (* options of the current or last invocation                   *)
  cp,         (* checkpoint in memory                                        *)
  spent,      (* attempts counted by Search, earlier ones included           *)
  candidate,  (* result.Candidate, or the key being saved                    *)
  saveFailed, (* checkpointErr                                               *)
  searchFailed,    (* searchErr, other than context.Canceled                 *)
  exit        (* how the last invocation ended                               *)

disk == <<file, torn, artifacts, db>>
mem  == <<cp, spent, candidate, saveFailed, searchFailed>>
vars == <<disk, used, pc, opts, mem, exit>>

Empty(c) == [attempts |-> 0, best |-> NoKey, criteria |-> c, saved |-> FALSE]

(* The control points at which SaveCheckpoint writes the file. *)
Saving == {"progress", "last progress", "store", "mark"}

Complete(k) == \A f \in Files : <<k, f>> \in artifacts

Goto(label) == pc' = label /\ UNCHANGED exit

Exit(how) == pc' = "idle" /\ exit' = how

-------------------------------------------------------------------------------
(* Starting: the checkpoint, its criteria, and the early return. *)

HasSearchState(c) == c.attempts > 0 \/ c.best # NoKey

(* Mutant: the checkpoint of other criteria is taken over. *)
ResumedAnyway(o) ==
  IF ~o.resume THEN Empty(o.criteria)
  ELSE [file EXCEPT !.criteria = o.criteria]

(* The checkpoint an invocation goes on from. *)
Resumed(o) ==
  IF ~o.resume THEN Empty(o.criteria)
  ELSE IF HasSearchState(file) /\ file.criteria # o.criteria THEN Empty(o.criteria)
  ELSE [file EXCEPT !.criteria = o.criteria]

(* Mutant: only a key that is saved where the user wants it ends the search. *)
NeedsMiningUntilSaved(o, c) == c.best.run < o.minRun \/ (o.saveDB /\ ~c.saved)

NeedsMining(o, c) == c.best.run < o.minRun

Start(o) ==
  /\ pc = "idle"
  /\ opts' = o /\ saveFailed' = FALSE /\ searchFailed' = FALSE
  /\ \/ /\ o.resume          \* LoadCheckpoint: read error, or parse error if torn
        /\ Exit("error") /\ UNCHANGED <<cp, spent, candidate>>
     \/ /\ ~(o.resume /\ torn)
        /\ cp' = Resumed(o) /\ spent' = cp'.attempts /\ candidate' = cp'.best
        /\ IF NeedsMining(o, cp') THEN pc' = "mine" /\ exit' = "none"
           ELSE IF o.saveDB /\ ~cp'.saved THEN pc' = "reload" /\ exit' = "none"
           ELSE Exit("ok")
  /\ UNCHANGED <<disk, used>>

(* LoadArtifacts of the checkpoint's paths, for a database save to retry; any
   of the files may be unreadable now.                                     *)
Reload ==
  /\ pc = "reload"
  /\ \/ Complete(candidate) /\ Goto("upsert")
     \/ Exit("error")
  /\ UNCHANGED <<disk, used, opts, mem>>

-------------------------------------------------------------------------------
(* vanity.Search and its progress callback. *)

Mine ==
  /\ pc = "mine" /\ spent < MaxSpent
  /\ spent' = spent + 1
  /\ UNCHANGED <<disk, used, pc, opts, cp, candidate, saveFailed, searchFailed,
                 exit>>

(* Mutant: only the attempts of this invocation are reported. *)
ProgressRestarted(label) ==
  /\ cp' = [cp EXCEPT !.attempts = spent - cp.attempts]
  /\ Goto(label)

(* The callback: checkpoint.Attempts = progress.Attempts, then save. *)
Progress(label) ==
  /\ cp' = [cp EXCEPT !.attempts = spent]
  /\ Goto(label)

Report ==
  /\ pc = "mine"
  /\ Progress("progress")
  /\ UNCHANGED <<disk, used, opts, spent, candidate, saveFailed, searchFailed>>

(* Search ends: budget spent, target reached, cancelled, or a runner failed. *)
SearchEnds ==
  /\ pc = "mine"
  /\ Progress("last progress")
  /\ searchFailed' \in BOOLEAN
  /\ \/ candidate' = NoKey /\ UNCHANGED used
     \/ /\ used < MaxKeys /\ used' = used + 1
        /\ \E run \in (cp.best.run + 1)..MaxRun :
             candidate' = [id |-> used + 1, run |-> run,
                           criteria |-> opts.criteria]
  /\ UNCHANGED <<disk, opts, spent, saveFailed>>

(* Search refuses its configuration or finds no device: no result. *)
SearchRejects ==
  /\ pc = "mine" /\ Exit("error")
  /\ UNCHANGED <<disk, used, opts, mem>>

(* What runVanity makes of the result. *)
Result ==
  /\ pc = "result"
  /\ IF candidate # NoKey THEN Goto("finalize")
     ELSE Exit(IF saveFailed \/ searchFailed THEN "error" ELSE "ok")
  /\ UNCHANGED <<disk, used, opts, mem>>

-------------------------------------------------------------------------------
(* FinalizeAndWrite: three files, in this order. *)

(* NewPGPEncryptor, BuildSigningKeyring, SerializeKeys, MkdirAll. *)
Finalize ==
  /\ pc = "finalize"
  /\ Goto("public") \/ Exit("error")
  /\ UNCHANGED <<disk, used, opts, mem>>

NextLabel(f) == CASE f = "public" -> "private"
                  [] f = "private" -> "metadata"
                  [] f = "metadata" -> "finalized"

(* Mutant: a failed write is ignored. *)
WriteArtifactIgnoringErrors(f) ==
  /\ pc = f
  /\ artifacts' \in {artifacts, artifacts \cup {<<candidate, f>>}}
  /\ Goto(NextLabel(f))
  /\ UNCHANGED <<file, torn, db, used, opts, mem>>

WriteArtifact(f) ==
  /\ pc = f
  /\ \/ artifacts' = artifacts \cup {<<candidate, f>>} /\ Goto(NextLabel(f))
     \/ Exit("error") /\ UNCHANGED artifacts
  /\ UNCHANGED <<file, torn, db, used, opts, mem>>

(* Mutant: the flag of the previous best key is kept. *)
AdoptKeepsFlag ==
  /\ pc = "finalized"
  /\ cp' = [cp EXCEPT !.attempts = spent, !.best = candidate]
  /\ Goto("store")
  /\ UNCHANGED <<disk, used, opts, spent, candidate, saveFailed, searchFailed>>

(* The checkpoint adopts the key once its artifacts are complete. *)
Adopt ==
  /\ pc = "finalized"
  /\ cp' = [cp EXCEPT !.attempts = spent, !.best = candidate, !.saved = FALSE]
  /\ Goto("store")
  /\ UNCHANGED <<disk, used, opts, spent, candidate, saveFailed, searchFailed>>

-------------------------------------------------------------------------------
(* SaveCheckpoint: os.WriteFile truncates the file, then writes it. *)

AfterSearch == Exit(IF searchFailed THEN "error" ELSE "ok")

(* Mutant: the success message is given before the database is written. *)
ContinueWithoutDB ==
  CASE pc = "progress"      -> Goto("mine")
    [] pc = "last progress" -> Goto("result")
    [] pc \in {"store", "mark"} -> AfterSearch

(* Where the command goes on after a successful save. *)
Continue ==
  CASE pc = "progress"      -> Goto("mine")
    [] pc = "last progress" -> Goto("result")
    [] pc = "store" -> IF opts.saveDB /\ candidate.run >= opts.minRun
                       THEN Goto("upsert") ELSE AfterSearch
    [] pc = "mark" -> AfterSearch

Truncate ==
  /\ pc \in Saving /\ ~torn
  /\ torn' = TRUE
  /\ UNCHANGED <<file, artifacts, db, used, pc, opts, mem, exit>>

WriteCheckpoint ==
  /\ pc \in Saving /\ torn
  /\ file' = cp /\ torn' = FALSE
  /\ Continue
  /\ UNCHANGED <<artifacts, db, used, opts, mem>>

(* Opening or writing fails: a progress save is remembered in checkpointErr,
   any other one ends the command.                                         *)
SaveFails ==
  /\ pc \in Saving
  /\ CASE pc = "progress"      -> Goto("mine") /\ saveFailed' = TRUE
       [] pc = "last progress" -> Goto("result") /\ saveFailed' = TRUE
       [] pc \in {"store", "mark"} -> Exit("error") /\ UNCHANGED saveFailed
  /\ UNCHANGED <<disk, used, opts, cp, spent, candidate, searchFailed>>

-------------------------------------------------------------------------------
(* saveVanityToDatabase *)

Upsert ==
  /\ pc = "upsert"
  /\ \/ /\ db' = db \cup {candidate}
        /\ cp' = [cp EXCEPT !.saved = TRUE]
        /\ Goto("mark")
     \/ Exit("error") /\ UNCHANGED <<db, cp>>
  /\ UNCHANGED <<file, torn, artifacts, used, opts, spent, candidate, saveFailed,
                 searchFailed>>

(* The process is killed: its memory is lost. *)
Crash ==
  /\ pc # "idle" /\ Exit("crashed")
  /\ cp' = Empty(opts.criteria) /\ spent' = 0 /\ candidate' = NoKey
  /\ saveFailed' = FALSE /\ searchFailed' = FALSE
  /\ UNCHANGED <<disk, used, opts>>

-------------------------------------------------------------------------------
Init ==
  /\ opts \in Options
  /\ file = Empty(opts.criteria) /\ torn = FALSE /\ artifacts = {} /\ db = {} /\ used = 0
  /\ pc = "idle" /\ exit = "none"
  /\ cp = Empty(opts.criteria) /\ spent = 0 /\ candidate = NoKey
  /\ saveFailed = FALSE /\ searchFailed = FALSE

Next ==
  \/ \E o \in Options : Start(o)
  \/ Reload \/ Mine \/ Report \/ SearchEnds \/ SearchRejects \/ Result
  \/ Finalize \/ (\E f \in Files : WriteArtifact(f)) \/ Adopt
  \/ Truncate \/ WriteCheckpoint \/ SaveFails \/ Upsert \/ Crash

Spec == Init /\ [][Next]_vars

-------------------------------------------------------------------------------
(* Properties. *)

(* Types; the attempts in memory never fall behind the checkpoint's, and no
   candidate passes the longest run.                                       *)
TypeOK ==
  /\ file \in Checkpoint /\ torn \in BOOLEAN
  /\ artifacts \subseteq Key \X Files /\ db \subseteq Key /\ used \in 0..MaxKeys
  /\ pc \in {"idle", "reload", "mine", "result", "finalize", "finalized",
             "upsert"} \cup Saving \cup Files
  /\ opts \in Options /\ cp \in Checkpoint
  /\ spent \in cp.attempts..MaxSpent
  /\ candidate \in Key \cup {NoKey}
  /\ saveFailed \in BOOLEAN /\ searchFailed \in BOOLEAN
  /\ exit \in {"none", "ok", "error", "crashed"}

(* The best key of a checkpoint on disk, and every key in the database, has
   all its artifact files: a crash at any point leaves no reference to a key
   whose encrypted private part was not written (vanity.go:242-244).       *)
ArtifactsFirst ==
  /\ file.best # NoKey => Complete(file.best)
  /\ \A k \in db : Complete(k)

(* A checkpoint on disk that says saved_to_database names a key that is in the
   database, across retries, new best keys and changed criteria; so skipping
   the save (vanity.go:172) never loses one.                               *)
SavedFlag == file.saved => file.best \in db

(* The best key on disk was mined for the criteria on disk: a user who changes
   --scope or --digits is never told that an old key meets the new ones.   *)
RightCriteria == file.best # NoKey => file.best.criteria = file.criteria

(* What exit status 0 means: a key the search found is the checkpoint's best
   on disk, and with --save-db a best key that reaches --min-run is in the
   database.                                                               *)
SuccessDurable ==
  exit = "ok" =>
    /\ ~torn /\ file.criteria = opts.criteria
    /\ candidate # NoKey => file.best = candidate
    /\ opts.saveDB /\ file.best.run >= opts.minRun
         => file.saved /\ file.best \in db

(* README.md:180-183: as long as the user resumes with the same criteria, the
   best run and the attempts on disk never go back.                        *)
DurableProgress ==
  [][opts.resume /\ file'.criteria = file.criteria
       => file'.best.run >= file.best.run /\ file'.attempts >= file.attempts]_vars

(* README.md:184-185: a database save that failed is retried without mining,
   from artifacts that are there, so that only a failing read, a failing
   database or a kill can prevent it.                                      *)
RetryNeedsNoMining ==
  [][/\ pc = "reload" => Complete(candidate)
     /\ pc = "idle" /\ pc' = "mine" /\ opts'.resume
          /\ file.criteria = opts'.criteria
        => file.best.run < opts'.minRun]_vars

(* vanity.go:242-244 calls the checkpoint durable while mining goes on: once
   the process is gone, what is on disk can be resumed from.               *)
CheckpointSurvives == pc = "idle" => ~torn
===============================================================================
