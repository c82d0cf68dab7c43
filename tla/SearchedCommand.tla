---------------------------- MODULE SearchedCommand ----------------------------
(***************************************************************************)
(* `gpgenie vanity` and the search it calls, together: the invocations of  *)
(* VanityCommand with each of their searches as SearchContract describes   *)
(* it, step by step beside the saves of the progress callback.             *)
(***************************************************************************)
EXTENDS VanityCommand

VARIABLES
  top,        (* bestRun of the search                                       *)
  retained,   (* run length of the candidate its coordinator retains         *)
  outcome     (* how it ended                                                *)

search == <<top, retained, outcome>>

(* SearchConfig: InitialBestRun is checkpoint.BestRun. *)
Search == INSTANCE SearchContract
          WITH InitialBestRun <- cp.best.run, MinRun <- opts.minRun,
               candidate <- retained

SearchedStart(o) ==
  /\ Start(o)
  /\ top' = cp'.best.run /\ retained' = Search!NoCandidate /\ outcome' = "searching"

(* The runners go on while the callback saves, the coordinator does not. *)
SearchGoesOn ==
  /\ UNCHANGED vars
  /\ \/ pc \in {"mine", "progress"} /\ Search!Improve
     \/ pc = "mine" /\ Search!Retain

(* Mutant: what a cancelled search has found is dropped. *)
HandedOverUncancelled(run) ==
  IF run = Search!NoCandidate \/ outcome' = "cancelled"
  THEN candidate' = NoKey /\ UNCHANGED used
  ELSE /\ used < MaxKeys /\ used' = used + 1
       /\ candidate' = [id |-> used + 1, run |-> run, criteria |-> opts.criteria]

(* SearchResult.Candidate: the key of the candidate retained, or nil. *)
HandedOver(run) ==
  IF run = Search!NoCandidate
  THEN candidate' = NoKey /\ UNCHANGED used
  ELSE /\ used < MaxKeys /\ used' = used + 1
       /\ candidate' = [id |-> used + 1, run |-> run, criteria |-> opts.criteria]

(* Search makes its last report and returns. *)
SearchReturns ==
  /\ pc = "mine"
  /\ Progress("last progress")
  /\ UNCHANGED <<disk, opts, spent, saveFailed>>
  /\ Search!Return
  /\ searchFailed' = (outcome' = "failure")
  /\ HandedOver(retained)

(* The result has been looked at; of the search, what it promoted is kept. *)
SearchedResult ==
  /\ Result
  /\ retained' = Search!NoCandidate /\ outcome' = "searching" /\ UNCHANGED top

(* The steps of the command that the search has no part in; a configuration
   is rejected before any runner starts.                                   *)
CommandStep ==
  \/ Reload \/ Mine \/ Report
  \/ top = cp.best.run /\ SearchRejects
  \/ Finalize \/ (\E f \in Files : WriteArtifact(f)) \/ Adopt
  \/ Truncate \/ WriteCheckpoint \/ SaveFails \/ Upsert

(* A kill ends the search as well. *)
SearchedCrash ==
  /\ Crash
  /\ top' = 0 /\ retained' = Search!NoCandidate /\ outcome' = "searching"

SearchedInit ==
  /\ Init
  /\ top = 0 /\ retained = Search!NoCandidate /\ outcome = "searching"

SearchedNext ==
  \/ \E o \in Options : SearchedStart(o)
  \/ SearchGoesOn \/ SearchReturns \/ SearchedResult \/ SearchedCrash
  \/ CommandStep /\ UNCHANGED search

SearchedSpec == SearchedInit /\ [][SearchedNext]_<<vars, search>>

-------------------------------------------------------------------------------
(* cmd/vanity.go:240-280, search.go:329-332: when the command exits with 0, the
   key of the longest run that any runner has promoted is the best key on disk,
   whichever interleaving of promotions, receptions, cancellation and failing
   saves led there.                                                        *)
BestOnDisk == exit = "ok" => file.best.run = top
===============================================================================
