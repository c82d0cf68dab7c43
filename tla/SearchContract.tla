---------------------------- MODULE SearchContract ----------------------------
(***************************************************************************)
(* What vanity.Search (internal/key/vanity/search.go) promises its caller, *)
(* with no runner, channel or context in sight.  `top` is the best run     *)
(* length the runners have promoted so far, `candidate` the run length of  *)
(* the candidate whose private key the caller would be handed now.  The    *)
(* fields of SearchConfig are variables: they are another call's own.      *)
(***************************************************************************)
EXTENDS Integers

CONSTANT MaxRun    (* the longest run a key ID can have                      *)

VARIABLES
  InitialBestRun,  (* best run of the checkpoint the search resumes from     *)
  MinRun,          (* the run length that ends the search                    *)
  top, candidate, outcome

config == <<InitialBestRun, MinRun>>
vars == <<config, top, candidate, outcome>>

NoCandidate == 0

Init ==
  /\ top = InitialBestRun
  /\ candidate = NoCandidate
  /\ outcome = "searching"

(* Some runner finds a strictly longer run. *)
Improve ==
  /\ outcome = "searching"
  /\ top' \in (top + 1) .. MaxRun
  /\ UNCHANGED <<config, candidate, outcome>>

(* The caller's side retains a better candidate; it never falls back, and
   one that does not beat the checkpoint is none.                          *)
Retain ==
  /\ outcome = "searching"
  /\ candidate' \in (candidate + 1) .. top /\ candidate' > InitialBestRun
  /\ UNCHANGED <<config, top, outcome>>

(* The search returns once, with the candidate of the best promoted run, and
   a cancellation is reported only if the target was not reached.          *)
Return ==
  /\ outcome = "searching"
  /\ candidate = IF top > InitialBestRun THEN top ELSE NoCandidate
  /\ \/ outcome' \in {"ok", "failure"}
     \/ outcome' = "cancelled" /\ top < MinRun
  /\ UNCHANGED <<config, top, candidate>>

Next == Improve \/ Retain \/ Return

Spec == Init /\ [][Next]_vars
===============================================================================
