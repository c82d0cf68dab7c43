------------------------------ MODULE OpenCLRunner ------------------------------
(***************************************************************************)
(* The life of a GPU runner, from the --backend flag to the release of its *)
(* last OpenCL handle.  `gpgenie vanity` resolves the backend and announces*)
(* it, Search resolves it again, and the driver may answer differently;    *)
(* the runner of one of the devices acquires its handles one by one,       *)
(* dispatches (module GPUDispatch) and closes.  Any call may fail.         *)
(***************************************************************************)
EXTENDS GPUDispatch, BackendSelection

CONSTANTS
  Selections,     (* --gpu-devices as typed: indices, or <<>> for "all"       *)
  Answers         (* what the driver may answer: sequences of platforms      *)

(* The indices have been read as numbers; a device is one place of one      *)
(* enumeration, so an answer that lists all its platforms has it once.      *)
ASSUME SelectionAssumption ==
  /\ Selections \subseteq Seq(Int)
  /\ \A platforms \in Answers :
       /\ platforms \in Seq(Seq(UNION {ToSet(platforms[p]) : p \in DOMAIN platforms}))
       /\ Broken \in ToSet(platforms) \/ IsInjective(FlattenSeq(platforms))

VARIABLES
  stage,          (* control point                                           *)
  loader,         (* openCLLoader: "unloaded", "loaded" or "failed"          *)
  requested, gpuDevices,  (* --backend and --gpu-devices                      *)
  answer,         (* the driver's answer when it was last enumerated         *)
  announced,      (* what the command printed, ...                           *)
  expected,       (* ... and the answer it was resolved from (observer)      *)
  started,        (* what Search resolved                                    *)
  acquired,       (* acquisition steps the executor has behind it            *)
  fields,         (* the executor's handles that are not zero                *)
  live            (* handles the driver has created and not released         *)

flags   == <<requested, gpuDevices>>
choice  == <<loader, answer, announced, expected, started>>
handles == <<acquired, fields, live>>
vars    == <<stage, flags, choice, handles, dispatch>>

(* newOpenCLExecutor's calls in order; those in Handles create one. *)
Acquisition == <<"context", "queue", "program", "build", "kernel", "blocks",
                 "result", "arg 0", "arg 7">>
Handles == {"context", "queue", "program", "kernel", "blocks", "result"}

(* Handles that a call of the acquisition, a write or a run works on. *)
Uses(call) ==
  CASE call = "context" -> {}
    [] call \in {"queue", "program", "blocks", "result"} -> {"context"}
    [] call \in {"build", "kernel"} -> {"program"}
    [] call = "arg 0" -> {"kernel", "blocks"}
    [] call = "arg 7" -> {"kernel", "result"}
    [] OTHER -> Handles

-------------------------------------------------------------------------------
(* Resolution. *)

(* loadOpenCL: the first call decides, once and for all. *)
Loaded == loader' = "loaded"

Enumerate ==
  IF requested = "cpu" THEN UNCHANGED <<loader, answer>>
  ELSE /\ loader' \in IF loader = "unloaded" THEN {"loaded", "failed"} ELSE {loader}
       /\ answer' \in IF Loaded THEN Answers ELSE {<<>>}

Resolve(backend) ==
  resolveBackendRefs(backend, parseOpenCLDeviceSelection(gpuDevices),
                     listOpenCLDeviceRefs(Loaded, answer'))

(* cmd/vanity.go: ResolveBackend, and the lines that announce the search. *)
Announce ==
  /\ stage = "command"
  /\ Enumerate
  /\ announced' = Resolve(requested)
  /\ expected' = answer'
  /\ stage' = IF announced' = Failed THEN "refused" ELSE "announced"
  /\ UNCHANGED <<flags, started, handles, dispatch>>

(* Mutant: Search is given the flag and not what it was resolved to. *)
BackendAsked == requested

(* SearchConfig.Backend: effectiveBackend *)
BackendConfigured == announced.backend

(* Search resolves for itself. *)
Start ==
  /\ stage = "announced"
  /\ IF BackendConfigured = "cpu"
     THEN /\ started' = OnCPU /\ UNCHANGED <<loader, answer>>
     ELSE /\ Enumerate
          /\ started' = Resolve(BackendConfigured)
  /\ stage' = IF started' = Failed THEN "refused" ELSE "started"
  /\ UNCHANGED <<flags, announced, expected, handles, dispatch>>

(* A runner keeps its device and forgets how it was chosen. *)
Run ==
  /\ stage = "started" /\ started.devices # <<>>
  /\ stage' = "acquire"
  /\ answer' = <<>> /\ requested' = "cpu" /\ gpuDevices' = <<>>
  /\ announced' = OnCPU /\ expected' = <<>> /\ started' = OnCPU
  /\ UNCHANGED <<loader, handles, dispatch>>

-------------------------------------------------------------------------------
(* The executor. *)

(* The next call of newOpenCLExecutor; an error goes through cleanupOnError. *)
Acquire ==
  LET call == Acquisition[acquired + 1] IN
  /\ stage = "acquire"
  /\ \/ /\ acquired' = acquired + 1
        /\ fields' = fields \cup ({call} \cap Handles)
        /\ live' = live \cup ({call} \cap Handles)
        /\ stage' = IF acquired' = Len(Acquisition) THEN "ready" ELSE stage
     \/ stage' = "closing" /\ UNCHANGED handles
  /\ UNCHANGED <<flags, choice, dispatch>>

(* The runner's loop; a dispatch that goes wrong is the last one. *)
Dispatch ==
  /\ stage = "ready"
  /\ Next
  /\ UNCHANGED <<stage, flags, choice, handles>>

(* The deferred Close: the context has ended, the budget is spent, the target
   is reached, or a call of the driver has failed.                         *)
Leave ==
  /\ stage = "ready"
  /\ stage' = "closing"
  /\ grid' = NoGrid /\ waiting' = {} /\ digest' = <<>> /\ result' = 0
  /\ outcome' = "idle"
  /\ UNCHANGED <<flags, choice, handles>>

(* Mutant: the handles are released in the order they were acquired. *)
CloseAsAcquired == <<"context", "queue", "program", "kernel", "blocks", "result">>

CloseOrder == <<"result", "blocks", "kernel", "program", "queue", "context">>

(* Close: release the next handle that is not zero. *)
Close ==
  /\ stage = "closing"
  /\ IF fields = {}
     THEN stage' = "stopped" /\ UNCHANGED handles
     ELSE /\ \E i \in DOMAIN CloseOrder :
               /\ CloseOrder[i] \in fields
               /\ \A j \in 1 .. i - 1 : CloseOrder[j] \notin fields
               /\ fields' = fields \ {CloseOrder[i]}
               /\ live' = live \ {CloseOrder[i]}
          /\ UNCHANGED <<stage, acquired>>
  /\ UNCHANGED <<flags, choice, dispatch>>

-------------------------------------------------------------------------------
RunnerInit ==
  /\ stage = "command" /\ loader = "unloaded"
  /\ requested \in Backends /\ gpuDevices \in Selections
  /\ answer = <<>> /\ announced = OnCPU /\ expected = <<>> /\ started = OnCPU
  /\ acquired = 0 /\ fields = {} /\ live = {}
  /\ Init

RunnerNext ==
  \/ Announce \/ Start \/ Run
  \/ Acquire \/ Dispatch \/ Leave \/ Close

RunnerSpec == RunnerInit /\ [][RunnerNext]_vars

-------------------------------------------------------------------------------
(* Properties. *)

(* backend.go:102-120, cmd/vanity.go:364-388: the GPUs of a search are those
   that the typed indices name in the enumeration, all of them without
   indices, each with one runner and in the order they were named first; a
   search never starts with an index left out.                             *)
RightDevices ==
  stage = "started" /\ started.backend # "cpu" =>
    LET all == FlattenSeq(answer)
        named == IF gpuDevices = <<>> THEN [i \in DOMAIN all |-> i - 1]
                                      ELSE gpuDevices
        First(device) == CHOOSE i \in DOMAIN named :
                           /\ all[named[i] + 1] = device
                           /\ \A j \in 1 .. i - 1 : all[named[j] + 1] # device
    IN  /\ ToSet(named) \subseteq 0 .. Len(all) - 1
        /\ ToSet(started.devices) = {all[i + 1] : i \in ToSet(named)}
        /\ \A i, j \in DOMAIN started.devices :
             i < j => First(started.devices[i]) < First(started.devices[j])

(* cmd/vanity.go:102, 198-208, 216, search.go:131: the search runs on the
   backend it announced, or fails: a GPU that appears or vanishes between
   the two enumerations never turns it into another search, and the devices
   are the announced ones unless the driver's answer has changed.          *)
AsAnnounced ==
  stage = "started" =>
    /\ started.backend = announced.backend
    /\ answer = expected => started = announced

(* opencl_windows.go:262-316, 330-353: whichever call fails, a runner that has
   stopped has released every handle it was given, none of them twice and
   none before another one that was made from it, and every call works on
   handles that are live.                                                  *)
HandlesReleased ==
  /\ stage = "stopped" => live = {}
  /\ fields \subseteq live
  /\ \A handle \in live : Uses(handle) \subseteq live
  /\ stage = "acquire" => Uses(Acquisition[acquired + 1]) \subseteq live
  /\ stage = "ready" => Uses("run") \subseteq live
================================================================================
