---------------------------- MODULE BackendSelection ----------------------------
(***************************************************************************)
(* Which GPUs a search uses: the enumeration of the driver's devices and   *)
(* the resolution of --backend and --gpu-devices against it.  A platform   *)
(* is the sequence of its GPUs, or Broken when clGetDeviceIDs fails.       *)
(***************************************************************************)
EXTENDS Integers, Sequences, SequencesExt

Backends == {"cpu", "opencl", "hybrid", "auto"}

Broken == <<"broken">>
Failed == [backend |-> "error", devices |-> <<>>]
OnCPU  == [backend |-> "cpu", devices |-> <<>>]

(* listOpenCLDeviceRefs: the devices of all platforms, in one sequence; a   *)
(* platform without a GPU (clDeviceNotFound) is skipped.                    *)
listOpenCLDeviceRefs(loaded, platforms) ==
  LET List(listing, platform) ==
        IF listing.failed \/ platform = Broken
        THEN [failed |-> TRUE, devices |-> <<>>]
        ELSE [listing EXCEPT !.devices = @ \o platform]
  IN  FoldLeft(List, [failed |-> ~loaded, devices |-> <<>>], platforms)

(* parseOpenCLDeviceSelection: <<>> stands for "all"; of a list, the first  *)
(* mention of each index stays.                                            *)
parseOpenCLDeviceSelection(typed) ==
  LET Keep(result, index) == IF Contains(result, index) THEN result
                             ELSE Append(result, index)
  IN  FoldLeft(Keep, <<>>, typed)

(* Mutant: an index out of range is skipped. *)
ChooseInRange(available, chosen, index) ==
  IF chosen.failed \/ index \notin 0 .. Len(available) - 1 \/ index \in chosen.seen
  THEN chosen
  ELSE [chosen EXCEPT !.seen = @ \cup {index},
                      !.devices = Append(@, available[index + 1])]

(* One index of the selection: out of range, seen before, or a new one. *)
Choose(available, chosen, index) ==
  IF chosen.failed \/ index \notin 0 .. Len(available) - 1
  THEN [chosen EXCEPT !.failed = TRUE]
  ELSE IF index \in chosen.seen THEN chosen
  ELSE [chosen EXCEPT !.seen = @ \cup {index},
                      !.devices = Append(@, available[index + 1])]

(* selectOpenCLDevices: the indices in the order they are given, each once. *)
selectOpenCLDevices(available, selected) ==
  LET Step(chosen, index) == Choose(available, chosen, index)
      none == [failed |-> FALSE, seen |-> {}, devices |-> <<>>]
  IN  IF selected = <<>> THEN [none EXCEPT !.devices = available]
      ELSE FoldLeft(Step, none, selected)

(* resolveBackendRefs *)
resolveBackendRefs(requested, selected, listing) ==
  LET chosen == selectOpenCLDevices(listing.devices, selected)
      missing == IF requested = "auto" THEN OnCPU ELSE Failed
  IN  IF requested = "cpu" THEN OnCPU
      ELSE IF listing.failed THEN missing
      ELSE IF chosen.failed THEN Failed
      ELSE IF chosen.devices = <<>> THEN missing
      ELSE [backend |-> IF requested = "auto" THEN "opencl" ELSE requested,
            devices |-> chosen.devices]
================================================================================
