--------------------------- MODULE OpenCLRunnerProofs ---------------------------
(***************************************************************************)
(* For every driver, selection and configuration: the search runs on what  *)
(* was announced, a runner that has stopped holds no handle, a dispatch    *)
(* makes the attempts that were claimed for it, and its best work item is  *)
(* the one the host decodes.                                               *)
(***************************************************************************)
EXTENDS OpenCLRunner, FiniteSetTheorems, WellFoundedInduction, TLAPS

Stages == {"command", "announced", "refused", "started",
           "acquire", "ready", "closing", "stopped"}

(* The handles that the first n calls of the acquisition create.           *)
Created(n) == {Acquisition[i] : i \in 1 .. n} \cap Handles

(* What a handle of the set was made from is in the set, too.              *)
Founded(set) == \A handle \in set : Uses(handle) \subseteq set

(* Which handles a runner has, from its first call to its last release.    *)
Held ==
  /\ stage \in Stages
  /\ fields = live /\ fields \subseteq Handles /\ Founded(live)
  /\ stage \in {"command", "announced", "started"} => acquired = 0 /\ fields = {}
  /\ stage = "acquire" => acquired \in 0 .. 8 /\ fields = Created(acquired)
  /\ stage = "ready" => fields = Handles
  /\ stage = "stopped" => fields = {}

(* What was announced, in terms of the driver's answer at that time.       *)
Resolved ==
  /\ requested \in Backends /\ loader \in {"unloaded", "loaded", "failed"}
  /\ stage = "announced" =>
       /\ announced # Failed
       /\ requested = "cpu" => announced = OnCPU
       /\ requested # "cpu" =>
            /\ loader \in {"loaded", "failed"}
            /\ announced = resolveBackendRefs(requested,
                             parseOpenCLDeviceSelection(gpuDevices),
                             listOpenCLDeviceRefs(loader = "loaded", expected))

IInv == Held /\ Resolved /\ AsAnnounced

-------------------------------------------------------------------------------
(* backend.go:79-121: a backend that resolution has settled on is settled:
   resolving it again, with the same selection and listing, gives the same;
   with any other listing it gives the same backend or fails.              *)
LEMMA Settled ==
  ASSUME NEW requested0 \in Backends, NEW selected, NEW listing, NEW other,
         NEW first, first = resolveBackendRefs(requested0, selected, listing),
         first # Failed
  PROVE  /\ first.backend = "cpu" => first = OnCPU
         /\ first.backend # "cpu" =>
              /\ first.backend \in Backends
              /\ resolveBackendRefs(first.backend, selected, listing) = first
              /\ LET again == resolveBackendRefs(first.backend, selected, other)
                 IN  again = Failed \/ again.backend = first.backend
<1> DEFINE chosen == selectOpenCLDevices(listing.devices, selected)
           missing == IF requested0 = "auto" THEN OnCPU ELSE Failed
           backend == IF requested0 = "auto" THEN "opencl" ELSE requested0
           found == [backend |-> backend, devices |-> chosen.devices]
<1>1. CASE first = OnCPU
  BY <1>1 DEF OnCPU
<1>2. CASE first # OnCPU
  <2>1. /\ requested0 # "cpu" /\ ~listing.failed /\ ~chosen.failed
        /\ chosen.devices # <<>> /\ first = found
    BY <1>2 DEF resolveBackendRefs
  <2>2. first.backend = backend /\ backend \in Backends \ {"cpu", "auto"}
    BY <2>1 DEF Backends
  <2>3. resolveBackendRefs(backend, selected, listing) =
          [backend |-> backend, devices |-> chosen.devices]
    BY <2>1, <2>2 DEF resolveBackendRefs
  <2>4. resolveBackendRefs(backend, selected, other) = Failed
          \/ resolveBackendRefs(backend, selected, other) =
               [backend |-> backend,
                devices |-> selectOpenCLDevices(other.devices, selected).devices]
    BY <2>2 DEF resolveBackendRefs
  <2>. QED  BY <2>1, <2>2, <2>3, <2>4
<1>. QED  BY <1>1, <1>2

(* opencl_windows.go:236-328: what the next call of the acquisition works on
   has been created by the calls before it.                                *)
LEMMA CreatedBefore ==
  ASSUME NEW n \in 0 .. 8
  PROVE  Uses(Acquisition[n + 1]) \subseteq Created(n)
<1>1. n \in {0, 1, 2, 3, 4, 5, 6, 7, 8}
  OBVIOUS
<1>. QED  BY <1>1 DEF Uses, Acquisition, Created, Handles

LEMMA CreatedNext ==
  ASSUME NEW n \in 0 .. 8
  PROVE  Created(n + 1) = Created(n) \cup ({Acquisition[n + 1]} \cap Handles)
<1>1. 1 .. n + 1 = (1 .. n) \cup {n + 1}
  OBVIOUS
<1>. QED  BY <1>1 DEF Created

LEMMA CreatedAll == Created(0) = {} /\ Created(9) = Handles
<1>1. /\ Acquisition[1] = "context" /\ Acquisition[2] = "queue"
      /\ Acquisition[3] = "program" /\ Acquisition[5] = "kernel"
      /\ Acquisition[6] = "blocks" /\ Acquisition[7] = "result"
  BY DEF Acquisition
<1>2. {1, 2, 3, 5, 6, 7} \subseteq 1 .. 9
  OBVIOUS
<1>3. Handles \subseteq {Acquisition[i] : i \in 1 .. 9}
  BY <1>1, <1>2 DEF Handles
<1>. QED  BY <1>3 DEF Created

(* A handle that is created finds those it is made from.                   *)
LEMMA FoundedNext ==
  ASSUME NEW n \in 0 .. 8, NEW set, set = Created(n), Founded(set)
  PROVE  Founded(set \cup ({Acquisition[n + 1]} \cap Handles))
BY CreatedBefore DEF Founded

(* opencl_windows.go:330-353: Close goes backwards: what a handle is made from
   comes after it.                                                         *)
LEMMA ReleasedBefore ==
  ASSUME NEW i \in DOMAIN CloseOrder, NEW handle \in Handles,
         CloseOrder[i] \in Uses(handle)
  PROVE  \E j \in 1 .. i - 1 : CloseOrder[j] = handle
<1>1. i \in {1, 2, 3, 4, 5, 6}
  BY DEF CloseOrder
<1>2. CASE handle = "context"
  BY <1>2 DEF Uses
<1>3. CASE handle = "queue"
  <2>1. CloseOrder[i] = "context" /\ CloseOrder[5] = handle
    BY <1>3 DEF Uses, CloseOrder
  <2>2. i = 6
    BY <1>1, <2>1 DEF CloseOrder
  <2>. QED  BY <2>1, <2>2
<1>4. CASE handle = "program"
  <2>1. CloseOrder[i] = "context" /\ CloseOrder[4] = handle
    BY <1>4 DEF Uses, CloseOrder
  <2>2. i = 6
    BY <1>1, <2>1 DEF CloseOrder
  <2>. QED  BY <2>1, <2>2
<1>5. CASE handle = "kernel"
  <2>1. CloseOrder[i] = "program" /\ CloseOrder[3] = handle
    BY <1>5 DEF Uses, CloseOrder
  <2>2. i = 4
    BY <1>1, <2>1 DEF CloseOrder
  <2>. QED  BY <2>1, <2>2
<1>6. CASE handle = "blocks"
  <2>1. CloseOrder[i] = "context" /\ CloseOrder[2] = handle
    BY <1>6 DEF Uses, CloseOrder
  <2>2. i = 6
    BY <1>1, <2>1 DEF CloseOrder
  <2>. QED  BY <2>1, <2>2
<1>7. CASE handle = "result"
  <2>1. CloseOrder[i] = "context" /\ CloseOrder[1] = handle
    BY <1>7 DEF Uses, CloseOrder
  <2>2. i = 6
    BY <1>1, <2>1 DEF CloseOrder
  <2>. QED  BY <2>1, <2>2
<1>. QED  BY <1>2, <1>3, <1>4, <1>5, <1>6, <1>7 DEF Handles

(* So the next release leaves no handle without what it is made from.      *)
LEMMA FoundedRelease ==
  ASSUME NEW set \in SUBSET Handles, Founded(set), NEW i \in DOMAIN CloseOrder,
         \A j \in 1 .. i - 1 : CloseOrder[j] \notin set
  PROVE  Founded(set \ {CloseOrder[i]})
BY ReleasedBefore DEF Founded

-------------------------------------------------------------------------------
LEMMA Start0 == RunnerInit => IInv
BY DEF RunnerInit, IInv, Founded, Held, Resolved, AsAnnounced, Stages

LEMMA AnnounceKeeps == ASSUME IInv, Announce PROVE IInv'
<1>. USE DEF IInv, Announce, flags, handles
<1>1. /\ requested = "cpu" => announced' = OnCPU
      /\ announced' = resolveBackendRefs(requested,
                        parseOpenCLDeviceSelection(gpuDevices),
                        listOpenCLDeviceRefs(loader' = "loaded", answer'))
  BY DEF Resolve, Loaded, resolveBackendRefs
<1>2. /\ requested # "cpu" => loader' \in {"loaded", "failed"}
      /\ loader' \in {"unloaded", "loaded", "failed"}
  BY DEF Enumerate, Resolved
<1>3. Held'
  BY DEF Held, Stages
<1>4. Resolved'
  BY <1>1, <1>2 DEF Resolved
<1>5. AsAnnounced'
  BY DEF AsAnnounced
<1>. QED  BY <1>3, <1>4, <1>5

(* Search resolves what was announced, with the same selection.            *)
LEMMA StartKeeps == ASSUME IInv, Start PROVE IInv'
<1>. USE DEF IInv, Start, flags, handles
<1>1. Held'
  BY DEF Held, Stages
<1>2. Resolved'
  BY DEF Enumerate, Resolved
<1>3. AsAnnounced'
  <2>1. SUFFICES ASSUME stage' = "started"
                 PROVE  /\ started'.backend = announced.backend
                        /\ answer' = expected => started' = announced
    BY DEF AsAnnounced
  <2>2. started' # Failed
    BY <2>1
  <2>3. CASE requested = "cpu"
    BY <2>3 DEF Resolved, OnCPU, BackendConfigured
  <2>4. CASE requested # "cpu"
    <3> DEFINE selected == parseOpenCLDeviceSelection(gpuDevices)
               Listing(platforms) == listOpenCLDeviceRefs(loader = "loaded", platforms)
    <3>1. /\ loader \in {"loaded", "failed"} /\ announced # Failed
          /\ announced = resolveBackendRefs(requested, selected, Listing(expected))
          /\ requested \in Backends
      BY <2>4 DEF Resolved
    <3>2. /\ announced.backend = "cpu" => announced = OnCPU
          /\ announced.backend # "cpu" =>
               /\ resolveBackendRefs(announced.backend, selected, Listing(expected))
                    = announced
               /\ LET again == resolveBackendRefs(announced.backend, selected,
                                                  Listing(answer'))
                  IN  again = Failed \/ again.backend = announced.backend
      BY <3>1, Settled
    <3>3. CASE announced.backend = "cpu"
      BY <3>2, <3>3 DEF BackendConfigured
    <3>4. CASE announced.backend # "cpu"
      <4>1. loader' = loader
        BY <2>4, <3>1, <3>4 DEF Enumerate, BackendConfigured
      <4>2. started' = resolveBackendRefs(announced.backend, selected, Listing(answer'))
        BY <3>4, <4>1 DEF Resolve, Loaded, BackendConfigured
      <4>. QED  BY <2>2, <3>2, <3>4, <4>2
    <3>. QED  BY <3>3, <3>4
  <2>. QED  BY <2>3, <2>4
<1>. QED  BY <1>1, <1>2, <1>3

LEMMA RunKeeps == ASSUME IInv, Run PROVE IInv'
<1>. USE DEF IInv, Run, handles
<1>1. Held'
  <2>1. acquired' = 0 /\ fields' = {} /\ live' = {} /\ stage' = "acquire"
    BY DEF Held
  <2>2. fields' = Created(acquired')
    BY <2>1, CreatedAll
  <2>. QED  BY <2>1, <2>2 DEF Held, Founded, Stages
<1>2. Resolved'
  BY DEF Resolved, Backends
<1>. QED  BY <1>1, <1>2 DEF AsAnnounced

(* Each call that succeeds adds what it creates; one that fails leaves what
   the calls before it created to cleanupOnError.                          *)
LEMMA AcquireKeeps == ASSUME IInv, Acquire PROVE IInv'
<1>. USE DEF IInv, flags, choice
<1> DEFINE call == Acquisition[acquired + 1]
<1>1. /\ stage = "acquire" /\ acquired \in 0 .. 8 /\ fields = Created(acquired)
      /\ fields = live /\ fields \subseteq Handles /\ Founded(live)
  BY DEF Acquire, Held
<1>2. Held'
  <2>1. CASE stage' = "closing" /\ UNCHANGED handles
    BY <1>1, <2>1 DEF Held, Stages, handles
  <2>2. CASE /\ acquired' = acquired + 1
             /\ fields' = fields \cup ({call} \cap Handles)
             /\ live' = live \cup ({call} \cap Handles)
             /\ stage' = IF acquired' = Len(Acquisition) THEN "ready" ELSE stage
    <3>0. Founded(live')
      BY <1>1, <2>2, FoundedNext
    <3>1. fields' = Created(acquired') /\ fields' = live' /\ fields' \subseteq Handles
      BY <1>1, <2>2, CreatedNext
    <3>2. Len(Acquisition) = 9
      BY DEF Acquisition
    <3>3. CASE acquired' = 9
      BY <3>0, <3>1, <3>2, <3>3, <2>2, CreatedAll DEF Held, Stages
    <3>4. CASE acquired' # 9
      <4>1. acquired' \in 0 .. 8 /\ stage' = "acquire"
        BY <1>1, <2>2, <3>2, <3>4
      <4>. QED  BY <3>0, <3>1, <4>1 DEF Held, Stages
    <3>. QED  BY <3>3, <3>4
  <2>. QED  BY <2>1, <2>2 DEF Acquire
<1>3. Resolved' /\ AsAnnounced'
  BY <1>1 DEF Acquire, Resolved, AsAnnounced
<1>. QED  BY <1>2, <1>3

LEMMA DispatchKeeps == ASSUME IInv, Dispatch PROVE IInv'
BY DEF IInv, Dispatch, Held, Resolved, AsAnnounced, flags, choice, handles, Created

LEMMA LeaveKeeps == ASSUME IInv, Leave PROVE IInv'
BY DEF IInv, Leave, Held, Resolved, AsAnnounced, Stages, flags, choice, handles

LEMMA CloseKeeps == ASSUME IInv, Close PROVE IInv'
<1>. USE DEF IInv, Close, flags, choice, handles
<1>1. Held'
  <2>1. CASE fields = {}
    BY <2>1 DEF Held, Stages
  <2>2. CASE fields # {}
    <3>1. PICK i \in DOMAIN CloseOrder :
            /\ \A j \in 1 .. i - 1 : CloseOrder[j] \notin fields
            /\ fields' = fields \ {CloseOrder[i]} /\ live' = live \ {CloseOrder[i]}
      BY <2>2
    <3>2. Founded(live')
      BY <3>1, FoundedRelease DEF Held
    <3>. QED  BY <2>2, <3>1, <3>2 DEF Held, Stages
  <2>. QED  BY <2>1, <2>2
<1>2. Resolved' /\ AsAnnounced'
  BY DEF Resolved, AsAnnounced
<1>. QED  BY <1>1, <1>2

(* opencl_windows.go and backend.go: every state of a runner's life keeps the
   handles it holds, and what was announced, as IInv says.                 *)
THEOREM Invariant == RunnerSpec => []IInv
<1>1. IInv /\ UNCHANGED vars => IInv'
  BY DEF IInv, Held, Resolved, AsAnnounced, vars, flags, choice, handles, Created
<1>2. IInv /\ RunnerNext => IInv'
  BY AnnounceKeeps, StartKeeps, RunKeeps, AcquireKeeps, DispatchKeeps,
     LeaveKeeps, CloseKeeps DEF RunnerNext
<1>. QED  BY Start0, <1>1, <1>2, PTL DEF RunnerSpec

(* backend.go:79-121, vanity.go:102-216: the search runs on the backend it
   announced, and on its devices unless the driver's answer has changed.   *)
THEOREM AsAnnouncedAlways == RunnerSpec => []AsAnnounced
<1>1. IInv => AsAnnounced
  BY DEF IInv
<1>. QED  BY Invariant, <1>1, PTL

(* opencl_windows.go:236-353: whichever call fails, every call works on live
   handles, none of them is released before another one that was made from
   it, and a runner that has stopped has released all of them.             *)
THEOREM HandlesReleasedAlways == RunnerSpec => []HandlesReleased
<1>1. IInv => HandlesReleased
  BY CreatedBefore DEF IInv, Held, Founded, HandlesReleased, Uses
<1>. QED  BY Invariant, <1>1, PTL

-------------------------------------------------------------------------------
(* Arithmetic of the word, of the grid and of the matchers.                *)

(* A bounded set of numbers has a greatest element. *)
LEMMA Greatest ==
  ASSUME NEW n \in Nat, NEW T \in SUBSET (0 .. n), T # {}
  PROVE  \E x \in T : \A y \in T : y <= x
<1> DEFINE U == {x .. n : x \in T}
<1>1. U \subseteq FiniteSubsetsOf(Nat)
  <2>1. \A x \in T : x .. n \subseteq Nat /\ IsFiniteSet(x .. n)
    BY FS_Interval
  <2>. QED  BY <2>1 DEF FiniteSubsetsOf
<1>2. U # {}
  OBVIOUS
<1>3. \E X \in U : \A Y \in U : <<Y, X>> \notin StrictSubsetOrdering(Nat)
  <2> HIDE DEF U
  <2>. QED  BY <1>1, <1>2, FS_StrictSubsetOrderingWellFounded, WFMin
<1>4. PICK x \in T : \A y \in T : <<y .. n, x .. n>> \notin StrictSubsetOrdering(Nat)
  BY <1>3
<1>5. ASSUME NEW y \in T, ~(y <= x) PROVE FALSE
  <2>1. y .. n \subseteq x .. n /\ x \in x .. n /\ x \notin y .. n
    BY <1>5
  <2>2. <<y .. n, x .. n>> \in StrictSubsetOrdering(Nat)
    BY <2>1 DEF StrictSubsetOrdering
  <2>. QED  BY <1>4, <2>2
<1>. QED  BY <1>5

(* A longest run exists and is no longer than the key. *)
LEMMA LongestRunBound ==
  ASSUME NEW key \in AllKeys, NEW scope, NEW allowed
  PROVE  LongestRun(key, scope, allowed) \in 0 .. DigitCount
<1> DEFINE lengths == RunLengths(key, scope, allowed)
<1>1. key \in Seq(Digits) /\ Len(key) = DigitCount /\ DigitCount \in Nat
  BY DispatchAssumption DEF AllKeys
<1>2. lengths \subseteq 0 .. DigitCount
  BY <1>1 DEF RunLengths
<1>3. IsRun(key, scope, allowed, DigitCount, 0)
  BY <1>1 DEF IsRun
<1>4. 0 \in lengths
  BY <1>1, <1>3 DEF RunLengths
<1>5. \E n \in lengths : \A m \in lengths : m <= n
  BY <1>1, <1>2, <1>4, Greatest
<1>6. LongestRun(key, scope, allowed) \in lengths
  BY <1>5 DEF LongestRun
<1>. QED  BY <1>2, <1>6

(* The two halves of a packed word come out again, and packed words compare by
   their upper halves first.                                               *)
LEMMA Unpacked ==
  ASSUME NEW width \in Nat \ {0}, NEW high \in Nat, NEW low \in 0 .. width - 1
  PROVE  /\ (high * width + low) \div width = high
         /\ (high * width + low) % width = low
OBVIOUS

LEMMA UpperHalfFirst ==
  ASSUME NEW width \in Nat \ {0}, NEW high \in Nat, NEW low \in 0 .. width - 1,
         NEW high2 \in Nat, NEW low2 \in 0 .. width - 1,
         high * width + low <= high2 * width + low2
  PROVE  high <= high2
<1>1. SUFFICES ASSUME high >= high2 + 1 PROVE FALSE
  OBVIOUS
<1>2. high * width >= (high2 + 1) * width
  BY <1>1
<1>3. (high2 + 1) * width = high2 * width + width
  OBVIOUS
<1>. QED  BY <1>2, <1>3

LEMMA Divided ==
  ASSUME NEW n \in Nat, NEW d \in Nat \ {0}
  PROVE  /\ n \div d \in Nat /\ n % d \in 0 .. d - 1
         /\ n = (n \div d) * d + (n % d)
<1>1. n \div d \in Int /\ n % d \in 0 .. d - 1
  OBVIOUS
<1>2. n = d * (n \div d) + (n % d)
  OBVIOUS
<1>3. n \div d >= 0
  OBVIOUS
<1>4. d * (n \div d) = (n \div d) * d
  BY <1>1
<1>. QED  BY <1>1, <1>2, <1>3, <1>4

LEMMA RoundedUp ==
  ASSUME NEW n \in Nat, NEW multiple \in Nat \ {0}
  PROVE  roundUp(n, multiple) \in Nat /\ roundUp(n, multiple) >= n
<1> DEFINE top == n + multiple - 1
           times == top \div multiple
<1>1. top \in Nat
  OBVIOUS
<1>2. /\ times \in Nat /\ top % multiple \in 0 .. multiple - 1
      /\ top = times * multiple + (top % multiple)
  <2> HIDE DEF top
  <2>. QED  BY <1>1, Divided
<1>3. times * multiple \in Nat
  BY <1>2
<1>4. times * multiple >= n
  <2> HIDE DEF times
  <2>. QED  BY <1>2, <1>3
<1>. QED  BY <1>3, <1>4 DEF roundUp

(* highestPowerOfTwo returns a power no greater than its argument.         *)
LEMMA PowerAbove ==
  \A j \in 0 .. MaxWorkGroupSize : 2^j > j
<1> DEFINE Good(j) == \A i \in 0 .. j : 2^i > i
           good == {j \in 0 .. MaxWorkGroupSize : Good(j)}
<1>1. MaxWorkGroupSize \in Nat /\ 2^0 = 1
      /\ \A i \in 0 .. MaxWorkGroupSize : 2^i \in Nat /\ 2^(i + 1) = 2 * 2^i
  BY DispatchAssumption, PowersAssumption
<1>2. 0 \in good
  <2>1. \A i \in 0 .. 0 : i = 0
    OBVIOUS
  <2>2. 2^0 > 0
    BY <1>1
  <2>3. Good(0)
    BY <2>1, <2>2
  <2>4. 0 \in 0 .. MaxWorkGroupSize
    BY <1>1
  <2> HIDE DEF Good
  <2>. QED  BY <2>3, <2>4
<1>3. PICK j \in good : \A k \in good : k <= j
  <2> good \subseteq 0 .. MaxWorkGroupSize
    OBVIOUS
  <2> HIDE DEF good
  <2>. QED  BY <1>1, <1>2, Greatest
<1>4. j = MaxWorkGroupSize
  <2>1. SUFFICES ASSUME j < MaxWorkGroupSize PROVE FALSE
    BY <1>1
  <2>2. 2^j \in Nat /\ 2^j > j /\ 2^(j + 1) = 2 * 2^j
    BY <1>1
  <2>3. 2^(j + 1) > j + 1
    BY <2>2
  <2>4. Good(j + 1)
    <3>1. SUFFICES ASSUME NEW i \in 0 .. j + 1 PROVE 2^i > i
      OBVIOUS
    <3>2. i \in 0 .. j \/ i = j + 1
      OBVIOUS
    <3>. QED  BY <2>3, <3>2
  <2>5. j + 1 \in good
    BY <1>1, <2>1, <2>4
  <2>. QED  BY <1>3, <2>5
<1>. QED  BY <1>4

LEMMA HighestPower ==
  ASSUME NEW n \in 1 .. MaxWorkGroupSize
  PROVE  highestPowerOfTwo(n) \in 1 .. n
<1> DEFINE powers == {2^i : i \in 0 .. n}
           below == {i \in 0 .. n : 2^i <= n}
<1>1. /\ MaxWorkGroupSize \in Nat /\ 2^0 = 1
      /\ \A i \in 0 .. n : 2^i \in Nat /\ 2^(i + 1) = 2 * 2^i
  BY DispatchAssumption, PowersAssumption
<1>2. PICK i \in below : \A j \in below : j <= i
  <2>1. 0 \in below /\ below \subseteq 0 .. n /\ n \in Nat
    BY <1>1
  <2> HIDE DEF below
  <2>. QED  BY <2>1, Greatest
<1>3. i < n
  BY <1>1, PowerAbove
<1>4. i + 1 \notin below /\ i + 1 \in 0 .. n
  BY <1>2, <1>3
<1>5. 2^i \in powers /\ 2^i <= n /\ n < 2 * 2^i
  BY <1>1, <1>4
<1>6. highestPowerOfTwo(n) \in powers /\ highestPowerOfTwo(n) <= n
      /\ n < 2 * highestPowerOfTwo(n)
  BY <1>5 DEF highestPowerOfTwo
<1>7. highestPowerOfTwo(n) \in Nat
  BY <1>1, <1>6
<1>. QED  BY <1>6, <1>7

(* The work-group size is one that the device accepts.                     *)
LEMMA localSizeAccepted ==
  /\ localSize \in Nat \ {0}
  /\ MaxWorkGroupSize > 0 => localSize <= MaxWorkGroupSize
BY DispatchAssumption, HighestPower DEF localSize

(* A grid of any accepted configuration holds as many pairs as the word has
   room to number.                                                         *)
LEMMA GridFits ==
  ASSUME NEW configured \in KeyBatches, NEW items \in WorkItems, NEW left \in Spans
  PROVE  LET keys == orDefault(configured, defaultGPUKeyBatch)
             times == GridTimestamps(keys, orDefault(items, defaultGPUWorkItems), left)
         IN  /\ keys \in Nat \ {0} /\ times \in Nat \ {0}
             /\ keys * times \in Nat \ {0} /\ keys * times <= maxGPUWorkItems
<1> DEFINE keys == orDefault(configured, defaultGPUKeyBatch)
           work == orDefault(items, defaultGPUWorkItems)
           wanted == IF work \div keys = 0 THEN 1 ELSE work \div keys
           times == GridTimestamps(keys, work, left)
<1>1. /\ maxGPUWorkItems \in Int
      /\ maxGPUKeyBatch \in Nat /\ maxGPUKeyBatch <= maxGPUWorkItems
  <2>1. IndexBits \in 0 .. IndexBits + WordBits + MaxWorkGroupSize
    BY DispatchAssumption, PowersAssumption
  <2>2. 2^IndexBits \in Nat
    BY <2>1, PowersAssumption
  <2>. QED  BY <2>2, DispatchAssumption DEF maxGPUWorkItems
<1>2. keys \in 1 .. maxGPUKeyBatch /\ work \in 1 .. maxGPUWorkItems
  BY <1>1, DispatchAssumption DEF orDefault
<1>3. left \in Nat \ {0}
  BY DispatchAssumption
<1> HIDE DEF keys, work
<1>4. work \div keys \in Nat /\ (work \div keys) * keys <= work
  <2>1. work \in Nat /\ keys \in Nat \ {0}
    BY <1>1, <1>2
  <2>. QED  BY <2>1, Divided
<1>5. wanted \in Nat \ {0} /\ wanted * keys <= maxGPUWorkItems
  BY <1>1, <1>2, <1>4
<1>6. times \in Nat \ {0} /\ times <= wanted
  BY <1>3, <1>5 DEF GridTimestamps
<1> HIDE DEF wanted, times
<1>7. times * keys <= wanted * keys
  BY <1>1, <1>2, <1>5, <1>6
<1>8. keys * times = times * keys /\ keys * times \in Nat \ {0}
  BY <1>1, <1>2, <1>6
<1>9. keys * times <= maxGPUWorkItems
  BY <1>1, <1>2, <1>5, <1>6, <1>7, <1>8
<1>. QED  BY <1>1, <1>2, <1>6, <1>8, <1>9 DEF keys, times, work

(* The pairs that the rounded-up grid runs are as many as were claimed: each
   number below the claim is that of exactly one pair.                     *)
LEMMA LaunchedCount ==
  ASSUME NEW templates \in Nat \ {0}, NEW timestamps \in Nat \ {0},
         NEW workCount \in 1 .. templates * timestamps
  PROVE  LET items == Launched(templates, timestamps, workCount) IN
         /\ IsFiniteSet(items) /\ Cardinality(items) = workCount
         /\ \A item \in items :
              /\ item = <<item[1], item[2]>>
              /\ item[1] \in 0 .. templates - 1 /\ item[2] \in 0 .. timestamps - 1
              /\ item[1] * timestamps + item[2] \in 0 .. workCount - 1
<1> DEFINE items == Launched(templates, timestamps, workCount)
           numbers == 0 .. workCount - 1
           pair == [k \in numbers |-> <<k \div timestamps, k % timestamps>>]
<1>1. /\ templates * timestamps \in Nat /\ workCount \in Nat \ {0}
      /\ workCount <= templates * timestamps
  OBVIOUS
<1>2. roundUp(timestamps, localSize) \in Nat
      /\ roundUp(timestamps, localSize) >= timestamps
  BY localSizeAccepted, RoundedUp
<1>3. \A item \in items :
        /\ item = <<item[1], item[2]>>
        /\ item[1] \in 0 .. templates - 1 /\ item[2] \in 0 .. timestamps - 1
        /\ item[1] * timestamps + item[2] < workCount
  BY <1>2 DEF Launched
<1>4. \A a \in 0 .. templates - 1, b \in 0 .. timestamps - 1 :
        a * timestamps + b < workCount => <<a, b>> \in items
  BY <1>2 DEF Launched
<1>5. \A k \in numbers :
        /\ k \div timestamps \in 0 .. templates - 1
        /\ k % timestamps \in 0 .. timestamps - 1
        /\ (k \div timestamps) * timestamps + (k % timestamps) = k
  <2>1. SUFFICES ASSUME NEW k \in numbers
                 PROVE  /\ k \div timestamps \in 0 .. templates - 1
                        /\ k % timestamps \in 0 .. timestamps - 1
                        /\ (k \div timestamps) * timestamps + (k % timestamps) = k
    OBVIOUS
  <2> DEFINE high == k \div timestamps
             low == k % timestamps
  <2>2. high \in Nat /\ low \in 0 .. timestamps - 1 /\ high * timestamps + low = k
    <3>1. k \in Nat
      BY <1>1
    <3>2. /\ k \div timestamps \in Nat /\ k % timestamps \in 0 .. timestamps - 1
          /\ k = (k \div timestamps) * timestamps + (k % timestamps)
      BY <3>1, Divided
    <3>. QED  BY <3>2
  <2>3. k < templates * timestamps
    BY <1>1
  <2> HIDE DEF high, low
  <2>4. high < templates
    <3>1. SUFFICES ASSUME high >= templates PROVE FALSE
      BY <2>2
    <3>2. high * timestamps >= templates * timestamps
      BY <2>2, <3>1
    <3>3. high * timestamps \in Nat
      BY <2>2
    <3>. QED  BY <1>1, <2>2, <2>3, <3>2, <3>3
  <2>. QED  BY <2>2, <2>4 DEF high, low
<1>6. \A item \in items : item[1] * timestamps + item[2] \in numbers
  <2>1. \A item \in items : item[1] * timestamps \in Nat
    BY <1>3
  <2>. QED  BY <1>1, <1>3, <2>1
<1>7. \A k \in numbers : pair[k] \in items
  <2>1. SUFFICES ASSUME NEW k \in numbers
                 PROVE  <<k \div timestamps, k % timestamps>> \in items
    OBVIOUS
  <2>2. (k \div timestamps) * timestamps + (k % timestamps) < workCount
    BY <1>1, <1>5
  <2> HIDE DEF items
  <2>. QED  BY <1>4, <1>5, <2>2
<1>8. \A k, l \in numbers : pair[k] = pair[l] => k = l
  <2>1. SUFFICES ASSUME NEW k \in numbers, NEW l \in numbers, pair[k] = pair[l]
                 PROVE  k = l
    OBVIOUS
  <2>2. k \div timestamps = l \div timestamps /\ k % timestamps = l % timestamps
    BY <2>1
  <2>. QED  BY <1>5, <2>2
<1>9. \A item \in items : \E k \in numbers : pair[k] = item
  <2>1. SUFFICES ASSUME NEW item \in items PROVE \E k \in numbers : pair[k] = item
    OBVIOUS
  <2> DEFINE k == item[1] * timestamps + item[2]
  <2>2. k \div timestamps = item[1] /\ k % timestamps = item[2]
    BY <1>3, Unpacked
  <2>3. k \in numbers
    BY <1>6
  <2>. QED  BY <1>3, <2>2, <2>3
<1>10. ExistsBijection(numbers, items)
  <2> HIDE DEF items, numbers
  <2>1. pair \in [numbers -> items]
    BY <1>7
  <2>2. pair \in Bijection(numbers, items)
    BY <2>1, <1>8, <1>9 DEF Bijection, Injection, Surjection, IsInjective
  <2>. QED  BY <2>2 DEF ExistsBijection
<1>11. IsFiniteSet(numbers) /\ Cardinality(numbers) = workCount
  BY <1>1, FS_Interval
<1>12. IsFiniteSet(items) /\ Cardinality(items) = workCount
  <2> HIDE DEF items, numbers
  <2>. QED  BY <1>10, <1>11, FS_Bijection
<1>. QED  BY <1>3, <1>6, <1>12

-------------------------------------------------------------------------------
Width == 2^IndexBits

(* The result word is wide enough for the longest run and the last index.  *)
LEMMA WordWide ==
  /\ Width \in Nat \ {0} /\ maxGPUWorkItems = Width - 1
  /\ 2^WordBits \in Nat /\ DigitCount * Width + Width <= 2^WordBits
<1>1. /\ IndexBits \in 0 .. IndexBits + WordBits + MaxWorkGroupSize
      /\ WordBits \in 0 .. IndexBits + WordBits + MaxWorkGroupSize
  BY DispatchAssumption, PowersAssumption
<1>2. Width \in Nat /\ 2^WordBits \in Nat
  BY <1>1, PowersAssumption DEF Width
<1>3. maxGPUWorkItems = Width - 1
  BY DEF maxGPUWorkItems, Width
<1>4. Width >= 2
  BY <1>2, <1>3, DispatchAssumption
<1>5. (DigitCount + 1) * Width <= 2^WordBits /\ DigitCount \in Nat
  BY DispatchAssumption DEF Width
<1>6. (DigitCount + 1) * Width = DigitCount * Width + Width
  BY <1>2, <1>5
<1>. QED  BY <1>2, <1>3, <1>4, <1>5, <1>6

LEMMA Packed ==
  ASSUME NEW run \in 0 .. DigitCount, NEW index \in 0 .. Width - 1
  PROVE  /\ Score(run, index) = run * Width + index
         /\ run * Width + index \in Nat
<1>1. DigitCount \in Nat /\ run \in Nat /\ index \in Nat /\ index < Width
  BY WordWide, DispatchAssumption
<1>2. run * Width <= DigitCount * Width /\ run * Width \in Nat
        /\ DigitCount * Width \in Nat
  BY <1>1, WordWide
<1>3. run * Width + index \in 0 .. 2^WordBits - 1
  BY <1>1, <1>2, WordWide
<1>4. (run * Width + index) % 2^WordBits = run * Width + index
  <2> DEFINE word == run * Width + index
             size == 2^WordBits
  <2>1. word \in 0 .. size - 1 /\ size \in Nat
    BY <1>3, WordWide
  <2> HIDE DEF word, size
  <2>2. word % size = word
    BY <2>1
  <2>. QED  BY <2>2 DEF word, size
<1>. QED  BY <1>3, <1>4 DEF Score, Width

Items == Launched(grid.templateCount, grid.timestampCount, grid.claimed)

(* A dispatch was sized to fit the word.                                   *)
Sized ==
  /\ grid.templateCount \in Nat \ {0} /\ grid.timestampCount \in Nat \ {0}
  /\ grid.claimed \in 1 .. grid.templateCount * grid.timestampCount
  /\ grid.claimed <= maxGPUWorkItems
  /\ grid.baseline \in 0 .. DigitCount
  /\ grid.scope \in Scopes /\ grid.allowed \in SUBSET Digits \ {{}}

(* Each work item of the grid waits or has a digest, not both.             *)
Work ==
  /\ outcome \in {"idle", "running", "nothing", "verified", "invalid index", "mismatch"}
  /\ outcome = "idle" => waiting = {} /\ DOMAIN digest = {}
  /\ outcome # "idle" =>
       /\ Sized
       /\ waiting \cup DOMAIN digest = Items
       /\ waiting \cap DOMAIN digest = {}
       /\ \A item \in DOMAIN digest : digest[item] \in AllKeys
  /\ outcome # "running" => waiting = {}

LEMMA ItemIndex ==
  ASSUME Sized, NEW item \in Items
  PROVE  /\ item = <<item[1], item[2]>>
         /\ item[1] \in 0 .. grid.templateCount - 1
         /\ item[2] \in 0 .. grid.timestampCount - 1
         /\ logical_index(item) \in 0 .. Width - 1
<1>1. /\ item = <<item[1], item[2]>>
      /\ item[1] \in 0 .. grid.templateCount - 1
      /\ item[2] \in 0 .. grid.timestampCount - 1
      /\ logical_index(item) \in 0 .. grid.claimed - 1
  BY LaunchedCount DEF Sized, Items, logical_index
<1>2. grid.claimed <= Width - 1 /\ grid.claimed \in Int
  BY WordWide DEF Sized
<1>. QED  BY <1>1, <1>2, WordWide

LEMMA WorkInit == Init => Work
BY DEF Init, Work

LEMMA LaunchWorks == ASSUME Work, Launch PROVE Work' /\ outcome' = "running"
<1>1. PICK configured \in KeyBatches, items \in WorkItems, left \in Spans :
        LET keys == orDefault(configured, defaultGPUKeyBatch)
            times == GridTimestamps(keys, orDefault(items, defaultGPUWorkItems), left)
        IN  grid' \in [scope : Scopes, allowed : SUBSET Digits \ {{}},
                       templateCount : {keys}, timestampCount : {times},
                       claimed : 1 .. keys * times, baseline : Baselines]
  BY DEF Launch
<1> DEFINE keys == orDefault(configured, defaultGPUKeyBatch)
           times == GridTimestamps(keys, orDefault(items, defaultGPUWorkItems), left)
<1>2. /\ keys \in Nat \ {0} /\ times \in Nat \ {0}
      /\ keys * times \in Nat \ {0} /\ keys * times <= maxGPUWorkItems
  BY GridFits
<1> HIDE DEF keys, times
<1>3. /\ grid'.templateCount = keys /\ grid'.timestampCount = times
      /\ grid'.claimed \in 1 .. keys * times /\ grid'.baseline \in Baselines
      /\ grid'.scope \in Scopes /\ grid'.allowed \in SUBSET Digits \ {{}}
  BY <1>1 DEF keys, times
<1>4. Sized'
  <2>1. grid'.claimed <= maxGPUWorkItems /\ maxGPUWorkItems \in Int
    BY <1>2, <1>3, WordWide
  <2>2. grid'.baseline \in 0 .. DigitCount
    BY <1>3, DispatchAssumption
  <2>. QED  BY <1>2, <1>3, <2>1, <2>2 DEF Sized
<1>5. ~Refused(grid'.claimed)
  BY <1>2, <1>3, localSizeAccepted, DispatchAssumption, WordWide DEF Refused
<1>6. /\ outcome' = "running" /\ digest' = digest /\ outcome = "idle"
      /\ waiting' = Launched(grid'.templateCount, grid'.timestampCount, grid'.claimed)
  BY <1>5 DEF Launch
<1>7. DOMAIN digest' = {} /\ waiting' = Items'
  BY <1>6 DEF Work, Items
<1>. QED  BY <1>4, <1>6, <1>7 DEF Work

LEMMA ItemWorks ==
  ASSUME Work, NEW item \in waiting, vanity_sha1(item)
  PROVE  /\ Work' /\ outcome' = "running" /\ outcome = "running"
         /\ item \in Items /\ item \notin DOMAIN digest /\ UNCHANGED grid
         /\ \E key \in AllKeys :
              /\ digest' = [i \in DOMAIN digest \cup {item} |->
                              IF i = item THEN key ELSE digest[i]]
              /\ atomic_max(Score(matching_run(key, grid.scope, grid.allowed),
                                  logical_index(item)))
<1>1. /\ outcome = "running" /\ Sized /\ waiting \cup DOMAIN digest = Items
      /\ waiting \cap DOMAIN digest = {}
      /\ \A i \in DOMAIN digest : digest[i] \in AllKeys
  BY DEF Work
<1>2. /\ waiting' = waiting \ {item} /\ UNCHANGED <<grid, outcome>>
      /\ \E key \in AllKeys \cup Pool :
              /\ digest' = [i \in DOMAIN digest \cup {item} |->
                              IF i = item THEN key ELSE digest[i]]
              /\ atomic_max(Score(matching_run(key, grid.scope, grid.allowed),
                                  logical_index(item)))
  BY DEF vanity_sha1
<1>3. PICK key \in AllKeys :
              /\ digest' = [i \in DOMAIN digest \cup {item} |->
                              IF i = item THEN key ELSE digest[i]]
              /\ atomic_max(Score(matching_run(key, grid.scope, grid.allowed),
                                  logical_index(item)))
  BY <1>2, DispatchAssumption
<1>4. DOMAIN digest' = DOMAIN digest \cup {item}
      /\ \A i \in DOMAIN digest' : digest'[i] \in AllKeys
  BY <1>1, <1>3
<1>5. Items' = Items /\ Sized'
  BY <1>1, <1>2 DEF Items, Sized
<1>6. waiting' \cup DOMAIN digest' = Items' /\ waiting' \cap DOMAIN digest' = {}
  BY <1>1, <1>2, <1>4, <1>5
<1>7. Work'
  BY <1>1, <1>2, <1>4, <1>5, <1>6 DEF Work
<1>. QED  BY <1>1, <1>2, <1>3, <1>7

LEMMA VerifyWorks == ASSUME Work, Verify PROVE Work'
BY DEF Work, Verify, Sized, Items

LEMMA AgainWorks == ASSUME Work, Again \/ Leave PROVE Work' /\ outcome' = "idle"
<1>1. waiting' = {} /\ digest' = <<>> /\ outcome' = "idle"
  BY DEF Again, Leave
<1>2. DOMAIN digest' = {}
  BY <1>1
<1>. QED  BY <1>1, <1>2 DEF Work

LEMMA WorkStep == Work /\ Next => Work'
BY LaunchWorks, ItemWorks, VerifyWorks, AgainWorks DEF Next

LEMMA WorkExact == Work => ExactWork
<1>1. SUFFICES ASSUME Work, outcome \notin {"idle", "running"}
               PROVE  Cardinality(DOMAIN digest) = grid.claimed
                      /\ grid.claimed <= maxGPUWorkItems
  BY DEF ExactWork
<1>2. Sized /\ DOMAIN digest = Items
  BY <1>1 DEF Work
<1>3. Cardinality(Items) = grid.claimed
  BY <1>2, LaunchedCount DEF Sized, Items
<1>. QED  BY <1>2, <1>3 DEF Sized

-------------------------------------------------------------------------------
(* Loops over sequences.  A fold is a recursive function of sets of positions;
   each of the code's loops is shown to be one whose states follow each other,
   and what holds after every turn is then proved turn by turn.            *)

(* Induction over the turns of a loop: what is so before the first turn and
   is kept by every turn is so after each.  It is stated of a set, which the
   provers can instantiate.                                                *)
LEMMA TurnByTurn ==
  ASSUME NEW n \in Nat, NEW T, 0 \in T, \A m \in 0 .. n - 1 : m \in T => m + 1 \in T
  PROVE  \A m \in 0 .. n : m \in T
<1> DEFINE U == {m \in 0 .. n : \A k \in 0 .. m : k \in T}
<1>1. 0 \in U
  OBVIOUS
<1>2. PICK x \in U : \A y \in U : y <= x
  <2> HIDE DEF U
  <2>1. U \in SUBSET (0 .. n)
    BY DEF U
  <2>. QED  BY <1>1, <2>1, Greatest
<1>3. x = n
  <2>1. SUFFICES ASSUME x \in 0 .. n - 1 PROVE FALSE
    OBVIOUS
  <2>2. x + 1 \in T
    BY <1>2, <2>1
  <2>3. \A k \in 0 .. x + 1 : k = x + 1 \/ k \in 0 .. x
    BY <2>1
  <2>4. x + 1 \in U
    BY <2>1, <2>2, <2>3
  <2>. QED  BY <1>2, <2>1, <2>4
<1>. QED  BY <1>3

LEMMA MaxTop ==
  ASSUME NEW n \in Nat, NEW s \in SUBSET (1 .. n), s # {}
  PROVE  Max(s) \in s /\ \A y \in s : y <= Max(s)
<1>1. s \in SUBSET (0 .. n)
  OBVIOUS
<1>2. PICK x \in s : \A y \in s : x >= y
  BY <1>1, Greatest
<1>. QED  BY <1>2 DEF Max

(* A function of sets of positions that does what a fold does, one step after
   the other, and a loop over the positions.                               *)
Folding(it, n, base, step) ==
  \A s \in SUBSET (1 .. n) :
    it[s] = IF s = {} THEN base ELSE step[<<Max(s), it[s \ {Max(s)}]>>]

(* The same of a function that is not known to stay in V. *)
Follows(h, n, V, base, step) ==
  /\ h[{}] = base
  /\ \A s \in SUBSET (1 .. n) :
       s # {} /\ h[s \ {Max(s)}] \in V => h[s] = step[<<Max(s), h[s \ {Max(s)}]>>]

Loop(state, n, base, step, final) ==
  /\ state[0] = base /\ state[n] = final
  /\ \A i \in 1 .. n : state[i] = step[<<i, state[i - 1]>>]

(* The loop that a fold over the positions 1 .. n stands for can be run.   *)
LEMMA FoldingExists ==
  ASSUME NEW n \in Nat, NEW V, NEW base \in V, NEW step \in [(1 .. n) \X V -> V]
  PROVE  \E it \in [SUBSET (1 .. n) -> V] : Folding(it, n, base, step)
<1> DEFINE Good(m, it) ==
             /\ it \in [SUBSET (1 .. m) -> V]
             /\ \A s \in SUBSET (1 .. m) :
                  it[s] = IF s = {} THEN base ELSE step[<<Max(s), it[s \ {Max(s)}]>>]
           T == {m \in 0 .. n : \E it : Good(m, it)}
<1>1. 0 \in T
  <2>1. SUBSET (1 .. 0) = {{}}
    OBVIOUS
  <2>2. Good(0, [s \in SUBSET (1 .. 0) |-> base])
    BY <2>1
  <2> HIDE DEF Good
  <2>. QED  BY <2>2
<1>2. ASSUME NEW m \in 0 .. n - 1, m \in T PROVE m + 1 \in T
  <2>1. PICK it : Good(m, it)
    BY <1>2
  <2> DEFINE more == [s \in SUBSET (1 .. m + 1) |->
                        IF m + 1 \in s THEN step[<<m + 1, it[s \ {m + 1}]>>] ELSE it[s]]
  <2>2. ASSUME NEW s \in SUBSET (1 .. m + 1) PROVE m + 1 \notin s => s \in SUBSET (1 .. m)
    OBVIOUS
  <2>3. ASSUME NEW s \in SUBSET (1 .. m + 1)
        PROVE  more[s] \in V /\ more[s] = IF s = {} THEN base ELSE step[<<Max(s), more[s \ {Max(s)}]>>]
    <3>1. CASE m + 1 \in s
      <4>1. Max(s) = m + 1
        <5>1. m + 1 \in Nat /\ s # {}
          BY <3>1
        <5>2. Max(s) \in s /\ \A y \in s : y <= Max(s)
          BY <5>1, MaxTop
        <5>3. Max(s) \in 1 .. m + 1 /\ m + 1 <= Max(s)
          BY <5>2, <3>1
        <5>. QED  BY <5>1, <5>3
      <4>2. s \ {m + 1} \in SUBSET (1 .. m) /\ s \ {m + 1} \in SUBSET (1 .. m + 1)
        OBVIOUS
      <4>3. more[s \ {m + 1}] = it[s \ {m + 1}] /\ it[s \ {m + 1}] \in V
        BY <4>2, <2>1
      <4>4. more[s] = step[<<m + 1, it[s \ {m + 1}]>>]
        BY <3>1
      <4>5. <<m + 1, it[s \ {m + 1}]>> \in (1 .. n) \X V
        BY <4>3
      <4> HIDE DEF more, Good
      <4>. QED  BY <4>1, <4>3, <4>4, <4>5, <3>1
    <3>2. CASE m + 1 \notin s
      <4>1. s \in SUBSET (1 .. m) /\ more[s] = it[s] /\ it[s] \in V
        BY <3>2, <2>1, <2>2
      <4>2. CASE s = {}
        BY <4>1, <4>2, <2>1
      <4>3. CASE s # {}
        <5>1. s \ {Max(s)} \in SUBSET (1 .. m) /\ s \ {Max(s)} \in SUBSET (1 .. m + 1)
          BY <4>1
        <5>2. m + 1 \notin s \ {Max(s)}
          BY <3>2
        <5>3. more[s \ {Max(s)}] = it[s \ {Max(s)}]
          BY <5>1, <5>2
        <5>4. it[s] = step[<<Max(s), it[s \ {Max(s)}]>>]
          BY <4>1, <4>3, <2>1
        <5> HIDE DEF more, Good
        <5>. QED  BY <4>1, <4>3, <5>3, <5>4
      <4>. QED  BY <4>2, <4>3
    <3>. QED  BY <3>1, <3>2
  <2>4. Good(m + 1, more)
    <3>1. more \in [SUBSET (1 .. m + 1) -> V]
      BY <2>3
    <3> HIDE DEF more
    <3>. QED  BY <2>3, <3>1
  <2> HIDE DEF Good, more
  <2>5. m + 1 \in 0 .. n
    OBVIOUS
  <2>. QED  BY <2>4, <2>5
<1>3. n \in T
  <2> HIDE DEF T
  <2>. QED  BY <1>1, <1>2, TurnByTurn
<1>. QED  BY <1>3 DEF Folding

(* Before its first turn, and after each turn i, the loop is in a state of V. *)
LEMMA LoopStates ==
  ASSUME NEW n \in Nat, NEW V, NEW base \in V, NEW step \in [(1 .. n) \X V -> V], NEW h,
         Follows(h, n, V, base, step)
  PROVE  \E state \in [0 .. n -> V] : Loop(state, n, base, step, h[1 .. n])
<1> DEFINE state == [i \in 0 .. n |-> h[1 .. i]]
           T == {i \in 0 .. n : state[i] \in V}
<1>1. 1 .. 0 = {} /\ 0 \in 0 .. n /\ n \in 0 .. n
  OBVIOUS
<1>2. state[0] = base /\ state[n] = h[1 .. n]
  BY <1>1 DEF Follows
<1>3. ASSUME NEW i \in 1 .. n, state[i - 1] \in V PROVE state[i] = step[<<i, state[i - 1]>>]
  <2>1. 1 .. i \in SUBSET (1 .. n) /\ 1 .. i # {} /\ i \in 1 .. i
    OBVIOUS
  <2>2. Max(1 .. i) \in 1 .. i /\ i <= Max(1 .. i)
    BY <2>1, MaxTop
  <2>3. Max(1 .. i) = i /\ (1 .. i) \ {i} = 1 .. i - 1
    BY <2>2
  <2>4. i \in 0 .. n /\ i - 1 \in 0 .. n /\ state[i] = h[1 .. i] /\ state[i - 1] = h[1 .. i - 1]
    OBVIOUS
  <2> HIDE DEF state
  <2>. QED  BY <1>3, <2>1, <2>3, <2>4 DEF Follows
<1>4. 0 \in T
  BY <1>1, <1>2
<1>5. ASSUME NEW m \in 0 .. n - 1, m \in T PROVE m + 1 \in T
  <2>1. m + 1 \in 1 .. n /\ m + 1 \in 0 .. n /\ (m + 1) - 1 = m /\ state[m] \in V
    BY <1>5
  <2> HIDE DEF state
  <2>2. state[m + 1] = step[<<m + 1, state[m]>>]
    BY <2>1, <1>3
  <2>. QED  BY <2>1, <2>2
<1>6. \A m \in 0 .. n : state[m] \in V
  <2>1. \A m \in 0 .. n : m \in T
    <3> HIDE DEF T
    <3>. QED  BY <1>4, <1>5, TurnByTurn
  <2>. QED  BY <2>1
<1>7. state \in [0 .. n -> V]
  BY <1>6
<1>8. \A i \in 1 .. n : state[i] = step[<<i, state[i - 1]>>]
  <2>1. \A i \in 1 .. n : i - 1 \in 0 .. n
    OBVIOUS
  <2> HIDE DEF state
  <2>. QED  BY <1>3, <1>6, <2>1
<1> HIDE DEF state
<1>. QED  BY <1>2, <1>7, <1>8 DEF Loop

(* opencl_kernel.go:19-54: the states of the kernel's any-scope loop. *)
KernelStates(Value) == [previous : Value, run : Nat, best : Nat]

KernelFirst(key, allowed) ==
  [previous |-> key[1], run |-> 1, best |-> IF key[1] \in allowed THEN 1 ELSE 0]

LEMMA KernelLoop ==
  ASSUME NEW Value, NEW key \in Seq(Value), key # <<>>, NEW allowed
  PROVE  LET n == Len(key) - 1 IN
         \E state \in [0 .. n -> KernelStates(Value)] :
           /\ state[0] = KernelFirst(key, allowed)
           /\ \A i \in 1 .. n : state[i] = Measure(allowed, state[i - 1], key[i + 1])
           /\ matching_run(key, "any", allowed) = state[n].best
<1> DEFINE n == Len(key) - 1
           V == KernelStates(Value)
           base == KernelFirst(key, allowed)
           seq == Tail(key)
           Op(i, s) == Measure(allowed, s, seq[i])
           step == [p \in (1 .. n) \X V |-> Op(p[1], p[2])]
           Step(s, digit) == Measure(allowed, s, digit)
<1>0. DOMAIN seq = 1 .. n /\ \A i \in 1 .. n : seq[i] = key[i + 1] /\ seq[i] \in Value
  OBVIOUS
<1>1. n \in Nat /\ DOMAIN seq = 1 .. n /\ base \in V
  BY <1>0 DEF KernelStates, KernelFirst
<1>2. \A i \in 1 .. n, s \in V : Op(i, s) \in V
  BY <1>0 DEF Measure, KernelStates
<1> HIDE DEF n, V, Op, base, seq
<1>3. step \in [(1 .. n) \X V -> V] /\ \A i \in 1 .. n, s \in V : step[<<i, s>>] = Op(i, s)
  BY <1>2
<1> HIDE DEF step
<1>4. PICK it \in [SUBSET (1 .. n) -> V] : Folding(it, n, base, step)
  BY <1>1, <1>3, FoldingExists
<1>5. it = [s \in SUBSET (1 .. n) |-> IF s = {} THEN base ELSE Op(Max(s), it[s \ {Max(s)}])]
  <2>1. ASSUME NEW s \in SUBSET (1 .. n), s # {} PROVE it[s] = Op(Max(s), it[s \ {Max(s)}])
    <3>1. Max(s) \in 1 .. n /\ it[s \ {Max(s)}] \in V
      BY <1>1, <2>1, MaxTop
    <3>. QED  BY <1>3, <1>4, <2>1, <3>1 DEF Folding
  <2>2. it[{}] = base
    BY <1>4 DEF Folding
  <2>. QED  BY <2>1, <2>2
<1>6. PICK h : /\ h = [s \in SUBSET (1 .. n) |->
                         IF s = {} THEN base ELSE Op(Max(s), h[s \ {Max(s)}])]
               /\ FoldLeft(Step, base, seq) = h[1 .. n]
  BY <1>1, <1>5 DEF FoldLeft, MapThenFoldSet, Op
<1>7. Follows(h, n, V, base, step)
  <2>1. h[{}] = base
    BY <1>6
  <2>2. ASSUME NEW s \in SUBSET (1 .. n), s # {}, h[s \ {Max(s)}] \in V
        PROVE  h[s] = step[<<Max(s), h[s \ {Max(s)}]>>]
    <3>1. Max(s) \in 1 .. n /\ h[s] = Op(Max(s), h[s \ {Max(s)}])
      BY <1>1, <1>6, <2>2, MaxTop
    <3>. QED  BY <1>3, <2>2, <3>1
  <2>. QED  BY <2>1, <2>2 DEF Follows
<1>8. PICK state \in [0 .. n -> V] : Loop(state, n, base, step, h[1 .. n])
  BY <1>1, <1>3, <1>7, LoopStates
<1>9. \A i \in 1 .. n : state[i] = Op(i, state[i - 1])
  <2>1. ASSUME NEW i \in 1 .. n PROVE state[i - 1] \in V /\ state[i] = step[<<i, state[i - 1]>>]
    BY <1>1, <1>8 DEF Loop
  <2>. QED  BY <1>3, <2>1
<1>10. matching_run(key, "any", allowed) = FoldLeft(Step, base, seq).best
  BY DEF matching_run, KernelFirst, base, seq
<1>11. state[0] = base /\ matching_run(key, "any", allowed) = state[n].best
  BY <1>6, <1>8, <1>10 DEF Loop
<1>12. \A i \in 1 .. n : state[i] = Measure(allowed, state[i - 1], key[i + 1])
  BY <1>0, <1>9 DEF Op
<1>. QED  BY <1>8, <1>11, <1>12 DEF n, V, base

(* matcher.go:93-134: the states of the CPU's any-scope loop. *)
CPUStates(Value) ==
  [digit : Value, start : Nat, run : Nat,
   best : [RunLength : Nat, Start : Nat, Digit : Value]]

First(key, allowed) ==
  [digit |-> key[1], start |-> 0, run |-> 1,
   best |-> [RunLength |-> IF key[1] \in allowed THEN 1 ELSE 0, Start |-> 0,
             Digit |-> key[1]]]

LEMMA CPULoop ==
  ASSUME NEW Value, NEW key \in Seq(Value), key # <<>>, NEW allowed
  PROVE  LET n == Len(key) - 1 IN
         \E state \in [0 .. n -> CPUStates(Value)] :
           /\ state[0] = First(key, allowed)
           /\ \A i \in 1 .. n : state[i] = Evaluate(key, allowed, state[i - 1], i)
           /\ EvaluateKeyIDForDigits(key, "any", allowed) = state[n].best
<1> DEFINE n == Len(key) - 1
           V == CPUStates(Value)
           base == First(key, allowed)
           seq == [i \in 1 .. Len(key) - 1 |-> i]
           Op(i, s) == Evaluate(key, allowed, s, seq[i])
           step == [p \in (1 .. n) \X V |-> Op(p[1], p[2])]
           Step(s, i) == Evaluate(key, allowed, s, i)
<1>1. n \in Nat /\ DOMAIN seq = 1 .. n /\ base \in V
  BY DEF CPUStates, First
<1>2. \A i \in 1 .. n, s \in V : Op(i, s) \in V
  <2> SUFFICES ASSUME NEW i \in 1 .. n, NEW s \in V PROVE Evaluate(key, allowed, s, i) \in V
    OBVIOUS
  <2>1. key[i + 1] \in Value /\ i \in Nat
    OBVIOUS
  <2>2. s.start \in Nat /\ s.run \in Nat /\ s.best \in [RunLength : Nat, Start : Nat, Digit : Value]
    BY DEF CPUStates
  <2> HIDE DEF n, V
  <2>. QED  BY <2>1, <2>2 DEF Evaluate, CPUStates, V
<1> HIDE DEF n, V, Op, base, seq
<1>3. step \in [(1 .. n) \X V -> V] /\ \A i \in 1 .. n, s \in V : step[<<i, s>>] = Op(i, s)
  BY <1>2
<1> HIDE DEF step
<1>4. PICK it \in [SUBSET (1 .. n) -> V] : Folding(it, n, base, step)
  BY <1>1, <1>3, FoldingExists
<1>5. it = [s \in SUBSET (1 .. n) |-> IF s = {} THEN base ELSE Op(Max(s), it[s \ {Max(s)}])]
  <2>1. ASSUME NEW s \in SUBSET (1 .. n), s # {} PROVE it[s] = Op(Max(s), it[s \ {Max(s)}])
    <3>1. Max(s) \in 1 .. n /\ it[s \ {Max(s)}] \in V
      BY <1>1, <2>1, MaxTop
    <3>. QED  BY <1>3, <1>4, <2>1, <3>1 DEF Folding
  <2>2. it[{}] = base
    BY <1>4 DEF Folding
  <2>. QED  BY <2>1, <2>2
<1>6. PICK h : /\ h = [s \in SUBSET (1 .. n) |->
                         IF s = {} THEN base ELSE Op(Max(s), h[s \ {Max(s)}])]
               /\ FoldLeft(Step, base, seq) = h[1 .. n]
  BY <1>1, <1>5 DEF FoldLeft, MapThenFoldSet, Op
<1>7. Follows(h, n, V, base, step)
  <2>1. h[{}] = base
    BY <1>6
  <2>2. ASSUME NEW s \in SUBSET (1 .. n), s # {}, h[s \ {Max(s)}] \in V
        PROVE  h[s] = step[<<Max(s), h[s \ {Max(s)}]>>]
    <3>1. Max(s) \in 1 .. n /\ h[s] = Op(Max(s), h[s \ {Max(s)}])
      BY <1>1, <1>6, <2>2, MaxTop
    <3>. QED  BY <1>3, <2>2, <3>1
  <2>. QED  BY <2>1, <2>2 DEF Follows
<1>8. PICK state \in [0 .. n -> V] : Loop(state, n, base, step, h[1 .. n])
  BY <1>1, <1>3, <1>7, LoopStates
<1>9. \A i \in 1 .. n : state[i] = Op(i, state[i - 1])
  <2>1. ASSUME NEW i \in 1 .. n PROVE state[i - 1] \in V /\ state[i] = step[<<i, state[i - 1]>>]
    BY <1>1, <1>8 DEF Loop
  <2>. QED  BY <1>3, <2>1
<1>10. EvaluateKeyIDForDigits(key, "any", allowed) = FoldLeft(Step, base, seq).best
  BY DEF EvaluateKeyIDForDigits, First, base, seq
<1>11. \A i \in 1 .. n : seq[i] = i
  BY DEF n, seq
<1>12. state[0] = base /\ EvaluateKeyIDForDigits(key, "any", allowed) = state[n].best
  BY <1>6, <1>8, <1>10 DEF Loop
<1>13. \A i \in 1 .. n : state[i] = Evaluate(key, allowed, state[i - 1], i)
  BY <1>9, <1>11 DEF Op
<1>. QED  BY <1>8, <1>12, <1>13 DEF n, V, base

(* The states of the suffix loop. *)
CountStates == [run : Nat, counting : BOOLEAN]

LEMMA CountLoop ==
  ASSUME NEW Value, NEW key \in Seq(Value), key # <<>>
  PROVE  LET n == Len(key) - 1 IN
         \E state \in [0 .. n -> CountStates] :
           /\ state[0] = [run |-> 1, counting |-> TRUE]
           /\ \A i \in 1 .. n :
                state[i] = IF state[i - 1].counting /\ key[Len(key) - i] = Last(key)
                           THEN [state[i - 1] EXCEPT !.run = @ + 1]
                           ELSE [state[i - 1] EXCEPT !.counting = FALSE]
           /\ TrailingRun(key) = state[n].run
<1> DEFINE n == Len(key) - 1
           V == CountStates
           base == [run |-> 1, counting |-> TRUE]
           seq == Tail(Reverse(key))
           Op(i, s) == IF s.counting /\ seq[i] = Last(key)
                       THEN [s EXCEPT !.run = @ + 1] ELSE [s EXCEPT !.counting = FALSE]
           step == [p \in (1 .. n) \X V |-> Op(p[1], p[2])]
<1>0. DOMAIN seq = 1 .. n /\ \A i \in 1 .. n : seq[i] = key[Len(key) - i]
  <2>1. /\ Reverse(key) \in Seq(Value) /\ Len(Reverse(key)) = Len(key)
        /\ \A i \in 1 .. Len(key) : Reverse(key)[i] = key[Len(key) - i + 1]
    BY DEF Reverse
  <2>2. Reverse(key) # <<>>
    BY <2>1
  <2> HIDE DEF seq
  <2>3. Len(seq) = n /\ seq \in Seq(Value) /\ \A i \in 1 .. n : seq[i] = Reverse(key)[i + 1]
    BY <2>1, <2>2 DEF seq
  <2>. QED  BY <2>1, <2>3
<1>1. n \in Nat /\ DOMAIN seq = 1 .. n /\ base \in V
  BY <1>0 DEF CountStates
<1>2. \A i \in 1 .. n, s \in V : Op(i, s) \in V
  <2>1. ASSUME NEW s \in V PROVE [s EXCEPT !.run = @ + 1] \in V
    BY DEF CountStates
  <2>2. ASSUME NEW s \in V PROVE [s EXCEPT !.counting = FALSE] \in V
    BY DEF CountStates
  <2>. QED  BY <2>1, <2>2
<1> HIDE DEF n, V, Op, base, seq
<1>3. step \in [(1 .. n) \X V -> V] /\ \A i \in 1 .. n, s \in V : step[<<i, s>>] = Op(i, s)
  BY <1>2
<1> HIDE DEF step
<1>4. PICK it \in [SUBSET (1 .. n) -> V] : Folding(it, n, base, step)
  BY <1>1, <1>3, FoldingExists
<1>5. it = [s \in SUBSET (1 .. n) |-> IF s = {} THEN base ELSE Op(Max(s), it[s \ {Max(s)}])]
  <2>1. ASSUME NEW s \in SUBSET (1 .. n), s # {} PROVE it[s] = Op(Max(s), it[s \ {Max(s)}])
    <3>1. Max(s) \in 1 .. n /\ it[s \ {Max(s)}] \in V
      BY <1>1, <2>1, MaxTop
    <3>. QED  BY <1>3, <1>4, <2>1, <3>1 DEF Folding
  <2>2. it[{}] = base
    BY <1>4 DEF Folding
  <2>. QED  BY <2>1, <2>2
<1>6. PICK h : /\ h = [s \in SUBSET (1 .. n) |->
                         IF s = {} THEN base ELSE Op(Max(s), h[s \ {Max(s)}])]
               /\ TrailingRun(key) = h[1 .. n].run
  BY <1>1, <1>5 DEF FoldLeft, MapThenFoldSet, TrailingRun, Op, base, seq
<1>7. Follows(h, n, V, base, step)
  <2>1. h[{}] = base
    BY <1>6
  <2>2. ASSUME NEW s \in SUBSET (1 .. n), s # {}, h[s \ {Max(s)}] \in V
        PROVE  h[s] = step[<<Max(s), h[s \ {Max(s)}]>>]
    <3>1. Max(s) \in 1 .. n /\ h[s] = Op(Max(s), h[s \ {Max(s)}])
      BY <1>1, <1>6, <2>2, MaxTop
    <3>. QED  BY <1>3, <2>2, <3>1
  <2>. QED  BY <2>1, <2>2 DEF Follows
<1>8. PICK state \in [0 .. n -> V] : Loop(state, n, base, step, h[1 .. n])
  BY <1>1, <1>3, <1>7, LoopStates
<1>9. \A i \in 1 .. n : state[i] = Op(i, state[i - 1])
  <2>1. ASSUME NEW i \in 1 .. n PROVE state[i - 1] \in V /\ state[i] = step[<<i, state[i - 1]>>]
    BY <1>1, <1>8 DEF Loop
  <2>. QED  BY <1>3, <2>1
<1>10. state[0] = base /\ TrailingRun(key) = state[n].run
  BY <1>6, <1>8 DEF Loop
<1>11. \A i \in 1 .. n :
         state[i] = IF state[i - 1].counting /\ key[Len(key) - i] = Last(key)
                    THEN [state[i - 1] EXCEPT !.run = @ + 1]
                    ELSE [state[i - 1] EXCEPT !.counting = FALSE]
  BY <1>0, <1>9 DEF Op
<1>. QED  BY <1>8, <1>10, <1>11 DEF n, V, base

(* The stretch of equal digits that ends with digit i has r digits. *)
Stretch(key, i, r) ==
  /\ r \in 1 .. i
  /\ \A k \in i - r + 1 .. i : key[k] = key[i]
  /\ r = i \/ key[i - r] # key[i]

(* Of the runs within the first i digits, none is longer than the one of n
   digits at start, and of those that are as long none starts later.       *)
BestWithin(key, allowed, i, n, start) ==
  /\ n \in Nat /\ start \in Nat /\ start + n <= i
  /\ IsRun(key, "any", allowed, start, n)
  /\ \A m, j \in Nat : j + m <= i /\ IsRun(key, "any", allowed, j, m) =>
       /\ m <= n
       /\ n > 0 /\ m = n => j <= start

LEMMA StretchFirst ==
  ASSUME NEW Value, NEW key \in Seq(Value), key # <<>>
  PROVE  Stretch(key, 1, 1)
BY DEF Stretch

LEMMA StretchNext ==
  ASSUME NEW Value, NEW key \in Seq(Value), NEW i \in 1 .. Len(key) - 1, NEW r,
         Stretch(key, i, r)
  PROVE  Stretch(key, i + 1, IF key[i + 1] = key[i] THEN r + 1 ELSE 1)
<1>1. CASE key[i + 1] # key[i]
  BY <1>1 DEF Stretch
<1>2. CASE key[i + 1] = key[i]
  <2>1. r \in 1 .. i /\ r + 1 \in 1 .. i + 1
    BY DEF Stretch
  <2>2. ASSUME NEW k \in (i + 1) - (r + 1) + 1 .. i + 1 PROVE key[k] = key[i + 1]
    BY <1>2, <2>1 DEF Stretch
  <2>3. r + 1 = i + 1 \/ key[(i + 1) - (r + 1)] # key[i + 1]
    <3>1. (i + 1) - (r + 1) = i - r
      BY <2>1
    <3>. QED  BY <1>2, <2>1, <3>1 DEF Stretch
  <2>. QED  BY <1>2, <2>1, <2>2, <2>3 DEF Stretch
<1>. QED  BY <1>1, <1>2

LEMMA BestFirst ==
  ASSUME NEW Value, NEW key \in Seq(Value), key # <<>>, NEW allowed
  PROVE  BestWithin(key, allowed, 1, IF key[1] \in allowed THEN 1 ELSE 0, 0)
<1>1. ASSUME NEW m \in Nat, NEW j \in Nat, j + m <= 1, IsRun(key, "any", allowed, j, m), m # 0
      PROVE  m = 1 /\ j = 0 /\ key[1] \in allowed
  BY <1>1 DEF IsRun
<1>2. IsRun(key, "any", allowed, 0, IF key[1] \in allowed THEN 1 ELSE 0)
  BY DEF IsRun
<1>. QED  BY <1>1, <1>2 DEF BestWithin

LEMMA BestNext ==
  ASSUME NEW Value, NEW key \in Seq(Value), NEW i \in 1 .. Len(key) - 1, NEW allowed,
         NEW n, NEW start, BestWithin(key, allowed, i, n, start),
         NEW r, Stretch(key, i + 1, r)
  PROVE  /\ key[i + 1] \in allowed /\ r >= n => BestWithin(key, allowed, i + 1, r, i + 1 - r)
         /\ ~(key[i + 1] \in allowed /\ r >= n) => BestWithin(key, allowed, i + 1, n, start)
         /\ r = n => i + 1 - r > start
<1>1. /\ n \in Nat /\ start \in Nat /\ start + n <= i /\ r \in 1 .. i + 1
      /\ IsRun(key, "any", allowed, start, n)
  BY DEF BestWithin, Stretch
<1>2. ASSUME NEW m \in Nat, NEW j \in Nat, j + m = i + 1, m # 0,
             IsRun(key, "any", allowed, j, m)
      PROVE  m <= r /\ key[i + 1] \in allowed
  <2>1. /\ i + 1 \in j + 1 .. j + m
        /\ \A k \in j + 1 .. i + 1 : key[k] \in allowed /\ key[k] = key[j + 1]
    BY <1>2 DEF IsRun
  <2>2. SUFFICES ASSUME m > r PROVE FALSE
    BY <1>1, <2>1
  <2>3. i + 1 - r \in j + 1 .. i + 1 /\ r # i + 1
    BY <1>1, <1>2, <2>2
  <2>4. key[i + 1 - r] = key[i + 1]
    BY <2>1, <2>3
  <2>. QED  BY <2>3, <2>4 DEF Stretch
<1>3. ASSUME NEW m \in Nat, NEW j \in Nat, j + m <= i, IsRun(key, "any", allowed, j, m)
      PROVE  m <= n /\ (n > 0 /\ m = n => j <= start)
  BY <1>3 DEF BestWithin
<1>4. ASSUME key[i + 1] \in allowed, r >= n
      PROVE  BestWithin(key, allowed, i + 1, r, i + 1 - r)
  <2>1. IsRun(key, "any", allowed, i + 1 - r, r)
    <3>1. \A k \in i + 1 - r + 1 .. i + 1 : key[k] = key[i + 1]
      BY DEF Stretch
    <3>2. (i + 1 - r) + r = i + 1 /\ i + 1 - r + 1 \in i + 1 - r + 1 .. i + 1
      BY <1>1
    <3>. QED  BY <1>4, <3>1, <3>2 DEF IsRun
  <2>2. ASSUME NEW m \in Nat, NEW j \in Nat, j + m <= i + 1, IsRun(key, "any", allowed, j, m)
        PROVE  m <= r /\ (m = r => j <= i + 1 - r)
    <3>1. CASE j + m = i + 1
      BY <1>1, <1>2, <2>2, <3>1
    <3>2. CASE j + m <= i
      BY <1>1, <1>3, <1>4, <2>2, <3>2
    <3>. QED  BY <2>2, <3>1, <3>2
  <2>. QED  BY <1>1, <2>1, <2>2 DEF BestWithin
<1>5. ASSUME ~(key[i + 1] \in allowed /\ r >= n)
      PROVE  BestWithin(key, allowed, i + 1, n, start)
  <2>1. ASSUME NEW m \in Nat, NEW j \in Nat, j + m <= i + 1, IsRun(key, "any", allowed, j, m)
        PROVE  m <= n /\ (n > 0 /\ m = n => j <= start)
    <3>1. CASE j + m = i + 1 /\ m # 0
      BY <1>1, <1>2, <1>5, <2>1, <3>1
    <3>2. CASE j + m <= i
      BY <1>3, <2>1, <3>2
    <3>3. CASE m = 0
      BY <1>1, <3>3
    <3>. QED  BY <2>1, <3>1, <3>2, <3>3
  <2>. QED  BY <1>1, <2>1 DEF BestWithin
<1>. QED  BY <1>1, <1>4, <1>5

(* The definition that the matchers are compared with, from the invariant of
   their loops after the last digit.                                       *)
LEMMA LongestAny ==
  ASSUME NEW Value, NEW key \in Seq(Value), NEW allowed, NEW n, NEW start,
         BestWithin(key, allowed, Len(key), n, start)
  PROVE  /\ LongestRun(key, "any", allowed) = n
         /\ n > 0 => LastStart(key, "any", allowed) = start
<1> DEFINE lengths == RunLengths(key, "any", allowed)
           places == {i \in 0 .. Len(key) - 1 : IsRun(key, "any", allowed, i, n)}
<1>1. n \in Nat /\ start \in Nat /\ start + n <= Len(key) /\ Len(key) \in Nat
  BY DEF BestWithin
<1>2. n \in lengths /\ \A m \in lengths : m <= n
  <2>1. ASSUME NEW i \in 0 .. Len(key), NEW m \in 0 .. Len(key), IsRun(key, "any", allowed, i, m)
        PROVE  m <= n
    <3>1. i + m <= Len(key) /\ i \in Nat /\ m \in Nat
      BY <2>1 DEF IsRun
    <3>. QED  BY <2>1, <3>1 DEF BestWithin
  <2>. QED  BY <1>1, <2>1 DEF BestWithin, RunLengths
<1>3. lengths \subseteq Nat
  BY DEF RunLengths
<1>4. LongestRun(key, "any", allowed) = n
  <2> HIDE DEF lengths
  <2>1. \A m \in lengths : (\A k \in lengths : k <= m) => m = n
    BY <1>1, <1>2, <1>3
  <2>2. LongestRun(key, "any", allowed) = CHOOSE m \in lengths : \A k \in lengths : k <= m
    BY DEF LongestRun, lengths
  <2>. QED  BY <1>2, <2>1, <2>2
<1>5. ASSUME n > 0 PROVE LastStart(key, "any", allowed) = start
  <2>1. ASSUME NEW j \in places PROVE j <= start
    <3>1. j + n <= Len(key) /\ j \in Nat /\ IsRun(key, "any", allowed, j, n)
      BY <2>1 DEF IsRun
    <3>. QED  BY <1>1, <1>5, <3>1 DEF BestWithin
  <2>0. start \in places
    BY <1>1, <1>5 DEF BestWithin
  <2>2. LastStart(key, "any", allowed) = CHOOSE i \in places : \A j \in places : j <= i
    BY <1>4 DEF LastStart
  <2>3. places \subseteq Nat
    OBVIOUS
  <2> HIDE DEF places
  <2>4. \A i \in places : (\A j \in places : j <= i) => i = start
    BY <1>1, <2>0, <2>1, <2>3
  <2>. QED  BY <2>0, <2>1, <2>2, <2>4
<1>. QED  BY <1>4, <1>5

LEMMA LongestSuffix ==
  ASSUME NEW Value, NEW key \in Seq(Value), key # <<>>, NEW allowed, NEW r,
         Stretch(key, Len(key), r)
  PROVE  /\ LongestRun(key, "suffix", allowed) = IF Last(key) \in allowed THEN r ELSE 0
         /\ Last(key) \in allowed => LastStart(key, "suffix", allowed) = Len(key) - r
<1> DEFINE lengths == RunLengths(key, "suffix", allowed)
           n == IF Last(key) \in allowed THEN r ELSE 0
           places == {i \in 0 .. Len(key) - 1 : IsRun(key, "suffix", allowed, i, n)}
           top == Len(key)
<1>1. top \in Nat \ {0} /\ r \in 1 .. top /\ n \in 0 .. top /\ Last(key) = key[top]
  BY DEF Stretch, Last
<1>2. IsRun(key, "suffix", allowed, top - n, n)
  <2>1. \A k \in top - r + 1 .. top : key[k] = key[top]
    BY DEF Stretch
  <2>2. top - r + 1 \in top - r + 1 .. top /\ (top - r) + r = top
    BY <1>1
  <2>3. CASE Last(key) \in allowed
    BY <1>1, <2>1, <2>2, <2>3 DEF IsRun
  <2>4. CASE Last(key) \notin allowed
    BY <1>1, <2>4 DEF IsRun
  <2>. QED  BY <2>3, <2>4
<1>3. ASSUME NEW m \in Nat, NEW i \in Nat, IsRun(key, "suffix", allowed, i, m)
      PROVE  m <= n /\ i + m = top
  <2>1. i + m = top
    BY <1>3 DEF IsRun
  <2>2. SUFFICES ASSUME m # 0 PROVE m <= n
    BY <1>1, <2>1
  <2>3. /\ top \in i + 1 .. top
        /\ \A k \in i + 1 .. top : key[k] \in allowed /\ key[k] = key[i + 1]
    BY <1>1, <1>3, <2>1, <2>2 DEF IsRun
  <2>4. SUFFICES ASSUME m > r PROVE FALSE
    BY <1>1, <2>3
  <2>5. top - r \in i + 1 .. top /\ r # top
    BY <1>1, <2>1, <2>4
  <2>6. key[top - r] = key[top]
    BY <2>3, <2>5
  <2>. QED  BY <2>5, <2>6 DEF Stretch
<1>4. n \in lengths /\ (\A m \in lengths : m <= n) /\ lengths \subseteq Nat
  BY <1>1, <1>2, <1>3 DEF RunLengths
<1>5. LongestRun(key, "suffix", allowed) = n
  <2>1. LongestRun(key, "suffix", allowed) = CHOOSE m \in lengths : \A k \in lengths : k <= m
    BY DEF LongestRun
  <2> HIDE DEF lengths, n
  <2>2. \A m \in lengths : (\A k \in lengths : k <= m) => m = n
    BY <1>4
  <2>. QED  BY <1>4, <2>1, <2>2
<1>6. ASSUME Last(key) \in allowed
      PROVE  LastStart(key, "suffix", allowed) = top - n
  <2>1. top - n \in places /\ \A j \in places : j = top - n
    BY <1>1, <1>2, <1>3, <1>6
  <2>2. LastStart(key, "suffix", allowed) = CHOOSE i \in places : \A j \in places : j <= i
    BY <1>5 DEF LastStart
  <2>3. top - n \in Nat
    BY <1>1
  <2> HIDE DEF places, n
  <2>. QED  BY <2>1, <2>2, <2>3
<1>. QED  BY <1>5, <1>6

(* matcher.go:93-134, opencl_kernel.go:28-35: the suffix loop counts the last
   stretch of equal digits.                                                *)
LEMMA TrailingStretch ==
  ASSUME NEW Value, NEW key \in Seq(Value), key # <<>>
  PROVE  Stretch(key, Len(key), TrailingRun(key))
<1> DEFINE n == Len(key) - 1
           top == Len(key)
<1>1. PICK state \in [0 .. n -> CountStates] :
        /\ state[0] = [run |-> 1, counting |-> TRUE]
        /\ \A i \in 1 .. n :
             state[i] = IF state[i - 1].counting /\ key[top - i] = Last(key)
                        THEN [state[i - 1] EXCEPT !.run = @ + 1]
                        ELSE [state[i - 1] EXCEPT !.counting = FALSE]
        /\ TrailingRun(key) = state[n].run
  BY CountLoop
<1>2. top \in Nat \ {0} /\ n \in Nat /\ Last(key) = key[top] /\ top = n + 1
  BY DEF Last
<1> DEFINE Kept(i) ==
      /\ state[i].run \in 1 .. i + 1
      /\ \A k \in top - state[i].run + 1 .. top : key[k] = key[top]
      /\ state[i].counting => state[i].run = i + 1
      /\ ~state[i].counting => state[i].run <= i /\ key[top - state[i].run] # key[top]
           T == {i \in 0 .. n : Kept(i)}
<1> HIDE DEF n, top
<1>3. 0 \in T
  <2>1. state[0].run = 1 /\ state[0].counting = TRUE
    BY <1>1
  <2>2. \A k \in top - 1 + 1 .. top : key[k] = key[top]
    BY <1>2
  <2>. QED  BY <1>2, <2>1, <2>2
<1>4. ASSUME NEW m \in 0 .. n - 1, m \in T PROVE m + 1 \in T
  <2>1. m + 1 \in 1 .. n /\ (m + 1) - 1 = m /\ m \in 0 .. n /\ m + 1 \in 0 .. n
    BY <1>2
  <2>2. state[m] \in CountStates /\ state[m].run \in Nat /\ state[m].counting \in BOOLEAN
    BY <1>1, <2>1 DEF CountStates
  <2>3. state[m + 1] = IF state[m].counting /\ key[top - (m + 1)] = Last(key)
                       THEN [state[m] EXCEPT !.run = @ + 1]
                       ELSE [state[m] EXCEPT !.counting = FALSE]
    BY <1>1, <2>1
  <2>4. CASE state[m].counting /\ key[top - (m + 1)] = key[top]
    <3>1. state[m + 1].run = state[m].run + 1 /\ state[m + 1].counting = state[m].counting
      BY <1>2, <2>2, <2>3, <2>4 DEF CountStates
    <3>2. state[m].run = m + 1 /\ \A k \in top - (m + 1) + 1 .. top : key[k] = key[top]
      BY <1>4, <2>4
    <3>3. \A k \in top - (m + 2) + 1 .. top : k = top - (m + 1) \/ k \in top - (m + 1) + 1 .. top
      BY <1>2, <2>1
    <3>4. Kept(m + 1)
      BY <2>1, <2>4, <3>1, <3>2, <3>3
    <3>. QED  BY <2>1, <3>4
  <2>5. CASE ~(state[m].counting /\ key[top - (m + 1)] = key[top])
    <3>1. state[m + 1].run = state[m].run /\ ~state[m + 1].counting
      BY <1>2, <2>2, <2>3, <2>5 DEF CountStates
    <3>2. state[m].run <= m + 1 /\ key[top - state[m].run] # key[top]
      BY <1>4, <2>1, <2>2, <2>5
    <3>3. Kept(m + 1)
      BY <1>4, <2>1, <3>1, <3>2
    <3>. QED  BY <2>1, <3>3
  <2>. QED  BY <2>4, <2>5
<1>5. Kept(n)
  <2>1. \A m \in 0 .. n : m \in T
    <3> HIDE DEF T
    <3>. QED  BY <1>2, <1>3, <1>4, TurnByTurn
  <2>. QED  BY <1>2, <2>1
<1>. QED  BY <1>1, <1>2, <1>5 DEF Stretch, top

(* The digit of a match is the one at the place of the match.              *)
Placed(key, match) == match.Digit = key[match.Start + 1]

(* matcher.go:109-134: after each digit the CPU's loop knows the stretch that
   ends there and the best run within the digits so far.                   *)
LEMMA CPUAny ==
  ASSUME NEW Value, NEW key \in Seq(Value), key # <<>>, NEW allowed,
         NEW state \in [0 .. Len(key) - 1 -> CPUStates(Value)],
         state[0] = First(key, allowed),
         \A i \in 1 .. Len(key) - 1 : state[i] = Evaluate(key, allowed, state[i - 1], i)
  PROVE  \A i \in 0 .. Len(key) - 1 :
           /\ state[i].digit = key[i + 1] /\ state[i].start = i + 1 - state[i].run
           /\ Stretch(key, i + 1, state[i].run)
           /\ BestWithin(key, allowed, i + 1, state[i].best.RunLength, state[i].best.Start)
           /\ Placed(key, state[i].best)
<1> DEFINE Kept(i) ==
      /\ state[i].digit = key[i + 1] /\ state[i].start = i + 1 - state[i].run
      /\ Stretch(key, i + 1, state[i].run)
      /\ BestWithin(key, allowed, i + 1, state[i].best.RunLength, state[i].best.Start)
      /\ Placed(key, state[i].best)
           n == Len(key) - 1
           T == {i \in 0 .. n : Kept(i)}
<1>1. n \in Nat /\ 0 \in 0 .. n
  OBVIOUS
<1>2. 0 \in T
  <2>1. /\ state[0].digit = key[1] /\ state[0].start = 0 /\ state[0].run = 1
        /\ state[0].best.RunLength = (IF key[1] \in allowed THEN 1 ELSE 0)
        /\ state[0].best.Start = 0 /\ state[0].best.Digit = key[1]
    BY DEF First
  <2>2. Kept(0)
    BY <2>1, StretchFirst, BestFirst DEF Placed
  <2>. QED  BY <1>1, <2>2
<1>3. ASSUME NEW m \in 0 .. n - 1, m \in T PROVE m + 1 \in T
  <2>1. m + 1 \in 1 .. n /\ (m + 1) - 1 = m /\ m \in 0 .. n /\ m + 1 \in 0 .. n
    OBVIOUS
  <2>2. m + 1 \in 1 .. Len(key) - 1 /\ Kept(m) /\ state[m] \in CPUStates(Value)
    BY <1>3, <2>1
  <2> DEFINE run == IF key[(m + 1) + 1] = key[m + 1] THEN state[m].run + 1 ELSE 1
             best == state[m].best
             better == key[(m + 1) + 1] \in allowed /\ run >= best.RunLength
  <2>3. /\ state[m].run \in 1 .. m + 1 /\ run \in 1 .. m + 2
        /\ best.RunLength \in Nat /\ best.Start \in Nat
    BY <2>2 DEF Stretch, BestWithin
  <2>4. Stretch(key, (m + 1) + 1, run)
    BY <2>2, StretchNext
  <2>5. /\ better => BestWithin(key, allowed, (m + 1) + 1, run, (m + 1) + 1 - run)
        /\ ~better => BestWithin(key, allowed, (m + 1) + 1, best.RunLength, best.Start)
        /\ run = best.RunLength => (m + 1) + 1 - run > best.Start
    <3> HIDE DEF run, n
    <3>. QED  BY <2>2, <2>4, BestNext
  <2>6. state[m + 1] = Evaluate(key, allowed, state[m], m + 1)
    BY <2>1
  <2>7. /\ state[m + 1].digit = key[(m + 1) + 1]
        /\ state[m + 1].run = run
        /\ state[m + 1].start = (m + 1) + 1 - run
    <3>1. /\ state[m + 1].digit = key[(m + 1) + 1]
          /\ state[m + 1].run = IF key[(m + 1) + 1] = state[m].digit
                                THEN state[m].run + 1 ELSE 1
          /\ state[m + 1].start = IF key[(m + 1) + 1] = state[m].digit
                                  THEN state[m].start ELSE m + 1
      BY <2>6 DEF Evaluate
    <3>2. state[m].digit = key[m + 1] /\ state[m].start = m + 1 - state[m].run
      BY <2>2
    <3>. QED  BY <2>3, <3>1, <3>2
  <2>8. state[m + 1].best = IF better
                            THEN [RunLength |-> run, Start |-> (m + 1) + 1 - run,
                                  Digit |-> key[(m + 1) + 1]]
                            ELSE best
    <3>1. state[m + 1].best =
            IF /\ key[(m + 1) + 1] \in allowed
               /\ \/ state[m + 1].run > best.RunLength
                  \/ state[m + 1].run = best.RunLength /\ state[m + 1].start > best.Start
            THEN [RunLength |-> state[m + 1].run, Start |-> state[m + 1].start,
                  Digit |-> state[m + 1].digit]
            ELSE best
      BY <2>6 DEF Evaluate
    <3> HIDE DEF run, best
    <3>. QED  BY <2>3, <2>5, <2>7, <3>1
  <2>9. key[(m + 1) + 1 - run + 1] = key[(m + 1) + 1]
    <3> HIDE DEF run
    <3>1. (m + 1) + 1 - run + 1 \in (m + 1) + 1 - run + 1 .. (m + 1) + 1
      BY <2>3
    <3>. QED  BY <2>4, <3>1 DEF Stretch
  <2>10. Kept(m + 1)
    <3> HIDE DEF run, best
    <3>1. CASE better
      BY <2>4, <2>5, <2>7, <2>8, <2>9, <3>1 DEF Placed
    <3>2. CASE ~better
      BY <2>2, <2>4, <2>5, <2>7, <2>8, <3>2 DEF best
    <3>. QED  BY <3>1, <3>2
  <2>. QED  BY <2>1, <2>10
<1>. QED
  <2>1. \A m \in 0 .. n : m \in T
    <3> HIDE DEF T, n
    <3>. QED  BY <1>1, <1>2, <1>3, TurnByTurn
  <2>. QED  BY <2>1

(* opencl_kernel.go:36-54: the kernel's loop goes through the CPU's states,
   of which it keeps the last digit, the run and the best length.          *)
LEMMA KernelAny ==
  ASSUME NEW Value, NEW key \in Seq(Value), key # <<>>, NEW allowed
  PROVE  matching_run(key, "any", allowed) = EvaluateKeyIDForDigits(key, "any", allowed).RunLength
<1> DEFINE n == Len(key) - 1
<1>1. n \in Nat
  OBVIOUS
<1>2. PICK kernel \in [0 .. n -> KernelStates(Value)] :
        /\ kernel[0] = KernelFirst(key, allowed)
        /\ \A i \in 1 .. n : kernel[i] = Measure(allowed, kernel[i - 1], key[i + 1])
        /\ matching_run(key, "any", allowed) = kernel[n].best
  BY KernelLoop
<1>3. PICK cpu \in [0 .. n -> CPUStates(Value)] :
        /\ cpu[0] = First(key, allowed)
        /\ \A i \in 1 .. n : cpu[i] = Evaluate(key, allowed, cpu[i - 1], i)
        /\ EvaluateKeyIDForDigits(key, "any", allowed) = cpu[n].best
  BY CPULoop
<1> DEFINE Same(i) == /\ kernel[i].previous = cpu[i].digit /\ kernel[i].run = cpu[i].run
                      /\ kernel[i].best = cpu[i].best.RunLength
           T == {i \in 0 .. n : Same(i)}
<1>4. 0 \in T
  <2>1. Same(0)
    <3>1. /\ kernel[0].previous = key[1] /\ kernel[0].run = 1
          /\ kernel[0].best = (IF key[1] \in allowed THEN 1 ELSE 0)
      BY <1>2 DEF KernelFirst
    <3>2. /\ cpu[0].digit = key[1] /\ cpu[0].run = 1
          /\ cpu[0].best.RunLength = (IF key[1] \in allowed THEN 1 ELSE 0)
      BY <1>3 DEF First
    <3>. QED  BY <3>1, <3>2
  <2>. QED  BY <1>1, <2>1
<1>5. ASSUME NEW m \in 0 .. n - 1, m \in T PROVE m + 1 \in T
  <2>1. /\ m + 1 \in 1 .. n /\ (m + 1) - 1 = m /\ m \in 0 .. n /\ m + 1 \in 0 .. n
        /\ Same(m) /\ cpu[m] \in CPUStates(Value)
    BY <1>1, <1>5
  <2>2. /\ kernel[m + 1] = Measure(allowed, kernel[m], key[(m + 1) + 1])
        /\ cpu[m + 1] = Evaluate(key, allowed, cpu[m], m + 1)
    BY <1>2, <1>3, <2>1
  <2> DEFINE digit == key[(m + 1) + 1]
             run == IF digit = cpu[m].digit THEN cpu[m].run + 1 ELSE 1
             best == cpu[m].best
  <2>3. /\ kernel[m + 1].previous = digit /\ kernel[m + 1].run = run
        /\ kernel[m + 1].best = IF digit \in allowed /\ run > best.RunLength
                                THEN run ELSE best.RunLength
    BY <2>1, <2>2 DEF Measure
  <2>4. /\ cpu[m + 1].digit = digit /\ cpu[m + 1].run = run
        /\ cpu[m + 1].best =
             IF /\ digit \in allowed
                /\ \/ run > best.RunLength
                   \/ run = best.RunLength /\ cpu[m + 1].start > best.Start
             THEN [RunLength |-> run, Start |-> cpu[m + 1].start, Digit |-> digit]
             ELSE best
    BY <2>2 DEF Evaluate
  <2>5. run \in Nat /\ best.RunLength \in Nat
    BY <2>1 DEF CPUStates
  <2>6. Same(m + 1)
    <3> HIDE DEF digit, run, best
    <3>1. cpu[m + 1].best.RunLength = IF digit \in allowed /\ run > best.RunLength
                                      THEN run ELSE best.RunLength
      BY <2>4, <2>5
    <3>. QED  BY <2>3, <2>4, <3>1
  <2>. QED  BY <2>1, <2>6
<1>6. Same(n)
  <2>1. \A m \in 0 .. n : m \in T
    <3> HIDE DEF T, n
    <3>. QED  BY <1>1, <1>4, <1>5, TurnByTurn
  <2>. QED  BY <1>1, <2>1
<1>. QED  BY <1>2, <1>3, <1>6

(* matcher.go:93-134, opencl_kernel.go:19-54, for every key ID and criteria:
   both measure the longest admissible run, and the CPU places it last and
   reports its digit.                                                      *)
LEMMA Measured ==
  ASSUME NEW Value, NEW key \in Seq(Value), key # <<>>, NEW scope \in Scopes, NEW allowed
  PROVE  LET match == EvaluateKeyIDForDigits(key, scope, allowed)
             longest == LongestRun(key, scope, allowed)
         IN  /\ match.RunLength = longest
             /\ matching_run(key, scope, allowed) = longest
             /\ longest > 0 => match.Start = LastStart(key, scope, allowed)
             /\ match.Digit = key[match.Start + 1]
<1>1. CASE scope = "any"
  <2> DEFINE n == Len(key) - 1
  <2>1. PICK state \in [0 .. n -> CPUStates(Value)] :
          /\ state[0] = First(key, allowed)
          /\ \A i \in 1 .. n : state[i] = Evaluate(key, allowed, state[i - 1], i)
          /\ EvaluateKeyIDForDigits(key, "any", allowed) = state[n].best
    BY CPULoop
  <2>2. n \in 0 .. n /\ n + 1 = Len(key)
    OBVIOUS
  <2>3. BestWithin(key, allowed, Len(key), state[n].best.RunLength, state[n].best.Start)
    <3>1. \A i \in 0 .. n :
            BestWithin(key, allowed, i + 1, state[i].best.RunLength, state[i].best.Start)
      BY <2>1, CPUAny
    <3> HIDE DEF n
    <3>. QED  BY <2>2, <3>1
  <2>4. /\ LongestRun(key, "any", allowed) = state[n].best.RunLength
        /\ state[n].best.RunLength > 0 => LastStart(key, "any", allowed) = state[n].best.Start
    BY <2>3, LongestAny
  <2>5. Placed(key, state[n].best)
    <3>1. \A i \in 0 .. n : Placed(key, state[i].best)
      BY <2>1, CPUAny
    <3> HIDE DEF n
    <3>. QED  BY <2>2, <3>1
  <2>. QED  BY <1>1, <2>1, <2>4, <2>5, KernelAny DEF Placed
<1>2. CASE scope = "suffix"
  <2>1. Stretch(key, Len(key), TrailingRun(key))
    BY TrailingStretch
  <2>2. /\ LongestRun(key, "suffix", allowed) =
             IF Last(key) \in allowed THEN TrailingRun(key) ELSE 0
        /\ Last(key) \in allowed =>
             LastStart(key, "suffix", allowed) = Len(key) - TrailingRun(key)
    BY <2>1, LongestSuffix
  <2>3. LET match == EvaluateKeyIDForDigits(key, "suffix", allowed)
        IN  match.Digit = key[match.Start + 1]
    <3> DEFINE run == TrailingRun(key)  last == Len(key)
    <3>1. /\ run \in 1 .. last /\ last \in Nat /\ Last(key) = key[last]
          /\ \A k \in last - run + 1 .. last : key[k] = key[last]
      BY <2>1 DEF Stretch, Last
    <3> HIDE DEF run, last
    <3>2. key[last - run + 1] = key[last] /\ last - 1 + 1 = last
      BY <3>1
    <3>3. CASE Last(key) \in allowed
      BY <3>1, <3>2, <3>3 DEF EvaluateKeyIDForDigits, run, last
    <3>4. CASE Last(key) \notin allowed
      BY <3>1, <3>2, <3>4 DEF EvaluateKeyIDForDigits, last
    <3>. QED  BY <3>3, <3>4
  <2>. QED  BY <1>2, <2>2, <2>3 DEF EvaluateKeyIDForDigits, matching_run
<1>. QED  BY <1>1, <1>2 DEF Scopes

-------------------------------------------------------------------------------
(* Which devices a selection names. *)

(* backend.go: the states of the enumeration's loop over the platforms. *)
Listings(Device) == [failed : BOOLEAN, devices : Seq(Device)]

ListFirst(loaded) == [failed |-> ~loaded, devices |-> <<>>]

ListNext(listing, platform) ==
  IF listing.failed \/ platform = Broken THEN [failed |-> TRUE, devices |-> <<>>]
  ELSE [listing EXCEPT !.devices = @ \o platform]

LEMMA ListLoop ==
  ASSUME NEW Device, NEW platforms \in Seq(Seq(Device)), NEW loaded \in BOOLEAN
  PROVE  LET n == Len(platforms) IN
         \E state \in [0 .. n -> Listings(Device)] :
           /\ state[0] = ListFirst(loaded)
           /\ \A i \in 1 .. n : state[i] = ListNext(state[i - 1], platforms[i])
           /\ listOpenCLDeviceRefs(loaded, platforms) = state[n]
<1> DEFINE n == Len(platforms)
           V == Listings(Device)
           base == ListFirst(loaded)
           Op(i, s) == ListNext(s, platforms[i])
           step == [p \in (1 .. n) \X V |-> Op(p[1], p[2])]
<1>0. DOMAIN platforms = 1 .. n
  OBVIOUS
<1>1. n \in Nat /\ base \in V
  <2>1. (~loaded) \in BOOLEAN /\ <<>> \in Seq(Device)
    OBVIOUS
  <2>. QED  BY <1>0, <2>1 DEF Listings, ListFirst
<1>2. \A i \in 1 .. n, s \in V : Op(i, s) \in V
  <2>1. ASSUME NEW i \in 1 .. n, NEW s \in V
        PROVE  [s EXCEPT !.devices = @ \o platforms[i]] \in V
    <3>1. platforms[i] \in Seq(Device) /\ s.devices \in Seq(Device)
      BY DEF Listings
    <3>2. s.devices \o platforms[i] \in Seq(Device)
      BY <3>1
    <3>. QED  BY <3>2 DEF Listings
  <2>2. [failed |-> TRUE, devices |-> <<>>] \in V
    BY DEF Listings
  <2>. QED  BY <2>1, <2>2 DEF ListNext
<1> HIDE DEF n, V, Op, base
<1>3. step \in [(1 .. n) \X V -> V] /\ \A i \in 1 .. n, s \in V : step[<<i, s>>] = Op(i, s)
  BY <1>2
<1> HIDE DEF step
<1>4. PICK it \in [SUBSET (1 .. n) -> V] : Folding(it, n, base, step)
  BY <1>1, <1>3, FoldingExists
<1>5. it = [s \in SUBSET (1 .. n) |-> IF s = {} THEN base ELSE Op(Max(s), it[s \ {Max(s)}])]
  <2>1. ASSUME NEW s \in SUBSET (1 .. n), s # {} PROVE it[s] = Op(Max(s), it[s \ {Max(s)}])
    <3>1. Max(s) \in 1 .. n /\ it[s \ {Max(s)}] \in V
      BY <1>1, <2>1, MaxTop
    <3>. QED  BY <1>3, <1>4, <2>1, <3>1 DEF Folding
  <2>2. it[{}] = base
    BY <1>4 DEF Folding
  <2>. QED  BY <2>1, <2>2
<1>6. PICK h : /\ h = [s \in SUBSET (1 .. n) |->
                         IF s = {} THEN base ELSE Op(Max(s), h[s \ {Max(s)}])]
               /\ listOpenCLDeviceRefs(loaded, platforms) = h[1 .. n]
  BY <1>0, <1>1, <1>5 DEF listOpenCLDeviceRefs, FoldLeft, MapThenFoldSet, Op, base, ListFirst, ListNext
<1>7. Follows(h, n, V, base, step)
  <2>1. h[{}] = base
    BY <1>6
  <2>2. ASSUME NEW s \in SUBSET (1 .. n), s # {}, h[s \ {Max(s)}] \in V
        PROVE  h[s] = step[<<Max(s), h[s \ {Max(s)}]>>]
    <3>1. Max(s) \in 1 .. n /\ h[s] = Op(Max(s), h[s \ {Max(s)}])
      BY <1>1, <1>6, <2>2, MaxTop
    <3>. QED  BY <1>3, <2>2, <3>1
  <2>. QED  BY <2>1, <2>2 DEF Follows
<1>8. PICK state \in [0 .. n -> V] : Loop(state, n, base, step, h[1 .. n])
  BY <1>1, <1>3, <1>7, LoopStates
<1>9. \A i \in 1 .. n : state[i] = Op(i, state[i - 1])
  <2>1. ASSUME NEW i \in 1 .. n PROVE state[i - 1] \in V /\ state[i] = step[<<i, state[i - 1]>>]
    BY <1>1, <1>8 DEF Loop
  <2>. QED  BY <1>3, <2>1
<1>. QED  BY <1>6, <1>8, <1>9 DEF n, V, Op, base, Loop

(* backend.go: the loop that drops the repeated indices. *)
LEMMA KeepLoop ==
  ASSUME NEW typed \in Seq(Int)
  PROVE  LET n == Len(typed) IN
         \E state \in [0 .. n -> Seq(Int)] :
           /\ state[0] = <<>>
           /\ \A i \in 1 .. n :
                state[i] = IF Contains(state[i - 1], typed[i]) THEN state[i - 1]
                           ELSE Append(state[i - 1], typed[i])
           /\ parseOpenCLDeviceSelection(typed) = state[n]
<1> DEFINE n == Len(typed)
           V == Seq(Int)
           base == <<>>
           Op(i, s) == IF Contains(s, typed[i]) THEN s ELSE Append(s, typed[i])
           step == [p \in (1 .. n) \X V |-> Op(p[1], p[2])]
<1>0. DOMAIN typed = 1 .. n
  OBVIOUS
<1>1. n \in Nat /\ base \in V
  OBVIOUS
<1>2. \A i \in 1 .. n, s \in V : Op(i, s) \in V
  OBVIOUS
<1> HIDE DEF n, V, Op, base
<1>3. step \in [(1 .. n) \X V -> V] /\ \A i \in 1 .. n, s \in V : step[<<i, s>>] = Op(i, s)
  BY <1>2
<1> HIDE DEF step
<1>4. PICK it \in [SUBSET (1 .. n) -> V] : Folding(it, n, base, step)
  BY <1>1, <1>3, FoldingExists
<1>5. it = [s \in SUBSET (1 .. n) |-> IF s = {} THEN base ELSE Op(Max(s), it[s \ {Max(s)}])]
  <2>1. ASSUME NEW s \in SUBSET (1 .. n), s # {} PROVE it[s] = Op(Max(s), it[s \ {Max(s)}])
    <3>1. Max(s) \in 1 .. n /\ it[s \ {Max(s)}] \in V
      BY <1>1, <2>1, MaxTop
    <3>. QED  BY <1>3, <1>4, <2>1, <3>1 DEF Folding
  <2>2. it[{}] = base
    BY <1>4 DEF Folding
  <2>. QED  BY <2>1, <2>2
<1>6. PICK h : /\ h = [s \in SUBSET (1 .. n) |->
                         IF s = {} THEN base ELSE Op(Max(s), h[s \ {Max(s)}])]
               /\ parseOpenCLDeviceSelection(typed) = h[1 .. n]
  BY <1>0, <1>1, <1>5 DEF parseOpenCLDeviceSelection, FoldLeft, MapThenFoldSet, Op, base
<1>7. Follows(h, n, V, base, step)
  <2>1. h[{}] = base
    BY <1>6
  <2>2. ASSUME NEW s \in SUBSET (1 .. n), s # {}, h[s \ {Max(s)}] \in V
        PROVE  h[s] = step[<<Max(s), h[s \ {Max(s)}]>>]
    <3>1. Max(s) \in 1 .. n /\ h[s] = Op(Max(s), h[s \ {Max(s)}])
      BY <1>1, <1>6, <2>2, MaxTop
    <3>. QED  BY <1>3, <2>2, <3>1
  <2>. QED  BY <2>1, <2>2 DEF Follows
<1>8. PICK state \in [0 .. n -> V] : Loop(state, n, base, step, h[1 .. n])
  BY <1>1, <1>3, <1>7, LoopStates
<1>9. \A i \in 1 .. n : state[i] = Op(i, state[i - 1])
  <2>1. ASSUME NEW i \in 1 .. n PROVE state[i - 1] \in V /\ state[i] = step[<<i, state[i - 1]>>]
    BY <1>1, <1>8 DEF Loop
  <2>. QED  BY <1>3, <2>1
<1>. QED  BY <1>6, <1>8, <1>9 DEF n, V, Op, base, Loop

(* backend.go: the loop that picks a device for each index. *)
Selecting(Device) == [failed : BOOLEAN, seen : SUBSET Int, devices : Seq(Device)]

LEMMA ChooseLoop ==
  ASSUME NEW Device, NEW available \in Seq(Device), NEW selected \in Seq(Int), selected # <<>>
  PROVE  LET n == Len(selected) IN
         \E state \in [0 .. n -> Selecting(Device)] :
           /\ state[0] = [failed |-> FALSE, seen |-> {}, devices |-> <<>>]
           /\ \A i \in 1 .. n : state[i] = Choose(available, state[i - 1], selected[i])
           /\ selectOpenCLDevices(available, selected) = state[n]
<1> DEFINE n == Len(selected)
           V == Selecting(Device)
           base == [failed |-> FALSE, seen |-> {}, devices |-> <<>>]
           Op(i, s) == Choose(available, s, selected[i])
           step == [p \in (1 .. n) \X V |-> Op(p[1], p[2])]
           Step(chosen, index) == Choose(available, chosen, index)
<1>0. DOMAIN selected = 1 .. n
  OBVIOUS
<1>1. n \in Nat /\ base \in V
  BY DEF Selecting
<1>2. \A i \in 1 .. n, s \in V : Op(i, s) \in V
  <2>1. ASSUME NEW i \in 1 .. n, NEW s \in V PROVE Op(i, s) \in V
    <3> DEFINE index == selected[i]
    <3>1. [s EXCEPT !.failed = TRUE] \in V
      BY DEF Selecting
    <3>2. ASSUME index \in 0 .. Len(available) - 1
          PROVE  [s EXCEPT !.seen = @ \cup {index},
                           !.devices = Append(@, available[index + 1])] \in V
      <4>1. available[index + 1] \in Device /\ s.devices \in Seq(Device) /\ index \in Int
        BY <3>2 DEF Selecting
      <4>2. Append(s.devices, available[index + 1]) \in Seq(Device)
        BY <4>1
      <4>3. s.seen \cup {index} \in SUBSET Int
        BY <4>1 DEF Selecting
      <4> HIDE DEF index
      <4>. QED  BY <4>2, <4>3 DEF Selecting
    <3>. QED  BY <3>1, <3>2 DEF Choose
  <2>. QED  BY <2>1
<1> HIDE DEF n, V, Op, base
<1>3. step \in [(1 .. n) \X V -> V] /\ \A i \in 1 .. n, s \in V : step[<<i, s>>] = Op(i, s)
  BY <1>2
<1> HIDE DEF step
<1>4. PICK it \in [SUBSET (1 .. n) -> V] : Folding(it, n, base, step)
  BY <1>1, <1>3, FoldingExists
<1>5. it = [s \in SUBSET (1 .. n) |-> IF s = {} THEN base ELSE Op(Max(s), it[s \ {Max(s)}])]
  <2>1. ASSUME NEW s \in SUBSET (1 .. n), s # {} PROVE it[s] = Op(Max(s), it[s \ {Max(s)}])
    <3>1. Max(s) \in 1 .. n /\ it[s \ {Max(s)}] \in V
      BY <1>1, <2>1, MaxTop
    <3>. QED  BY <1>3, <1>4, <2>1, <3>1 DEF Folding
  <2>2. it[{}] = base
    BY <1>4 DEF Folding
  <2>. QED  BY <2>1, <2>2
<1>6. PICK h : /\ h = [s \in SUBSET (1 .. n) |->
                         IF s = {} THEN base ELSE Op(Max(s), h[s \ {Max(s)}])]
               /\ FoldLeft(Step, base, selected) = h[1 .. n]
  BY <1>0, <1>1, <1>5 DEF FoldLeft, MapThenFoldSet, Op
<1>7. Follows(h, n, V, base, step)
  <2>1. h[{}] = base
    BY <1>6
  <2>2. ASSUME NEW s \in SUBSET (1 .. n), s # {}, h[s \ {Max(s)}] \in V
        PROVE  h[s] = step[<<Max(s), h[s \ {Max(s)}]>>]
    <3>1. Max(s) \in 1 .. n /\ h[s] = Op(Max(s), h[s \ {Max(s)}])
      BY <1>1, <1>6, <2>2, MaxTop
    <3>. QED  BY <1>3, <2>2, <3>1
  <2>. QED  BY <2>1, <2>2 DEF Follows
<1>8. PICK state \in [0 .. n -> V] : Loop(state, n, base, step, h[1 .. n])
  BY <1>1, <1>3, <1>7, LoopStates
<1>9. \A i \in 1 .. n : state[i] = Op(i, state[i - 1])
  <2>1. ASSUME NEW i \in 1 .. n PROVE state[i - 1] \in V /\ state[i] = step[<<i, state[i - 1]>>]
    BY <1>1, <1>8 DEF Loop
  <2>. QED  BY <1>3, <2>1
<1>10. selectOpenCLDevices(available, selected) = FoldLeft(Step, base, selected)
  BY DEF selectOpenCLDevices, base
<1>. QED  BY <1>6, <1>8, <1>9, <1>10 DEF n, V, Op, base, Loop

(* backend.go, opencl_windows.go: an enumeration that has not failed lists the
   devices of all platforms, in their order.                               *)
LEMMA Listed ==
  ASSUME NEW Device, NEW platforms \in Seq(Seq(Device)), NEW loaded \in BOOLEAN,
         ~listOpenCLDeviceRefs(loaded, platforms).failed
  PROVE  /\ loaded /\ Broken \notin ToSet(platforms)
         /\ FlattenSeq(platforms) \in Seq(Device)
         /\ listOpenCLDeviceRefs(loaded, platforms).devices = FlattenSeq(platforms)
<1> DEFINE n == Len(platforms)
<1>1. PICK state \in [0 .. n -> Listings(Device)] :
        /\ state[0] = ListFirst(loaded)
        /\ \A i \in 1 .. n : state[i] = ListNext(state[i - 1], platforms[i])
        /\ listOpenCLDeviceRefs(loaded, platforms) = state[n]
  BY ListLoop
<1>2. n \in Nat /\ \A i \in 1 .. n : platforms[i] \in Seq(Device)
  OBVIOUS
<1> DEFINE Fine(i) == /\ loaded /\ ~state[i].failed
                      /\ i > 0 => /\ platforms[i] # Broken /\ ~state[i - 1].failed
                                  /\ state[i].devices = state[i - 1].devices \o platforms[i]
           T == {i \in 0 .. n : state[i].failed \/ \A k \in 0 .. i : Fine(k)}
<1>3. 0 \in T
  <2>1. CASE loaded = TRUE
    <3>1. state[0].failed = FALSE
      <4>1. state[0] = ListFirst(TRUE)
        BY <1>1, <2>1
      <4>2. ListFirst(TRUE).failed = FALSE
        BY Zenon DEF ListFirst
      <4>. QED  BY <4>1, <4>2
    <3>2. \A k \in 0 .. 0 : k = 0 /\ ~(k > 0)
      OBVIOUS
    <3>. QED  BY <1>2, <2>1, <3>1, <3>2
  <2>2. CASE loaded = FALSE
    <3>1. state[0].failed = TRUE
      <4>1. state[0] = ListFirst(FALSE)
        BY <1>1, <2>2
      <4>2. ListFirst(FALSE).failed = TRUE
        BY Zenon DEF ListFirst
      <4>. QED  BY <4>1, <4>2
    <3>2. 0 \in 0 .. n
      BY <1>2
    <3> HIDE DEF n, Fine
    <3>. QED  BY <3>1, <3>2
  <2>. QED  BY <2>1, <2>2
<1>4. ASSUME NEW m \in 0 .. n - 1, m \in T PROVE m + 1 \in T
  <2>1. m + 1 \in 1 .. n /\ (m + 1) - 1 = m /\ m \in 0 .. n /\ m + 1 \in 0 .. n
    BY <1>2
  <2>2. state[m + 1] = IF state[m].failed \/ platforms[m + 1] = Broken
                       THEN [failed |-> TRUE, devices |-> <<>>]
                       ELSE [state[m] EXCEPT !.devices = @ \o platforms[m + 1]]
    BY <1>1, <2>1 DEF ListNext
  <2>3. CASE state[m].failed \/ platforms[m + 1] = Broken
    <3>1. state[m + 1].failed
      BY <2>2, <2>3
    <3>. QED  BY <2>1, <3>1
  <2>4. CASE ~(state[m].failed \/ platforms[m + 1] = Broken)
    <3>1. state[m] \in Listings(Device)
      BY <1>1, <2>1
    <3>2. /\ state[m + 1].failed = state[m].failed
          /\ state[m + 1].devices = state[m].devices \o platforms[m + 1]
      BY <2>2, <2>4, <3>1 DEF Listings
    <3>3. \A k \in 0 .. m : Fine(k)
      BY <1>4, <2>4
    <3>4. Fine(m + 1)
      <4>1. 0 \in 0 .. m /\ m + 1 > 0
        BY <2>1
      <4>2. loaded
        BY <3>3, <4>1
      <4>. QED  BY <2>1, <2>4, <3>2, <4>1, <4>2
    <3>5. \A k \in 0 .. m + 1 : k = m + 1 \/ k \in 0 .. m
      BY <2>1
    <3>6. \A k \in 0 .. m + 1 : Fine(k)
      <4> HIDE DEF Fine
      <4>. QED  BY <3>3, <3>4, <3>5
    <3>. QED  BY <2>1, <3>6
  <2>. QED  BY <2>3, <2>4
<1>5. \A k \in 0 .. n : Fine(k)
  <2>1. \A m \in 0 .. n : m \in T
    <3> HIDE DEF T, n
    <3>. QED  BY <1>2, <1>3, <1>4, TurnByTurn
  <2>2. n \in 0 .. n
    BY <1>2
  <2>3. ~state[n].failed
    BY <1>1
  <2>4. state[n].failed \/ \A k \in 0 .. n : Fine(k)
    <3> HIDE DEF Fine, n
    <3>. QED  BY <2>1, <2>2
  <2> HIDE DEF Fine
  <2>. QED  BY <2>3, <2>4
<1>6. /\ loaded /\ Broken \notin ToSet(platforms)
      /\ \A i \in 1 .. n : state[i].devices = state[i - 1].devices \o platforms[i]
  <2>1. 0 \in 0 .. n /\ \A i \in 1 .. n : i \in 0 .. n /\ i > 0
    BY <1>2
  <2>2. loaded /\ \A i \in 1 .. n : /\ platforms[i] # Broken
                                    /\ state[i].devices = state[i - 1].devices \o platforms[i]
    <3> HIDE DEF n
    <3>. QED  BY <1>5, <2>1
  <2>3. DOMAIN platforms = 1 .. n
    OBVIOUS
  <2>. QED  BY <2>2, <2>3 DEF ToSet
<1> DEFINE joined == [i \in 1 .. n |-> state[i].devices]
<1>7. \A i \in 1 .. n : joined[i] = IF i = 1 THEN platforms[i] ELSE joined[i - 1] \o platforms[i]
  <2>1. ASSUME NEW i \in 1 .. n PROVE joined[i] = IF i = 1 THEN platforms[i]
                                                 ELSE joined[i - 1] \o platforms[i]
    <3>1. state[i].devices = state[i - 1].devices \o platforms[i]
      BY <1>6
    <3>2. CASE i = 1
      <4>1. state[0].devices = <<>>
        BY <1>1 DEF ListFirst
      <4>0. 1 \in 1 .. n /\ 1 - 1 = 0
        BY <3>2
      <4>2. state[1].devices = <<>> \o platforms[1] /\ platforms[1] \in Seq(Device)
        <5> HIDE DEF n
        <5>. QED  BY <1>2, <1>6, <4>0, <4>1
      <4>3. state[1].devices = platforms[1]
        BY <4>2
      <4>. QED  BY <3>2, <4>3
    <3>3. CASE i # 1
      <4>1. i - 1 \in 1 .. n
        BY <3>3
      <4>. QED  BY <3>1, <3>3, <4>1
    <3>. QED  BY <3>2, <3>3
  <2>. QED  BY <2>1
<1>8. CASE n = 0
  <2>1. platforms = <<>> /\ state[0].devices = <<>>
    BY <1>1, <1>8 DEF ListFirst
  <2>2. FlattenSeq(platforms) = <<>>
    BY <1>8, <2>1 DEF FlattenSeq
  <2>3. <<>> \in Seq(Device)
    OBVIOUS
  <2>. QED  BY <1>1, <1>6, <1>8, <2>1, <2>2, <2>3
<1>9. CASE n # 0
  <2>1. joined = [i \in 1 .. n |-> IF i = 1 THEN platforms[i] ELSE joined[i - 1] \o platforms[i]]
    <3>1. joined = [i \in 1 .. n |-> joined[i]]
      OBVIOUS
    <3> HIDE DEF joined, n
    <3>. QED  BY <1>7, <3>1
  <2>2. PICK flatten :
          /\ flatten = [i \in 1 .. n |-> IF i = 1 THEN platforms[i]
                                         ELSE flatten[i - 1] \o platforms[i]]
          /\ FlattenSeq(platforms) = flatten[n]
    <3> HIDE DEF joined
    <3>. QED  BY <1>9, <2>1 DEF FlattenSeq
  <2> DEFINE S == {i \in 0 .. n : i = 0 \/ flatten[i] = joined[i]}
  <2>3. 0 \in S
    BY <1>2
  <2>4. ASSUME NEW m \in 0 .. n - 1, m \in S PROVE m + 1 \in S
    <3>1. m + 1 \in 1 .. n /\ (m + 1) - 1 = m /\ m + 1 \in 0 .. n
      BY <1>2
    <3>2. flatten[m + 1] = IF m + 1 = 1 THEN platforms[m + 1] ELSE flatten[m] \o platforms[m + 1]
      BY <2>2, <3>1
    <3>3. joined[m + 1] = IF m + 1 = 1 THEN platforms[m + 1] ELSE joined[m] \o platforms[m + 1]
      <4> HIDE DEF joined
      <4>. QED  BY <1>7, <3>1
    <3> HIDE DEF joined
    <3>. QED  BY <2>4, <3>1, <3>2, <3>3
  <2>5. n \in S
    <3>1. \A m \in 0 .. n : m \in S
      <4> HIDE DEF S, n
      <4>. QED  BY <1>2, <2>3, <2>4, TurnByTurn
    <3>2. n \in 0 .. n
      BY <1>2
    <3> HIDE DEF S, n
    <3>. QED  BY <3>1, <3>2
  <2>6. FlattenSeq(platforms) = state[n].devices
    BY <1>2, <1>9, <2>2, <2>5
  <2>7. state[n].devices \in Seq(Device)
    BY <1>1, <1>2 DEF Listings
  <2>. QED  BY <1>1, <1>6, <2>6, <2>7
<1>. QED  BY <1>8, <1>9

(* The indices of s in the order of their first mention in typed. *)
FirstMentions(s, typed, n) ==
  /\ ToSet(s) = {typed[k] : k \in 1 .. n}
  /\ \A a, b \in 1 .. Len(s) :
       a < b => \E m \in 1 .. n : /\ typed[m] = s[a]
                                  /\ \A k \in 1 .. m : typed[k] # s[b]

(* backend.go, cmd/vanity.go:364-388: of a list of indices each stays once,
   at the place of its first mention.                                      *)
LEMMA Kept ==
  ASSUME NEW typed \in Seq(Int)
  PROVE  /\ parseOpenCLDeviceSelection(typed) \in Seq(Int)
         /\ FirstMentions(parseOpenCLDeviceSelection(typed), typed, Len(typed))
<1> DEFINE n == Len(typed)
<1>1. PICK state \in [0 .. n -> Seq(Int)] :
        /\ state[0] = <<>>
        /\ \A i \in 1 .. n :
             state[i] = IF Contains(state[i - 1], typed[i]) THEN state[i - 1]
                        ELSE Append(state[i - 1], typed[i])
        /\ parseOpenCLDeviceSelection(typed) = state[n]
  BY KeepLoop
<1>2. n \in Nat
  OBVIOUS
<1> DEFINE T == {i \in 0 .. n : FirstMentions(state[i], typed, i)}
<1>3. 0 \in T
  BY <1>1, <1>2 DEF FirstMentions, ToSet
<1>4. ASSUME NEW m \in 0 .. n - 1, m \in T PROVE m + 1 \in T
  <2>1. m + 1 \in 1 .. n /\ (m + 1) - 1 = m /\ m \in 0 .. n /\ m + 1 \in 0 .. n
    BY <1>2
  <2> DEFINE s == state[m]
             index == typed[m + 1]
  <2>0. state[m + 1] = IF Contains(s, index) THEN s ELSE Append(s, index)
    BY <1>1, <2>1
  <2>2. /\ s \in Seq(Int) /\ FirstMentions(s, typed, m) /\ index \in Int
        /\ state[m + 1] = IF Contains(s, index) THEN s ELSE Append(s, index)
    <3>1. index \in Int
      BY <2>1
    <3>2. s \in Seq(Int)
      BY <1>1, <2>1
    <3> HIDE DEF s, index
    <3>3. FirstMentions(s, typed, m)
      BY <1>4 DEF s
    <3>. QED  BY <2>0, <3>1, <3>2, <3>3
  <2>3. {typed[k] : k \in 1 .. m + 1} = {typed[k] : k \in 1 .. m} \cup {index}
    <3>1. 1 .. m + 1 = (1 .. m) \cup {m + 1}
      BY <2>1
    <3>. QED  BY <3>1
  <2> HIDE DEF s, index
  <2>4. CASE Contains(s, index)
    <3>1. index \in ToSet(s)
      BY <2>2, <2>4 DEF Contains, ToSet
    <3>2. FirstMentions(s, typed, m + 1)
      <4>1. ToSet(s) = {typed[k] : k \in 1 .. m + 1}
        BY <2>2, <2>3, <3>1 DEF FirstMentions
      <4>2. 1 .. m \subseteq 1 .. m + 1
        BY <2>1
      <4>. QED  BY <2>2, <4>1, <4>2 DEF FirstMentions
    <3>. QED  BY <2>1, <2>2, <2>4, <3>2
  <2>5. CASE ~Contains(s, index)
    <3> DEFINE longer == Append(s, index)
    <3>1. /\ longer \in Seq(Int) /\ Len(longer) = Len(s) + 1 /\ longer[Len(s) + 1] = index
          /\ \A a \in 1 .. Len(s) : longer[a] = s[a]
          /\ Len(s) \in Nat /\ DOMAIN s = 1 .. Len(s) /\ DOMAIN longer = 1 .. Len(s) + 1
      BY <2>2
    <3> HIDE DEF longer
    <3>2. index \notin ToSet(s)
      BY <2>5, <3>1 DEF Contains, ToSet
    <3>3. ToSet(longer) = ToSet(s) \cup {index}
      <4>1. \A a \in 1 .. Len(s) + 1 : a = Len(s) + 1 \/ a \in 1 .. Len(s)
        BY <3>1
      <4>2. Len(s) + 1 \in 1 .. Len(s) + 1 /\ 1 .. Len(s) \subseteq 1 .. Len(s) + 1
        BY <3>1
      <4>. QED  BY <3>1, <4>1, <4>2 DEF ToSet
    <3>4. ToSet(longer) = {typed[k] : k \in 1 .. m + 1}
      BY <2>2, <2>3, <3>3 DEF FirstMentions
    <3>5. ASSUME NEW a \in 1 .. Len(longer), NEW b \in 1 .. Len(longer), a < b
          PROVE  \E j \in 1 .. m + 1 : /\ typed[j] = longer[a]
                                       /\ \A k \in 1 .. j : typed[k] # longer[b]
      <4>1. a \in 1 .. Len(s) /\ longer[a] = s[a]
        BY <3>1, <3>5
      <4>2. CASE b = Len(s) + 1
        <5>1. s[a] \in ToSet(s)
          BY <3>1, <4>1 DEF ToSet
        <5>2. PICK j \in 1 .. m : typed[j] = s[a]
          BY <2>2, <5>1 DEF FirstMentions
        <5>3. \A k \in 1 .. j : typed[k] # index
          BY <2>1, <2>2, <3>2 DEF FirstMentions
        <5>4. j \in 1 .. m + 1 /\ longer[b] = index
          BY <2>1, <3>1, <4>2
        <5>. QED  BY <4>1, <5>2, <5>3, <5>4
      <4>3. CASE b \in 1 .. Len(s)
        <5>1. PICK j \in 1 .. m : typed[j] = s[a] /\ \A k \in 1 .. j : typed[k] # s[b]
          BY <2>2, <3>5, <4>1, <4>3 DEF FirstMentions
        <5>2. j \in 1 .. m + 1 /\ longer[b] = s[b]
          BY <2>1, <3>1, <4>3
        <5>. QED  BY <4>1, <5>1, <5>2
      <4>. QED  BY <3>1, <4>2, <4>3
    <3>6. FirstMentions(longer, typed, m + 1)
      BY <3>4, <3>5 DEF FirstMentions
    <3>. QED  BY <2>1, <2>2, <2>5, <3>6 DEF longer
  <2>. QED  BY <2>4, <2>5
<1>5. \A m \in 0 .. n : m \in T
  <2> HIDE DEF T, n
  <2>. QED  BY <1>2, <1>3, <1>4, TurnByTurn
<1>. QED  BY <1>1, <1>2, <1>5

(* backend.go:102-120: a selection that does not fail has every index in range
   and picks one device for each, in the order of the indices.             *)
LEMMA Picked ==
  ASSUME NEW Device, NEW available \in Seq(Device), NEW selected \in Seq(Int), selected # <<>>,
         \A a, b \in 1 .. Len(selected) : a < b => selected[a] # selected[b],
         ~selectOpenCLDevices(available, selected).failed
  PROVE  /\ \A i \in 1 .. Len(selected) : selected[i] \in 0 .. Len(available) - 1
         /\ selectOpenCLDevices(available, selected).devices =
              [i \in 1 .. Len(selected) |-> available[selected[i] + 1]]
<1> DEFINE n == Len(selected)
           Picks(i) == [k \in 1 .. i |-> available[selected[k] + 1]]
<1>1. PICK state \in [0 .. n -> Selecting(Device)] :
        /\ state[0] = [failed |-> FALSE, seen |-> {}, devices |-> <<>>]
        /\ \A i \in 1 .. n : state[i] = Choose(available, state[i - 1], selected[i])
        /\ selectOpenCLDevices(available, selected) = state[n]
  BY ChooseLoop
<1>2. n \in Nat
  OBVIOUS
<1> DEFINE Fine(i) == /\ \A k \in 1 .. i : selected[k] \in 0 .. Len(available) - 1
                      /\ state[i].seen = {selected[k] : k \in 1 .. i}
                      /\ state[i].devices = Picks(i)
           T == {i \in 0 .. n : state[i].failed \/ Fine(i)}
<1>3. 0 \in T
  <2>1. Fine(0)
    BY <1>1
  <2>. QED  BY <1>2, <2>1
<1>4. ASSUME NEW m \in 0 .. n - 1, m \in T PROVE m + 1 \in T
  <2>1. m + 1 \in 1 .. n /\ (m + 1) - 1 = m /\ m \in 0 .. n /\ m + 1 \in 0 .. n /\ m \in Nat
    BY <1>2
  <2> DEFINE index == selected[m + 1]
             range == 0 .. Len(available) - 1
  <2>2. /\ state[m] \in Selecting(Device)
        /\ state[m + 1] = Choose(available, state[m], index)
    BY <1>1, <2>1
  <2>3. CASE state[m].failed \/ index \notin range
    <3>1. state[m + 1].failed = TRUE
      BY <2>2, <2>3 DEF Choose, Selecting
    <3>. QED  BY <2>1, <3>1
  <2>4. CASE ~(state[m].failed \/ index \notin range)
    <3>1. Fine(m)
      BY <1>4, <2>4
    <3>2. index \notin state[m].seen
      <4>1. \A k \in 1 .. m : k < m + 1 /\ k \in 1 .. Len(selected)
        BY <2>1
      <4>2. \A k \in 1 .. m : selected[k] # index
        BY <2>1, <4>1
      <4>. QED  BY <3>1, <4>2
    <3>3. /\ state[m + 1].seen = state[m].seen \cup {index}
          /\ state[m + 1].devices = Append(state[m].devices, available[index + 1])
      BY <2>2, <2>4, <3>2 DEF Choose, Selecting
    <3>4. 1 .. m + 1 = (1 .. m) \cup {m + 1}
      BY <2>1
    <3>5. state[m + 1].seen = {selected[k] : k \in 1 .. m + 1}
      BY <3>1, <3>3, <3>4
    <3>6. \A k \in 1 .. m + 1 : selected[k] \in range
      BY <2>4, <3>1, <3>4
    <3>7. Append(Picks(m), available[index + 1]) = Picks(m + 1)
      <4>1. \A k \in 1 .. m : available[selected[k] + 1] \in Device
        BY <3>1
      <4>2. Picks(m) \in Seq(Device) /\ Len(Picks(m)) = m
        BY <2>1, <4>1
      <4>3. /\ Append(Picks(m), available[index + 1]) =
                 [k \in 1 .. m + 1 |-> IF k = m + 1 THEN available[index + 1] ELSE Picks(m)[k]]
        <5> HIDE DEF Picks
        <5>. QED  BY <2>1, <4>2
      <4>4. \A k \in 1 .. m + 1 :
              (IF k = m + 1 THEN available[index + 1] ELSE Picks(m)[k]) = available[selected[k] + 1]
        BY <3>4
      <4>. QED  BY <4>3, <4>4
    <3>8. state[m + 1].devices = Picks(m + 1)
      BY <3>1, <3>3, <3>7
    <3>9. Fine(m + 1)
      BY <3>5, <3>6, <3>8
    <3>. QED  BY <2>1, <3>9
  <2>. QED  BY <2>3, <2>4
<1>5. n \in T
  <2>1. \A m \in 0 .. n : m \in T
    <3> HIDE DEF T, n
    <3>. QED  BY <1>2, <1>3, <1>4, TurnByTurn
  <2>. QED  BY <1>2, <2>1
<1>. QED  BY <1>1, <1>5

LEMMA Earliest ==
  ASSUME NEW n \in Nat, NEW S \in SUBSET (1 .. n), S # {}
  PROVE  \E x \in S : \A y \in S : x <= y
<1> DEFINE T == {n - y : y \in S}
<1>1. T \in SUBSET (0 .. n) /\ T # {}
  <2>1. \A y \in 1 .. n : n - y \in 0 .. n
    OBVIOUS
  <2>2. \A y \in S : y \in 1 .. n
    OBVIOUS
  <2>. QED  BY <2>1, <2>2
<1>2. PICK x \in T : \A y \in T : y <= x
  <2> HIDE DEF T
  <2>. QED  BY <1>1, Greatest
<1>. QED  BY <1>2

(* The devices that the indices of named pick of all, in the order in which
   named mentions them first.                                              *)
FirstNamed(all, named, device) ==
  CHOOSE i \in DOMAIN named : /\ all[named[i] + 1] = device
                              /\ \A j \in 1 .. i - 1 : all[named[j] + 1] # device

NamedDevices(all, named, devices) ==
  /\ ToSet(named) \subseteq 0 .. Len(all) - 1
  /\ ToSet(devices) = {all[i + 1] : i \in ToSet(named)}
  /\ \A i, j \in DOMAIN devices :
       i < j => FirstNamed(all, named, devices[i]) < FirstNamed(all, named, devices[j])

LEMMA InOrder ==
  ASSUME NEW Device, NEW all \in Seq(Device), IsInjective(all),
         NEW named \in Seq(Int), NEW selected \in Seq(Int),
         FirstMentions(selected, named, Len(named)),
         \A i \in 1 .. Len(selected) : selected[i] \in 0 .. Len(all) - 1,
         NEW devices, devices = [i \in 1 .. Len(selected) |-> all[selected[i] + 1]]
  PROVE  NamedDevices(all, named, devices)
<1> DEFINE n == Len(named)
           At(device) == {i \in 1 .. n : all[named[i] + 1] = device}
<1>1. /\ n \in Nat /\ DOMAIN named = 1 .. n /\ DOMAIN selected = 1 .. Len(selected)
      /\ DOMAIN all = 1 .. Len(all) /\ DOMAIN devices = 1 .. Len(selected)
  OBVIOUS
<1>2. ToSet(selected) = ToSet(named) /\ ToSet(selected) = {named[k] : k \in 1 .. n}
  BY <1>1 DEF FirstMentions, ToSet
<1>3. \A k \in 1 .. n : named[k] \in 0 .. Len(all) - 1 /\ named[k] \in ToSet(selected)
  BY <1>1, <1>2 DEF ToSet
<1>4. ToSet(named) \subseteq 0 .. Len(all) - 1
  BY <1>1, <1>3 DEF ToSet
<1>5. ToSet(devices) = {all[i + 1] : i \in ToSet(named)}
  <2>1. ToSet(devices) = {all[selected[i] + 1] : i \in 1 .. Len(selected)}
    BY <1>1 DEF ToSet
  <2>2. ToSet(selected) = {selected[i] : i \in 1 .. Len(selected)}
    BY <1>1 DEF ToSet
  <2>. QED  BY <1>2, <2>1, <2>2
<1>6. ASSUME NEW x \in 0 .. Len(all) - 1, NEW y \in 0 .. Len(all) - 1, all[x + 1] = all[y + 1]
      PROVE  x = y
  <2>1. x + 1 \in DOMAIN all /\ y + 1 \in DOMAIN all
    BY <1>1
  <2>2. x + 1 = y + 1
    BY <1>6, <2>1 DEF IsInjective
  <2>. QED  BY <2>2
<1>7. ASSUME NEW device, At(device) # {}
      PROVE  /\ FirstNamed(all, named, device) \in At(device)
             /\ \A j \in At(device) : FirstNamed(all, named, device) <= j
  <2>1. PICK i \in At(device) : \A j \in At(device) : i <= j
    <3>1. At(device) \in SUBSET (1 .. n)
      OBVIOUS
    <3> HIDE DEF At, n
    <3>. QED  BY <1>1, <1>7, <3>1, Earliest
  <2> DEFINE Is(k) == /\ all[named[k] + 1] = device
                      /\ \A j \in 1 .. k - 1 : all[named[j] + 1] # device
  <2>2. i \in 1 .. n /\ Is(i)
    <3>1. i \in 1 .. n /\ all[named[i] + 1] = device
      OBVIOUS
    <3>2. ASSUME NEW j \in 1 .. i - 1 PROVE all[named[j] + 1] # device
      <4>1. j \in 1 .. n /\ ~(i <= j)
        BY <3>1
      <4>2. j \notin At(device)
        BY <2>1, <4>1
      <4>. QED  BY <4>1, <4>2
    <3>. QED  BY <3>1, <3>2
  <2>3. FirstNamed(all, named, device) = CHOOSE k \in 1 .. n : Is(k)
    BY <1>1 DEF FirstNamed
  <2>4. FirstNamed(all, named, device) \in 1 .. n /\ Is(FirstNamed(all, named, device))
    <3> HIDE DEF Is
    <3>. QED  BY <2>2, <2>3
  <2> DEFINE f == FirstNamed(all, named, device)
  <2>5. ASSUME NEW j \in At(device), ~(f <= j) PROVE FALSE
    <3>1. j \in 1 .. f - 1
      BY <2>4, <2>5
    <3>. QED  BY <2>4, <3>1
  <2>. QED  BY <2>4, <2>5
<1>8. ASSUME NEW i \in DOMAIN devices, NEW j \in DOMAIN devices, i < j
      PROVE  FirstNamed(all, named, devices[i]) < FirstNamed(all, named, devices[j])
  <2>1. i \in 1 .. Len(selected) /\ j \in 1 .. Len(selected)
    BY <1>1
  <2>2. PICK m \in 1 .. n : named[m] = selected[i] /\ \A k \in 1 .. m : named[k] # selected[j]
    BY <1>8, <2>1 DEF FirstMentions
  <2>3. devices[i] = all[selected[i] + 1] /\ devices[j] = all[selected[j] + 1]
    BY <2>1
  <2>4. m \in At(devices[i])
    BY <2>2, <2>3
  <2>5. PICK l \in 1 .. n : named[l] = selected[j]
    <3>1. selected[j] \in ToSet(selected)
      BY <1>1, <2>1 DEF ToSet
    <3>. QED  BY <1>2, <3>1
  <2>6. l \in At(devices[j])
    BY <2>3, <2>5
  <2>7. /\ FirstNamed(all, named, devices[i]) \in 1 .. n
        /\ FirstNamed(all, named, devices[i]) <= m
    <3>1. /\ FirstNamed(all, named, devices[i]) \in At(devices[i])
          /\ FirstNamed(all, named, devices[i]) <= m
      <4> HIDE DEF At
      <4>. QED  BY <1>7, <2>4
    <3>. QED  BY <3>1
  <2> DEFINE f == FirstNamed(all, named, devices[j])
  <2>8. f \in 1 .. n /\ all[named[f] + 1] = devices[j]
    <3>1. f \in At(devices[j])
      <4> HIDE DEF At
      <4>. QED  BY <1>7, <2>6
    <3>. QED  BY <3>1
  <2>9. named[f] = selected[j]
    <3>1. named[f] \in 0 .. Len(all) - 1 /\ selected[j] \in 0 .. Len(all) - 1
      BY <1>3, <2>1, <2>8
    <3> HIDE DEF f
    <3>. QED  BY <1>6, <2>3, <2>8, <3>1
  <2>10. ~(f <= m)
    <3> HIDE DEF f
    <3>. QED  BY <2>2, <2>8, <2>9
  <2> HIDE DEF f
  <2>11. FirstNamed(all, named, devices[i]) < f
    BY <1>1, <2>7, <2>8, <2>10
  <2>. QED  BY <2>11 DEF f
<1>. QED  BY <1>4, <1>5, <1>8 DEF NamedDevices

(* backend.go:79-120: what resolution settles on, unless it is the CPU, are
   the devices that the typed indices name.                                *)
LEMMA ResolvedDevices ==
  ASSUME NEW Device, NEW platforms \in Seq(Seq(Device)), NEW loaded \in BOOLEAN,
         Broken \in ToSet(platforms) \/ IsInjective(FlattenSeq(platforms)),
         NEW typed \in Seq(Int), NEW backend, NEW resolved,
         resolved = resolveBackendRefs(backend, parseOpenCLDeviceSelection(typed),
                                       listOpenCLDeviceRefs(loaded, platforms)),
         resolved # Failed, resolved.backend # "cpu"
  PROVE  NamedDevices(FlattenSeq(platforms),
                      IF typed = <<>> THEN [i \in DOMAIN FlattenSeq(platforms) |-> i - 1] ELSE typed,
                      resolved.devices)
<1> DEFINE all == FlattenSeq(platforms)
           selected == parseOpenCLDeviceSelection(typed)
           listing == listOpenCLDeviceRefs(loaded, platforms)
           chosen == selectOpenCLDevices(listing.devices, selected)
<1>1. resolved # OnCPU
  BY DEF OnCPU
<1>2. ~listing.failed /\ ~chosen.failed /\ resolved.devices = chosen.devices
  BY <1>1 DEF resolveBackendRefs
<1>3. /\ Broken \notin ToSet(platforms) /\ all \in Seq(Device) /\ listing.devices = all
  BY <1>2, Listed
<1>4. IsInjective(all)
  BY <1>3
<1>5. selected \in Seq(Int) /\ FirstMentions(selected, typed, Len(typed))
  BY Kept
<1> HIDE DEF all, selected, listing
<1>6. DOMAIN all = 1 .. Len(all) /\ Len(all) \in Nat
  BY <1>3
<1>7. CASE typed = <<>>
  <2> DEFINE named == [i \in DOMAIN all |-> i - 1]
  <2>1. selected = <<>>
    <3>1. ToSet(selected) = {typed[k] : k \in 1 .. 0}
      BY <1>5, <1>7 DEF FirstMentions
    <3>2. ToSet(selected) = {}
      BY <3>1
    <3>3. DOMAIN selected = 1 .. Len(selected) /\ Len(selected) \in Nat
      BY <1>5
    <3>4. Len(selected) # 0 => selected[1] \in ToSet(selected)
      <4>1. Len(selected) # 0 => 1 \in DOMAIN selected
        BY <3>3
      <4>. QED  BY <4>1 DEF ToSet
    <3>. QED  BY <1>5, <3>2, <3>4
  <2>2. chosen.devices = all
    BY <1>3, <2>1 DEF selectOpenCLDevices
  <2>3. named \in Seq(Int) /\ Len(named) = Len(all) /\ DOMAIN named = 1 .. Len(all)
    BY <1>6
  <2>4. FirstMentions(named, named, Len(named))
    <3>1. ToSet(named) = {named[k] : k \in 1 .. Len(named)}
      BY <1>6, <2>3 DEF ToSet
    <3>2. ASSUME NEW a \in 1 .. Len(named), NEW b \in 1 .. Len(named), a < b
          PROVE  named[a] = named[a] /\ \A k \in 1 .. a : named[k] # named[b]
      BY <1>6, <2>3, <3>2
    <3> HIDE DEF named
    <3>. QED  BY <2>3, <3>1, <3>2 DEF FirstMentions
  <2>5. \A i \in 1 .. Len(named) : named[i] \in 0 .. Len(all) - 1 /\ named[i] + 1 = i
    BY <1>6, <2>3
  <2>6. all = [i \in 1 .. Len(named) |-> all[named[i] + 1]]
    <3>1. all = [i \in 1 .. Len(all) |-> all[i]]
      BY <1>3
    <3> HIDE DEF named
    <3>. QED  BY <2>3, <2>5, <3>1
  <2>7. NamedDevices(all, named, all)
    <3> HIDE DEF named
    <3>. QED  BY <1>3, <1>4, <2>3, <2>4, <2>5, <2>6, InOrder
  <2>. QED  BY <1>2, <1>7, <2>2, <2>7 DEF all
<1>8. CASE typed # <<>>
  <2>1. selected # <<>>
    <3>1. 1 \in 1 .. Len(typed)
      BY <1>8
    <3>2. typed[1] \in ToSet(selected)
      BY <1>5, <3>1 DEF FirstMentions
    <3>. QED  BY <3>2 DEF ToSet
  <2>2. \A a, b \in 1 .. Len(selected) : a < b => selected[a] # selected[b]
    <3>1. \A m \in 1 .. Len(typed) : m \in 1 .. m
      OBVIOUS
    <3>. QED  BY <1>5, <3>1 DEF FirstMentions
  <2>3. /\ \A i \in 1 .. Len(selected) : selected[i] \in 0 .. Len(all) - 1
        /\ chosen.devices = [i \in 1 .. Len(selected) |-> all[selected[i] + 1]]
    BY <1>2, <1>3, <1>5, <2>1, <2>2, Picked
  <2>4. NamedDevices(all, typed, chosen.devices)
    <3> HIDE DEF chosen
    <3>. QED  BY <1>3, <1>4, <1>5, <2>3, InOrder
  <2>. QED  BY <1>2, <1>8, <2>4 DEF all
<1>. QED  BY <1>7, <1>8

-------------------------------------------------------------------------------
(* Both matchers measure the longest run of any key ID. *)
LEMMA Agreement ==
  ASSUME NEW key \in AllKeys, NEW scope \in Scopes, NEW allowed
  PROVE  LET match == EvaluateKeyIDForDigits(key, scope, allowed)
             longest == LongestRun(key, scope, allowed)
         IN  /\ match.RunLength = longest
             /\ matching_run(key, scope, allowed) = longest
             /\ longest > 0 => match.Start = LastStart(key, scope, allowed)
             /\ match.Digit = key[match.Start + 1]
<1>1. key \in Seq(Digits) /\ Len(key) = DigitCount /\ DigitCount \in Nat \ {0}
  BY DispatchAssumption DEF AllKeys
<1>2. key # <<>>
  BY <1>1
<1>. QED  BY <1>1, <1>2, Measured

RunOf(item) == LongestRun(digest[item], grid.scope, grid.allowed)

ScoreOf(item) == RunOf(item) * Width + logical_index(item)

(* The word holds the highest of the baseline and the scores so far.       *)
Word ==
  outcome # "idle" =>
    /\ \/ result = grid.baseline * Width
       \/ \E item \in DOMAIN digest : result = ScoreOf(item)
    /\ result >= grid.baseline * Width
    /\ \A item \in DOMAIN digest : result >= ScoreOf(item)

LEMMA ScoreNat ==
  ASSUME Work, outcome # "idle", NEW item \in DOMAIN digest
  PROVE  /\ RunOf(item) \in 0 .. DigitCount /\ RunOf(item) \in Nat
         /\ logical_index(item) \in 0 .. Width - 1
         /\ ScoreOf(item) \in Nat
<1>1. Sized /\ item \in Items /\ digest[item] \in AllKeys
  BY DEF Work
<1>2. RunOf(item) \in 0 .. DigitCount /\ logical_index(item) \in 0 .. Width - 1
  BY <1>1, LongestRunBound, ItemIndex DEF RunOf
<1>. QED  BY <1>2, Packed, DispatchAssumption DEF ScoreOf

LEMMA LaunchWords == ASSUME Work, Launch PROVE Word'
<1>1. /\ outcome' = "running" /\ Work' /\ UNCHANGED digest /\ outcome = "idle"
      /\ result' = Score(grid'.baseline, 0)
  BY LaunchWorks DEF Launch
<1>2. grid'.baseline \in 0 .. DigitCount /\ 0 \in 0 .. Width - 1 /\ DOMAIN digest' = {}
  BY <1>1, WordWide DEF Work, Sized
<1>3. result' = grid'.baseline * Width /\ result' \in Nat
  <2>1. result' = grid'.baseline * Width + 0 /\ grid'.baseline * Width + 0 \in Nat
    BY <1>1, <1>2, Packed
  <2>2. grid'.baseline * Width \in Nat
    BY <1>2, WordWide, DispatchAssumption
  <2>. QED  BY <2>1, <2>2
<1>. QED  BY <1>2, <1>3 DEF Word

(* atomic_max commutes: whichever item publishes next, the word stays the
   highest score.                                                          *)
LEMMA ItemWords ==
  ASSUME Work, Word, NEW item \in waiting, vanity_sha1(item)
  PROVE  Word'
<1>1. /\ Work' /\ outcome' = "running" /\ outcome = "running" /\ UNCHANGED grid
      /\ item \in Items /\ item \notin DOMAIN digest
  BY ItemWorks
<1>2. PICK key \in AllKeys :
         /\ digest' = [i \in DOMAIN digest \cup {item} |->
                         IF i = item THEN key ELSE digest[i]]
         /\ atomic_max(Score(matching_run(key, grid.scope, grid.allowed),
                             logical_index(item)))
  BY ItemWorks
<1> DEFINE run == LongestRun(key, grid.scope, grid.allowed)
           score == run * Width + logical_index(item)
<1>3. /\ run \in 0 .. DigitCount /\ logical_index(item) \in 0 .. Width - 1
      /\ matching_run(key, grid.scope, grid.allowed) = run
  BY <1>1, Agreement, LongestRunBound, ItemIndex DEF Work, Sized
<1>4. Score(run, logical_index(item)) = score /\ score \in Nat
  BY <1>3, Packed
<1>5. result' = IF score > result THEN score ELSE result
  BY <1>2, <1>3, <1>4 DEF atomic_max
<1>6. DOMAIN digest' = DOMAIN digest \cup {item}
  BY <1>2
<1>7. ScoreOf(item)' = score
  BY <1>1, <1>2 DEF ScoreOf, RunOf, logical_index
<1>8. \A i \in DOMAIN digest : ScoreOf(i)' = ScoreOf(i) /\ ScoreOf(i) \in Nat
  BY <1>1, <1>2, ScoreNat DEF ScoreOf, RunOf, logical_index
<1>9. grid.baseline * Width \in Nat /\ result \in Nat
  <2>1. grid.baseline \in Nat
    BY <1>1, DispatchAssumption DEF Work, Sized
  <2>2. grid.baseline * Width \in Nat
    BY <2>1, WordWide
  <2>. QED  BY <1>1, <1>8, <2>2 DEF Word
<1> HIDE DEF score
<1>10. \/ result' = grid'.baseline * Width
       \/ \E i \in DOMAIN digest' : result' = ScoreOf(i)'
  <2>1. CASE score > result
    BY <1>5, <1>6, <1>7, <2>1
  <2>2. CASE ~(score > result)
    <3>1. result' = result
      BY <1>5, <2>2
    <3>. QED  BY <1>1, <1>6, <1>8, <3>1 DEF Word
  <2>. QED  BY <2>1, <2>2
<1>11. result' >= result /\ result' >= score /\ result' \in Nat
  BY <1>4, <1>5, <1>9
<1>12. result' >= grid'.baseline * Width
  <2>1. result >= grid.baseline * Width
    BY <1>1 DEF Word
  <2>. QED  BY <1>1, <1>9, <1>11, <2>1
<1>13. \A i \in DOMAIN digest' : result' >= ScoreOf(i)'
  <2>1. \A i \in DOMAIN digest : result >= ScoreOf(i)
    BY <1>1 DEF Word
  <2>2. ASSUME NEW i \in DOMAIN digest' PROVE result' >= ScoreOf(i)'
    <3>1. CASE i = item
      BY <1>7, <1>11, <3>1
    <3>2. CASE i \in DOMAIN digest
      BY <1>8, <1>9, <1>11, <2>1, <3>2
    <3>. QED  BY <1>6, <3>1, <3>2
  <2>. QED  BY <2>2
<1>. QED  BY <1>10, <1>12, <1>13 DEF Word

(* The host decodes the run, and the item, of the highest score; ties in the
   run are broken by the index, which decodes to one item.                 *)
LEMMA WordDecodes ==
  ASSUME Work, Word, outcome # "idle"
  PROVE  /\ resultRun \in Nat /\ resultRun >= grid.baseline
         /\ \A item \in DOMAIN digest : RunOf(item) <= resultRun
         /\ resultRun > grid.baseline =>
              /\ Winner \in DOMAIN digest /\ Winner[1] < grid.templateCount
              /\ RunOf(Winner) = resultRun
<1>1. /\ Sized /\ Width \in Nat \ {0} /\ 0 \in 0 .. Width - 1
      /\ grid.baseline \in Nat
  <2>1. Sized /\ Width \in Nat \ {0}
    BY WordWide DEF Work
  <2>. QED  BY <2>1, DispatchAssumption DEF Sized
<1>2. \A item \in DOMAIN digest :
        RunOf(item) \in Nat /\ logical_index(item) \in 0 .. Width - 1
  BY ScoreNat
<1>3. PICK run \in Nat, index \in 0 .. Width - 1 :
        /\ result = run * Width + index
        /\ \/ run = grid.baseline
           \/ \E item \in DOMAIN digest : run = RunOf(item) /\ index = logical_index(item)
  <2>1. CASE result = grid.baseline * Width
    <3>1. grid.baseline * Width \in Nat
      BY <1>1
    <3>2. result = grid.baseline * Width + 0
      BY <2>1, <3>1
    <3>. QED  BY <1>1, <3>2
  <2>2. ASSUME NEW item \in DOMAIN digest, result = ScoreOf(item)
        PROVE  \E run \in Nat, index \in 0 .. Width - 1 :
                 /\ result = run * Width + index
                 /\ run = RunOf(item) /\ index = logical_index(item)
    BY <1>2, <2>2 DEF ScoreOf
  <2>. QED  BY <2>1, <2>2 DEF Word
<1>4. resultRun = run /\ resultIndex = index
  BY <1>1, <1>3, Unpacked DEF resultRun, resultIndex, Width
<1>5. run >= grid.baseline
  <2>1. grid.baseline * Width + 0 <= run * Width + index
    <3>1. grid.baseline * Width \in Nat /\ run * Width + index >= grid.baseline * Width
      BY <1>1, <1>3 DEF Word
    <3>2. run * Width + index \in Nat
      BY <1>1
    <3>. QED  BY <3>1, <3>2
  <2>. QED  BY <1>1, <2>1, UpperHalfFirst
<1>6. ASSUME NEW item \in DOMAIN digest PROVE RunOf(item) <= run
  <2>1. RunOf(item) * Width + logical_index(item) <= run * Width + index
    <3>1. run * Width + index >= ScoreOf(item) /\ ScoreOf(item) \in Nat
      BY <1>3, ScoreNat DEF Word
    <3>2. run * Width + index \in Nat
      BY <1>1
    <3>. QED  BY <3>1, <3>2 DEF ScoreOf
  <2>. QED  BY <1>1, <1>2, <2>1, UpperHalfFirst
<1>7. ASSUME run > grid.baseline
      PROVE  /\ Winner \in DOMAIN digest /\ Winner[1] < grid.templateCount
             /\ RunOf(Winner) = run
  <2>1. PICK item \in DOMAIN digest : run = RunOf(item) /\ index = logical_index(item)
    BY <1>1, <1>3, <1>7
  <2>2. /\ item = <<item[1], item[2]>>
        /\ item[1] \in 0 .. grid.templateCount - 1
        /\ item[2] \in 0 .. grid.timestampCount - 1
    BY <1>1, ItemIndex DEF Work
  <2>3. /\ index \div grid.timestampCount = item[1]
        /\ index % grid.timestampCount = item[2]
    <3>1. /\ grid.timestampCount \in Nat \ {0} /\ item[1] \in Nat
          /\ index = item[1] * grid.timestampCount + item[2]
      BY <1>1, <2>1, <2>2 DEF logical_index, Sized
    <3>. QED  BY <2>2, <3>1, Unpacked
  <2>4. Winner = item
    BY <1>4, <2>2, <2>3 DEF Winner
  <2>. QED  BY <1>1, <2>1, <2>2, <2>4 DEF Sized
<1>. QED  BY <1>4, <1>5, <1>6, <1>7

LEMMA VerifyBest ==
  ASSUME Work, Word, Verify
  PROVE  Word' /\ BestOfWork'
<1>1. /\ outcome = "running" /\ UNCHANGED <<grid, waiting, digest, result>>
      /\ Sized /\ \A item \in DOMAIN digest : digest[item] \in AllKeys
  BY DEF Verify, Work
<1>2. Word'
  BY <1>1 DEF Word, ScoreOf, RunOf, logical_index
<1>3. /\ resultRun \in Nat /\ resultRun >= grid.baseline /\ grid.baseline \in Nat
      /\ \A item \in DOMAIN digest : RunOf(item) <= resultRun /\ RunOf(item) \in Nat
      /\ resultRun > grid.baseline =>
           /\ Winner \in DOMAIN digest /\ Winner[1] < grid.templateCount
           /\ RunOf(Winner) = resultRun
  BY <1>1, WordDecodes, ScoreNat, DispatchAssumption DEF Sized
<1>4. Winner[1] \in Int \/ ~(resultRun > grid.baseline)
  <2>1. resultRun > grid.baseline => Winner \in Items
    BY <1>1, <1>3 DEF Work
  <2>. QED  BY <1>1, <1>3, <2>1, ItemIndex DEF Sized
<1>5. Runs = {RunOf(item) : item \in DOMAIN digest}
  BY DEF Runs, RunOf
<1>6. CASE resultRun <= grid.baseline
  <2>1. outcome' = "nothing"
    BY <1>6 DEF Verify
  <2>2. \A run \in Runs : run <= grid.baseline
    BY <1>3, <1>5, <1>6
  <2>3. Runs' = Runs
    BY <1>1 DEF Runs
  <2>. QED  BY <1>1, <1>2, <2>1, <2>2, <2>3 DEF BestOfWork
<1>7. CASE ~(resultRun <= grid.baseline)
  <2>1. /\ resultRun > grid.baseline /\ Winner \in DOMAIN digest
        /\ Winner[1] < grid.templateCount /\ RunOf(Winner) = resultRun
    BY <1>3, <1>7
  <2>2. EvaluateKeyIDForDigits(digest[Winner], grid.scope, grid.allowed).RunLength
          = resultRun
    BY <1>1, <2>1, Agreement DEF Sized, RunOf
  <2>3. ~(Winner[1] >= grid.templateCount)
    BY <1>1, <1>4, <2>1 DEF Sized
  <2>4. outcome' = "verified"
    BY <1>7, <2>1, <2>2, <2>3 DEF Verify
  <2>5. resultRun \in Runs /\ \A run \in Runs : run <= resultRun
    BY <1>3, <1>5, <2>1
  <2>6. ~(\A run \in Runs : run <= grid.baseline)
    BY <1>3, <2>1, <2>5
  <2>7. /\ Runs' = Runs /\ resultRun' = resultRun /\ Winner' = Winner
        /\ grid' = grid /\ digest' = digest
    BY <1>1 DEF Runs, resultRun, resultIndex, Winner
  <2>. QED  BY <1>2, <2>1, <2>4, <2>5, <2>6, <2>7 DEF BestOfWork, RunOf
<1>. QED  BY <1>6, <1>7

(* Everything about dispatches that a step preserves. *)
Best == Work /\ Word /\ BestOfWork

LEMMA BestStep ==
  ASSUME Best, Next \/ Leave
  PROVE  Best'
<1> USE DEF Best
<1>1. CASE Launch
  BY <1>1, LaunchWorks, LaunchWords DEF BestOfWork
<1>2. ASSUME NEW item \in waiting, vanity_sha1(item) PROVE Best'
  BY <1>2, ItemWorks, ItemWords DEF BestOfWork
<1>3. CASE Verify
  BY <1>3, VerifyWorks, VerifyBest
<1>4. CASE Again \/ Leave
  BY <1>4, AgainWorks DEF Word, BestOfWork
<1>. QED  BY <1>1, <1>2, <1>3, <1>4 DEF Next

(* In a runner's life, dispatches happen between its first acquisition and its
   Close; nothing else touches their state.                                *)
LEMMA RunnerDispatches == RunnerNext => Next \/ Leave \/ UNCHANGED dispatch
BY DEF RunnerNext, Announce, Start, Run, Acquire, Dispatch, Close

(* opencl_windows.go:450-472, opencl_kernel.go:69-76: a finished dispatch has
   made exactly the attempts that were claimed for it, no dispatch sized from
   an accepted configuration is refused, and its indices fit the word.     *)
THEOREM ExactWorkAlways == RunnerSpec => []ExactWork
<1>1. RunnerInit => Work
  BY WorkInit DEF RunnerInit
<1>2. Work /\ UNCHANGED dispatch => Work'
  BY DEF Work, Sized, Items, dispatch
<1>3. Work /\ [RunnerNext]_vars => Work'
  BY <1>2, RunnerDispatches, WorkStep, AgainWorks DEF vars
<1>4. Work => ExactWork
  BY WorkExact
<1>. QED  BY <1>1, <1>3, <1>4, PTL DEF RunnerSpec

(* opencl_windows.go:450-494, opencl_kernel.go:109-123: the host ends with
   one of the longest runs above the baseline, and with nothing exactly when
   there is none, whatever the order in which work items publish.          *)
THEOREM BestOfWorkAlways == RunnerSpec => []BestOfWork
<1>1. RunnerInit => Best
  BY WorkInit DEF RunnerInit, Init, Best, Word, BestOfWork
<1>2. Best /\ UNCHANGED dispatch => Best'
  <2>1. SUFFICES ASSUME Best, UNCHANGED dispatch PROVE Best'
    OBVIOUS
  <2>2. UNCHANGED <<grid, waiting, digest, result, outcome>>
    BY <2>1 DEF dispatch
  <2>3. Work' /\ Word'
    BY <2>1, <2>2 DEF Best, Work, Sized, Items, Word, ScoreOf, RunOf, logical_index
  <2>4. BestOfWork'
    BY <2>1, <2>2 DEF Best, BestOfWork, Runs, resultRun, resultIndex, Winner
  <2>. QED  BY <2>3, <2>4 DEF Best
<1>3. Best /\ [RunnerNext]_vars => Best'
  BY <1>2, RunnerDispatches, BestStep DEF vars
<1>4. Best => BestOfWork
  BY DEF Best
<1>. QED  BY <1>1, <1>3, <1>4, PTL DEF RunnerSpec

(* matcher.go:93-134, opencl_kernel.go:19-54: whatever a work item hashes, the
   CPU and the GPU measure the same run, the longest that the criteria admit,
   and the CPU places it at the last position at which it occurs and reports
   the digit found there.                                                  *)
THEOREM MatchersAgreeAlways == RunnerSpec => []MatchersAgree
<1>1. RunnerInit => Work
  BY WorkInit DEF RunnerInit
<1>2. Work /\ UNCHANGED dispatch => Work'
  BY DEF Work, Sized, Items, dispatch
<1>3. Work /\ [RunnerNext]_vars => Work'
  BY <1>2, RunnerDispatches, WorkStep, AgainWorks DEF vars
<1>4. Work => MatchersAgree
  <2>1. SUFFICES ASSUME Work, NEW item \in DOMAIN digest
                 PROVE  digest[item] \in AllKeys /\ grid.scope \in Scopes
    BY Agreement DEF MatchersAgree
  <2>. QED  BY <2>1 DEF Work, Sized
<1>. QED  BY <1>1, <1>3, <1>4, PTL DEF RunnerSpec

(* Whatever a search has started on but the CPU was resolved from what the
   driver answered then.                                                   *)
LEMMA StartResolves ==
  ASSUME Resolved, Start, stage' = "started", started'.backend # "cpu"
  PROVE  /\ started' # Failed /\ answer' \in Answers
         /\ started' = resolveBackendRefs(BackendConfigured,
                         parseOpenCLDeviceSelection(gpuDevices),
                         listOpenCLDeviceRefs(loader' = "loaded", answer'))
<1>1. /\ stage = "announced" /\ started' # Failed
      /\ BackendConfigured # "cpu" /\ Enumerate /\ started' = Resolve(BackendConfigured)
  BY DEF Start, OnCPU
<1>2. requested # "cpu"
  BY <1>1 DEF Resolved, BackendConfigured, OnCPU
<1>3. started' = resolveBackendRefs(BackendConfigured,
                   parseOpenCLDeviceSelection(gpuDevices),
                   listOpenCLDeviceRefs(loader' = "loaded", answer'))
  BY <1>1 DEF Resolve, Loaded
<1>4. answer' \in IF loader' = "loaded" THEN Answers ELSE {<<>>}
  BY <1>1, <1>2 DEF Enumerate, Loaded
<1>5. loader' = "loaded"
  <2>1. SUFFICES ASSUME loader' # "loaded" PROVE FALSE
    OBVIOUS
  <2>2. answer' = <<>>
    BY <1>4, <2>1
  <2>3. listOpenCLDeviceRefs(FALSE, <<>>).failed
    <3>1. <<>> \in Seq(Seq({}))
      OBVIOUS
    <3>. QED  BY <3>1, Listed
  <2>4. (loader' = "loaded") = FALSE
    BY <2>1
  <2>5. listOpenCLDeviceRefs(loader' = "loaded", answer').failed
    BY <2>2, <2>3, <2>4
  <2>6. started' = OnCPU \/ started' = Failed
    BY <1>3, <2>5 DEF resolveBackendRefs
  <2>. QED  BY <1>1, <2>6 DEF OnCPU
<1>. QED  BY <1>1, <1>3, <1>4, <1>5

Named ==
  stage = "started" /\ started.backend # "cpu" =>
    NamedDevices(FlattenSeq(answer),
                 IF gpuDevices = <<>> THEN [i \in DOMAIN FlattenSeq(answer) |-> i - 1]
                                      ELSE gpuDevices,
                 started.devices)

(* backend.go:102-120, cmd/vanity.go:364-388: the GPUs of a search are those
   that the typed indices name in the enumeration, all of them without
   indices, each once and in the order in which they were named first.     *)
THEOREM RightDevicesAlways == RunnerSpec => []RightDevices
<1> DEFINE RInv == Resolved /\ gpuDevices \in Seq(Int) /\ Named
<1>1. RunnerInit => RInv
  BY SelectionAssumption DEF RunnerInit, Resolved, Named
<1>2. ASSUME RInv, [RunnerNext]_vars, Resolved' PROVE RInv'
  <2>1. CASE Start
    <3>1. gpuDevices' = gpuDevices
      BY <2>1 DEF Start, flags
    <3>2. SUFFICES ASSUME stage' = "started", started'.backend # "cpu"
                   PROVE  NamedDevices(FlattenSeq(answer'),
                            IF gpuDevices = <<>>
                            THEN [i \in DOMAIN FlattenSeq(answer') |-> i - 1] ELSE gpuDevices,
                            started'.devices)
      BY <1>2, <3>1 DEF Named
    <3>3. /\ started' # Failed /\ answer' \in Answers
          /\ started' = resolveBackendRefs(BackendConfigured,
                          parseOpenCLDeviceSelection(gpuDevices),
                          listOpenCLDeviceRefs(loader' = "loaded", answer'))
      BY <1>2, <2>1, <3>2, StartResolves
    <3> DEFINE Device == UNION {ToSet(answer'[p]) : p \in DOMAIN answer'}
               loaded == loader' = "loaded"
    <3>4. /\ answer' \in Seq(Seq(Device)) /\ loaded \in BOOLEAN
          /\ Broken \in ToSet(answer') \/ IsInjective(FlattenSeq(answer'))
      BY <3>3, SelectionAssumption
    <3>5. started' = resolveBackendRefs(BackendConfigured,
                       parseOpenCLDeviceSelection(gpuDevices),
                       listOpenCLDeviceRefs(loaded, answer'))
      BY <3>3
    <3> HIDE DEF Device, loaded
    <3>. QED  BY <1>2, <3>2, <3>3, <3>4, <3>5, ResolvedDevices
  <2>2. CASE Announce \/ Run
    <3>1. stage' # "started" /\ (gpuDevices' = gpuDevices \/ gpuDevices' = <<>>)
      BY <2>2 DEF Announce, Run, flags
    <3>2. <<>> \in Seq(Int)
      OBVIOUS
    <3>. QED  BY <1>2, <3>1, <3>2 DEF Named
  <2>3. CASE Acquire \/ Dispatch \/ Leave \/ Close
    BY <1>2, <2>3 DEF Acquire, Dispatch, Leave, Close, flags, Named
  <2>4. CASE UNCHANGED vars
    BY <1>2, <2>4 DEF vars, flags, choice, Named
  <2>. QED  BY <1>2, <2>1, <2>2, <2>3, <2>4 DEF RunnerNext
<1>3. IInv => Resolved
  BY DEF IInv
<1>4. RInv => RightDevices
  BY DEF RightDevices, Named, NamedDevices, FirstNamed
<1>. QED  BY <1>1, <1>2, <1>3, <1>4, Invariant, PTL DEF RunnerSpec
================================================================================
