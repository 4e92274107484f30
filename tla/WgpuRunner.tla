----------------------------- MODULE WgpuRunner -----------------------------
(***************************************************************************)
(* The WGPU path of the effect library: the process-wide WgpuShared (its   *)
(* runtime_errors list, its device_lost flag and the OnceLock that builds  *)
(* it), the per-thread cached NtscEffectRunner, and one frame through      *)
(* NtscEffectRunner::apply_effect or ::apply_effect_to_rgba8, including    *)
(* the retry of the preview's direct RGBA8 entry point.                    *)
(*                                                                         *)
(* A step is what a worker thread does between two accesses of shared      *)
(* state, so that every interleaving of worker threads, of the driver's    *)
(* uncaptured-error callback and of the device-lost callback is explored.  *)
(* Pixels are abstracted to whether they are this call's output.           *)
(***************************************************************************)
EXTENDS Naturals, FiniteSets

CONSTANTS
  Runners,       \* worker threads; each owns one thread-local cached runner
  Preferences,   \* backend preferences the callers use
  Kinds,         \* shapes of frame the callers submit
  InitOutcomes,  \* what WgpuBackend::init_shared may find on this machine
  Faults         \* steps at which the driver may raise an error

FrameKinds == {"single", "fields", "second", "direct", "empty"}
DriverFaults == {"capacity", "upload", "control", "submit", "map", "poll", "lost"}

\* What a call may fail at: "mapped" is a copy into staging buffers that an
\* earlier call left mapped, which the driver rejects whatever its faults.
FailedSteps == DriverFaults \cup {"mapped"}

ASSUME RunnersAssumption == Runners # {}
ASSUME PreferencesAssumption == Preferences \subseteq {"auto", "cpu", "wgpu", "cuda"}
ASSUME KindsAssumption == Kinds \subseteq FrameKinds
ASSUME InitAssumption ==
  InitOutcomes # {} /\ InitOutcomes \subseteq {"hardware", "software", "failed"}
ASSUME FaultsAssumption == Faults \subseteq DriverFaults

None == "none"

\* BackendFailureKind: why a backend was not used or a frame failed.
FailureKinds == {"initialization", "unavailable", "capacity", "runtime",
                 "readback", "device_lost"}

VARIABLES
  shared,          \* the OnceLock in WgpuBackend::try_new: "unset" or an InitOutcome
  runtime_errors,  \* WgpuShared.runtime_errors: the threads whose commands raised
                   \* an error that nobody has taken yet
  device_lost,     \* WgpuShared.device_lost is Some
  cached,          \* CACHED_WGPU_RUNNER.0 per thread
  backend_type,    \* NtscEffectRunner.backend_type
  fallback_reason, \* NtscEffectRunner.fallback_reason
  last_backend,    \* NtscEffectRunner.last_backend
  pc,              \* where the thread is in the call
  requested,       \* the preference of the call
  kind,            \* the shape of the frame of the call
  slot,            \* the field slot being worked on
  gpu,             \* frames[slot]: None, or what its plane buffers hold
  staging,         \* frames[slot] staging buffers: "stale" or "output"
  mapping,         \* the map state of the staging buffers of frames[slot] that every
                   \* readback uses: None, "mapped", "rejected"
  left_mapped,     \* the slots whose chroma staging buffers, which the RGBA8 path
                   \* does not touch, are still mapped since a failed poll
  dst,             \* the caller's planes (YIQ view or RGBA8 slice) per slot:
                   \* "input", or written by the "cpu", or "output"/"stale" readback
  error,           \* readback_error of the call
  result,          \* what the last call returned
  raised           \* history: the steps of this call that failed

wgpuShared == <<shared, runtime_errors, device_lost>>
runner == <<cached, backend_type, fallback_reason, last_backend>>
buffers == <<gpu, staging, mapping, left_mapped>>
call == <<pc, requested, kind, slot, dst, error, result, raised>>
vars == <<shared, runtime_errors, device_lost, cached, backend_type, fallback_reason,
          last_backend, pc, requested, kind, slot, gpu, staging, mapping, left_mapped,
          dst, error, result, raised>>

SlotIds == {0, 1}

\* The field slots a frame of this kind occupies: an interleaved frame is
\* split in two views; of a one-row lower-first frame only the second exists.
Slots(k) == CASE k = "fields" -> {0, 1}
              [] k = "second" -> {1}
              [] k = "empty" -> {}
              [] OTHER -> {0}

\* Fielded frames take the batched path of apply_effect.
Batched(k) == k \in {"fields", "second"}

\* Mutant: the slots counted from one.
FirstSlotOneBased(k) == IF k = "second" THEN 2 ELSE 1

FirstSlot(k) == IF k = "second" THEN 1 ELSE 0

Init ==
  /\ shared = "unset"
  /\ runtime_errors = {}
  /\ device_lost = FALSE
  /\ cached = [r \in Runners |-> None]
  /\ backend_type = [r \in Runners |-> "cpu"]
  /\ fallback_reason = [r \in Runners |-> None]
  /\ last_backend = [r \in Runners |-> "cpu"]
  /\ pc = [r \in Runners |-> "idle"]
  /\ requested = [r \in Runners |-> "auto"]
  /\ kind = [r \in Runners |-> "single"]
  /\ slot = [r \in Runners |-> 0]
  /\ gpu = [r \in Runners |-> [s \in SlotIds |-> None]]
  /\ staging = [r \in Runners |-> [s \in SlotIds |-> "stale"]]
  /\ mapping = [r \in Runners |-> [s \in SlotIds |-> None]]
  /\ left_mapped = [r \in Runners |-> {}]
  /\ dst = [r \in Runners |-> [s \in SlotIds |-> "input"]]
  /\ error = [r \in Runners |-> None]
  /\ result = [r \in Runners |-> None]
  /\ raised = [r \in Runners |-> {}]

-----------------------------------------------------------------------------
(* Entering a frame                                                        *)

\* auto_allows_adapter: automatic selection refuses a software adapter only.
AutoAllowsAdapter(outcome) == outcome # "software"

\* NtscEffectRunner::new: the backend a request resolves to, given the shared
\* context, and the reason kept when it resolves to the CPU.
ResolvesToWgpu(p, outcome) ==
  /\ outcome # "failed"
  /\ p # "auto" \/ AutoAllowsAdapter(outcome)

\* Mutant: the reason is never stored.
ResolveFailureUnrecorded(p, outcome) == None

ResolveFailure(p, outcome) ==
  CASE ResolvesToWgpu(p, outcome) -> None
    [] outcome = "failed" -> "initialization"
    [] OTHER -> "unavailable"

\* with_cached_wgpu_runner: a thread keeps one runner; a change of preference
\* replaces it, dropping its frames. WgpuBackend::try_new initializes the
\* shared context once per process and every later caller gets that outcome.
UseRunner(r, p, k) ==
  /\ pc[r] = "idle"
  /\ p \in {"auto", "wgpu"}
  /\ pc' = [pc EXCEPT ![r] = "enter"]
  /\ requested' = [requested EXCEPT ![r] = p]
  /\ kind' = [kind EXCEPT ![r] = k]
  /\ dst' = [dst EXCEPT ![r] = [s \in SlotIds |-> "input"]]
  /\ error' = [error EXCEPT ![r] = None]
  /\ result' = [result EXCEPT ![r] = None]
  /\ raised' = [raised EXCEPT ![r] = {}]
  /\ UNCHANGED <<runtime_errors, device_lost, slot>>
  /\ \/ /\ cached[r] = p
        /\ UNCHANGED <<shared, runner, buffers>>
     \/ /\ cached[r] # p
        /\ \E outcome \in IF shared = "unset" THEN InitOutcomes ELSE {shared} :
             /\ shared' = outcome
             /\ backend_type' = [backend_type EXCEPT ![r] =
                  IF ResolvesToWgpu(p, outcome) THEN "wgpu" ELSE "cpu"]
             /\ fallback_reason' = [fallback_reason EXCEPT ![r] = ResolveFailure(p, outcome)]
        /\ cached' = [cached EXCEPT ![r] = p]
        /\ last_backend' = [last_backend EXCEPT ![r] = "cpu"]
        /\ gpu' = [gpu EXCEPT ![r] = [s \in SlotIds |-> None]]
        /\ staging' = [staging EXCEPT ![r] = [s \in SlotIds |-> "stale"]]
        /\ mapping' = [mapping EXCEPT ![r] = [s \in SlotIds |-> None]]
        /\ left_mapped' = [left_mapped EXCEPT ![r] = {}]

\* A "cpu" or "cuda" preference builds a runner for this frame only. CUDA is
\* never available and, requested explicitly, is an error.
UseFreshRunner(r, p) ==
  /\ pc[r] = "idle"
  /\ p \in {"cpu", "cuda"}
  /\ requested' = [requested EXCEPT ![r] = p]
  /\ kind' = [kind EXCEPT ![r] = "single"]
  /\ dst' = [dst EXCEPT ![r] = [s \in SlotIds |-> IF p = "cpu" THEN "cpu" ELSE "input"]]
  /\ result' = [result EXCEPT ![r] = IF p = "cpu" THEN "ok_cpu" ELSE "unavailable"]
  /\ raised' = [raised EXCEPT ![r] = {}]
  /\ error' = [error EXCEPT ![r] = None]
  /\ UNCHANGED <<wgpuShared, runner, buffers, pc, slot>>

-----------------------------------------------------------------------------
(* Leaving a frame                                                         *)

\* Mutants: no failed frame is retried; every failed automatic frame is.
RetriesNever(r) == FALSE
RetriesAuto(r) == requested[r] = "auto"

\* process_gst_frame_rgbx_u8 retries a failed direct frame of an automatic
\* caller through the general path, on a fresh YIQ conversion.
Retries(r) == kind[r] = "direct" /\ requested[r] = "auto"

\* Return Err(e) because the given steps failed: the caller gets the error
\* unless the frame is retried.
ReturnErr(r, e, steps) ==
  IF Retries(r)
  THEN /\ pc' = [pc EXCEPT ![r] = "enter"]
       /\ kind' = [kind EXCEPT ![r] = "single"]
       /\ error' = [error EXCEPT ![r] = None]
       /\ raised' = [raised EXCEPT ![r] = {}]
       /\ UNCHANGED result
  ELSE /\ pc' = [pc EXCEPT ![r] = "idle"]
       /\ error' = [error EXCEPT ![r] = e]
       /\ result' = [result EXCEPT ![r] = e]
       /\ raised' = [raised EXCEPT ![r] = @ \cup steps]
       /\ UNCHANGED kind

\* Return Err(e) after storing it as the runner's fallback reason.
Fail(r, e, steps) ==
  /\ fallback_reason' = [fallback_reason EXCEPT ![r] = e]
  /\ ReturnErr(r, e, steps)

ReturnOk(r, actual) ==
  /\ pc' = [pc EXCEPT ![r] = "idle"]
  /\ result' = [result EXCEPT ![r] = IF actual = "wgpu" THEN "ok_wgpu" ELSE "ok_cpu"]
  /\ UNCHANGED <<kind, raised, error>>

-----------------------------------------------------------------------------
(* The prologue: everything before the shared context is touched           *)

\* Mutant: only the first field is processed.
ProcessFirstFieldOnCpu(r) == dst' = [dst EXCEPT ![r][0] = "cpu"]

ProcessOnCpu(r) == dst' = [dst EXCEPT ![r] = [s \in SlotIds |-> "cpu"]]

\* The runner resolved to the CPU. The RGBA8 entry point needs WGPU; the YIQ
\* entry point processes on the CPU unless WGPU was asked for by name.
EnterOnCpu(r) ==
  /\ pc[r] = "enter" /\ backend_type[r] = "cpu"
  /\ UNCHANGED <<wgpuShared, cached, backend_type, buffers, requested, slot, fallback_reason>>
  /\ \/ /\ kind[r] = "direct"
        /\ ReturnErr(r, "unavailable", {})
        /\ UNCHANGED <<last_backend, dst>>
     \/ /\ kind[r] # "direct" /\ requested[r] = "wgpu"
        /\ last_backend' = [last_backend EXCEPT ![r] = "cpu"]
        /\ ReturnErr(r, fallback_reason[r], {})
        /\ UNCHANGED dst
     \/ /\ kind[r] # "direct" /\ requested[r] = "auto"
        /\ last_backend' = [last_backend EXCEPT ![r] = "cpu"]
        /\ ProcessOnCpu(r)
        /\ ReturnOk(r, "cpu")

\* The runner has a WGPU backend. An empty view is done at once; a frame that
\* exceeds the device limits falls back to the CPU for automatic requests on
\* the YIQ entry point and is an error otherwise.
EnterOnWgpu(r) ==
  /\ pc[r] = "enter" /\ backend_type[r] = "wgpu"
  /\ UNCHANGED <<wgpuShared, cached, backend_type, buffers, requested>>
  /\ \/ /\ kind[r] = "empty"
        /\ fallback_reason' = [fallback_reason EXCEPT ![r] = None]
        /\ last_backend' = [last_backend EXCEPT ![r] = "wgpu"]
        /\ ReturnOk(r, "wgpu")
        /\ UNCHANGED <<dst, slot>>
     \/ /\ kind[r] # "empty" /\ "capacity" \in Faults
        /\ last_backend' =
             IF kind[r] = "direct" THEN last_backend ELSE [last_backend EXCEPT ![r] = "cpu"]
        /\ IF requested[r] = "auto" /\ kind[r] # "direct"
           THEN /\ fallback_reason' = [fallback_reason EXCEPT ![r] = "capacity"]
                /\ ProcessOnCpu(r)
                /\ ReturnOk(r, "cpu")
           ELSE Fail(r, "capacity", {}) /\ UNCHANGED dst
        /\ UNCHANGED slot
     \/ /\ kind[r] # "empty"
        /\ last_backend' =
             IF kind[r] = "direct" THEN last_backend ELSE [last_backend EXCEPT ![r] = "cpu"]
        /\ fallback_reason' = [fallback_reason EXCEPT ![r] = None]
        /\ slot' = [slot EXCEPT ![r] = FirstSlot(kind[r])]
        /\ pc' = [pc EXCEPT ![r] = "begin"]
        /\ UNCHANGED <<kind, dst, error, result, raised>>

-----------------------------------------------------------------------------
(* Driving the device                                                      *)

\* Mutant: the callback is not installed.
RaiseUnobserved(r, step) ==
  /\ raised' = [raised EXCEPT ![r] = @ \cup {step}]
  /\ UNCHANGED runtime_errors

\* The uncaptured-error callback: a command of thread r failed validation or
\* ran out of memory in the given step.
Raise(r, step) ==
  /\ runtime_errors' = runtime_errors \cup {r}
  /\ raised' = [raised EXCEPT ![r] = @ \cup {step}]

Go(r, label) == pc' = [pc EXCEPT ![r] = label]

\* Mutant: errors are read and never cleared.
KeepErrors == UNCHANGED runtime_errors

\* begin_execution clears the list every runner shares.
ClearErrors == runtime_errors' = {}

BeginExecution(r) ==
  /\ pc[r] = "begin"
  /\ ClearErrors
  /\ Go(r, "check")
  /\ UNCHANGED <<shared, device_lost, runner, buffers, requested, kind, slot, dst, error,
                 result, raised>>

\* current_device_loss: a lost device fails the frame for every request,
\* automatic ones included.
CheckDeviceLoss(r) ==
  /\ pc[r] = "check"
  /\ UNCHANGED <<wgpuShared, cached, backend_type, last_backend, buffers, requested, slot, dst>>
  /\ IF device_lost
     THEN Fail(r, "device_lost", {})
     ELSE Go(r, "upload") /\ UNCHANGED <<fallback_reason, kind, error, result, raised>>

\* Mutant: the second field of an interleaved frame is forgotten.
MoreFieldsNever(r) == FALSE

\* The first of the two fields of an interleaved frame is being worked on.
MoreFields(r) == kind[r] = "fields" /\ slot[r] = 0

\* All the staging buffers of a slot are unmapped, or new.
Unmapped(r, s) ==
  /\ mapping' = [mapping EXCEPT ![r][s] = None]
  /\ left_mapped' = [left_mapped EXCEPT ![r] = @ \ {s}]

\* upload_frame creates the frame when there is none or its size changed;
\* buffers that could not be created stay invalid for as long as the frame is
\* reused. upload_into writes the planes of an existing frame through the queue,
\* and a write that fails leaves the previous contents. The progressive path
\* then calls begin_execution a second time.
Upload(r) ==
  /\ pc[r] = "upload"
  /\ \E create \in {TRUE} \cup {gpu[r][slot[r]] = None} :
       /\ IF create THEN Unmapped(r, slot[r]) ELSE UNCHANGED <<mapping, left_mapped>>
       /\ \/ /\ create \/ gpu[r][slot[r]] # "invalid"
             /\ gpu' = [gpu EXCEPT ![r][slot[r]] = "input"]
             /\ UNCHANGED <<runtime_errors, raised>>
          \/ /\ "upload" \in Faults \/ (~create /\ gpu[r][slot[r]] = "invalid")
             /\ gpu' = [gpu EXCEPT ![r][slot[r]] =
                  IF create \/ @ = "invalid" THEN "invalid" ELSE "stale"]
             /\ Raise(r, "upload")
  /\ Go(r, IF kind[r] = "single" THEN "again" ELSE "encode")
  /\ UNCHANGED <<shared, device_lost, runner, staging, requested, kind, slot, dst, error, result>>

\* The begin_execution inside apply_effect_and_enqueue_download.
BeginAgain(r) ==
  /\ pc[r] = "again"
  /\ ClearErrors
  /\ Go(r, "encode")
  /\ UNCHANGED <<shared, device_lost, runner, buffers, requested, kind, slot, dst, error,
                 result, raised>>

\* encode_effect stops at control data larger than the device allows; the
\* pending error fails the frame, with no fallback even for automatic requests.
EncodeRejected(r) ==
  /\ pc[r] = "encode" /\ "control" \in Faults
  /\ Fail(r, "capacity", {"control"})
  /\ UNCHANGED <<wgpuShared, cached, backend_type, last_backend, buffers, requested, slot,
                 dst>>

\* What a submission makes of plane buffers it reads, and what a rejected one
\* leaves in buffers whose contents no longer belong to this frame.
Processed(content) == IF content = "input" THEN "output" ELSE "stale"
Copied(content) == IF content = "output" THEN "output" ELSE "stale"
Unprocessed(content) == IF content = "invalid" THEN "invalid" ELSE "stale"

\* A staging buffer that the frame's readback of slot s uses is still mapped.
StillMapped(r, s) ==
  mapping[r][s] # None \/ (kind[r] # "direct" /\ s \in left_mapped[r])

\* map_async is rejected on staging buffers that are still mapped and may be on
\* those of an invalid frame.
MapAsync(r, s) ==
  (IF StillMapped(r, s) THEN {"rejected"} ELSE {"mapped"})
    \cup (IF gpu[r][s] = "invalid" THEN {"rejected"} ELSE {})

\* A submission is rejected as a whole when it touches an invalid buffer or
\* copies into a mapped one.
Rejects(r, S, copies) ==
  \E s \in S : gpu[r][s] = "invalid" \/ (copies /\ StillMapped(r, s))

\* The failed step of a rejected submission that copies the slots S.
CopyFailure(r, S) == IF \E s \in S : StillMapped(r, s) THEN "mapped" ELSE "submit"

\* The progressive path: effect and copy in one submission, then map_async.
SubmitWithDownload(r) ==
  /\ pc[r] = "encode" /\ kind[r] = "single"
  /\ \/ /\ ~Rejects(r, {0}, TRUE)
        /\ gpu' = [gpu EXCEPT ![r][0] = Processed(@)]
        /\ staging' = [staging EXCEPT ![r][0] = Processed(gpu[r][0])]
        /\ UNCHANGED <<runtime_errors, raised>>
     \/ /\ Rejects(r, {0}, TRUE) \/ "submit" \in Faults
        /\ Raise(r, CopyFailure(r, {0}))
        /\ gpu' = [gpu EXCEPT ![r][0] = Unprocessed(@)]
        /\ staging' = [staging EXCEPT ![r][0] = "stale"]
  /\ \E m \in MapAsync(r, 0) : mapping' = [mapping EXCEPT ![r][0] = m]
  /\ Go(r, "wait")
  /\ UNCHANGED <<shared, device_lost, runner, left_mapped, requested, kind, slot, dst, error,
                 result>>

\* The batched and the RGBA8 path submit the effect of one slot; an
\* interleaved frame then goes on with the upload of its second field.
SubmitEffect(r) ==
  /\ pc[r] = "encode" /\ kind[r] # "single"
  /\ \/ /\ ~Rejects(r, {slot[r]}, FALSE)
        /\ gpu' = [gpu EXCEPT ![r][slot[r]] = Processed(@)]
        /\ UNCHANGED <<runtime_errors, raised>>
     \/ /\ Rejects(r, {slot[r]}, FALSE) \/ "submit" \in Faults
        /\ Raise(r, "submit")
        /\ gpu' = [gpu EXCEPT ![r][slot[r]] = Unprocessed(@)]
  /\ IF MoreFields(r)
     THEN slot' = [slot EXCEPT ![r] = 1] /\ Go(r, "upload")
     ELSE UNCHANGED slot /\ Go(r, "download")
  /\ UNCHANGED <<shared, device_lost, runner, staging, mapping, left_mapped, requested, kind, dst,
                 error, result>>

\* enqueue_downloads / enqueue_rgba8_downloads: one submission copies every
\* slot to its staging buffers, then maps them.
EnqueueDownloads(r) ==
  LET S == Slots(kind[r]) IN
  /\ pc[r] = "download"
  /\ \/ /\ ~Rejects(r, S, TRUE)
        /\ staging' = [staging EXCEPT ![r] = [s \in SlotIds |->
             IF s \in S THEN Copied(gpu[r][s]) ELSE @[s]]]
        /\ UNCHANGED <<runtime_errors, raised>>
     \/ /\ Rejects(r, S, TRUE) \/ "submit" \in Faults
        /\ Raise(r, CopyFailure(r, S))
        /\ staging' = [staging EXCEPT ![r] = [s \in SlotIds |->
             IF s \in S THEN "stale" ELSE @[s]]]
  /\ \E m \in [S -> {"mapped", "rejected"}] :
       /\ \A s \in S : m[s] \in MapAsync(r, s)
       /\ mapping' = [mapping EXCEPT ![r] = [s \in SlotIds |->
            IF s \in S THEN m[s] ELSE @[s]]]
  /\ Go(r, "wait")
  /\ UNCHANGED <<shared, device_lost, runner, gpu, left_mapped, requested, kind, slot, dst, error,
                 result>>

\* wait_for_submitted_work and the poll of try_finish_rgba8_download. When it
\* fails the YIQ path leaves the staging buffers mapped, the RGBA8 path
\* unmaps them.
WaitForSubmittedWork(r) ==
  /\ pc[r] = "wait"
  /\ UNCHANGED <<wgpuShared, cached, backend_type, last_backend, gpu, staging, requested,
                 dst>>
  /\ \/ /\ Go(r, "finish")
        /\ slot' = [slot EXCEPT ![r] = FirstSlot(kind[r])]
        /\ UNCHANGED <<fallback_reason, mapping, left_mapped, kind, error, result, raised>>
     \/ /\ "poll" \in Faults
        /\ Fail(r, IF device_lost THEN "device_lost" ELSE "runtime", {"poll"})
        /\ IF kind[r] = "direct"
           THEN mapping' = [mapping EXCEPT ![r][0] = None] /\ UNCHANGED left_mapped
           ELSE /\ left_mapped' = [left_mapped EXCEPT ![r] = @ \cup Slots(kind[r])]
                /\ UNCHANGED mapping
        /\ UNCHANGED slot

-----------------------------------------------------------------------------
(* Reading back                                                            *)

\* The end of one slot's readback: the second field of an interleaved frame
\* is read even when the first failed; the first error decides the result.
NextSlot(r, e, steps) ==
  LET first == IF error[r] # None THEN error[r] ELSE e IN
  IF MoreFields(r)
  THEN /\ slot' = [slot EXCEPT ![r] = 1]
       /\ Go(r, "finish")
       /\ error' = [error EXCEPT ![r] = first]
       /\ raised' = [raised EXCEPT ![r] = @ \cup steps]
       /\ UNCHANGED <<fallback_reason, last_backend, kind, result>>
  ELSE /\ UNCHANGED slot
       /\ \/ /\ first = None
             /\ last_backend' = [last_backend EXCEPT ![r] = "wgpu"]
             /\ ReturnOk(r, "wgpu")
             /\ UNCHANGED fallback_reason
          \/ /\ first # None
             /\ Fail(r, first, steps)
             /\ UNCHANGED last_backend

\* Mutant: the buffers stay mapped.
KeepMapped(r) == UNCHANGED <<mapping, left_mapped>>

\* The RGBA8 path unmaps the one staging buffer it uses.
Unmap(r) ==
  IF kind[r] = "direct"
  THEN mapping' = [mapping EXCEPT ![r][slot[r]] = None] /\ UNCHANGED left_mapped
  ELSE Unmapped(r, slot[r])

\* Mutant: only the device-lost flag is looked at.
MapFailedIgnored(r) == FALSE

\* A receiver of the slot delivered an error.
MapFailed(r) == mapping[r][slot[r]] = "rejected"

\* finish_download_after_poll up to the runtime_errors lock: the mapping
\* results and the device-lost flag. A lost device hides a mapping error on the
\* YIQ path and is hidden by it on the RGBA8 path. Unmapping a buffer that never
\* got mapped may itself raise an error, which nobody has taken on return.
FinishDownload(r) ==
  /\ pc[r] = "finish"
  /\ UNCHANGED <<shared, device_lost, cached, backend_type, gpu, staging, requested, dst>>
  /\ \/ /\ device_lost \/ MapFailed(r) \/ "map" \in Faults
        /\ \/ device_lost /\ NextSlot(r, "device_lost", {})
           \/ /\ MapFailed(r) \/ "map" \in Faults
              /\ ~device_lost \/ kind[r] = "direct"
              /\ NextSlot(r, "readback", {"map"})
        /\ Unmap(r)
        /\ \/ runtime_errors' = runtime_errors
           \/ "map" \in Faults /\ runtime_errors' = runtime_errors \cup {r}
     \/ /\ ~device_lost /\ ~MapFailed(r)
        /\ Go(r, "take")
        /\ UNCHANGED <<runtime_errors, fallback_reason, last_backend, kind, slot, mapping,
                       left_mapped, error, result, raised>>

\* The rest: take the whole shared error list, whoever raised its entries;
\* fail if it was not empty, else copy the planes out.
TakeErrors(r) ==
  /\ pc[r] = "take"
  /\ ClearErrors
  /\ Unmap(r)
  /\ \/ /\ runtime_errors # {}
        /\ NextSlot(r, "runtime", {})
        /\ UNCHANGED dst
     \/ /\ runtime_errors = {}
        /\ dst' = [dst EXCEPT ![r][slot[r]] = staging[r][slot[r]]]
        /\ NextSlot(r, None, {})
  /\ UNCHANGED <<shared, device_lost, cached, backend_type, gpu, staging, requested>>

-----------------------------------------------------------------------------

\* The device-lost callback, from any driver thread at any time.
LoseDevice ==
  /\ "lost" \in Faults /\ ~device_lost
  /\ shared \in {"hardware", "software"}
  /\ device_lost' = TRUE
  /\ UNCHANGED <<shared, runtime_errors, runner, buffers, call>>

Step(r) ==
  \/ EnterOnCpu(r) \/ EnterOnWgpu(r)
  \/ BeginExecution(r) \/ CheckDeviceLoss(r)
  \/ Upload(r) \/ BeginAgain(r) \/ EncodeRejected(r)
  \/ SubmitWithDownload(r) \/ SubmitEffect(r) \/ EnqueueDownloads(r)
  \/ WaitForSubmittedWork(r) \/ FinishDownload(r) \/ TakeErrors(r)

Next ==
  \/ \E r \in Runners, p \in Preferences :
       UseFreshRunner(r, p) \/ \E k \in Kinds : UseRunner(r, p, k)
  \/ \E r \in Runners : Step(r)
  \/ LoseDevice

\* A worker thread that has entered a frame keeps running; polls return.
Fairness == \A r \in Runners : WF_vars(Step(r))

Spec == Init /\ [][Next]_vars

FairSpec == Spec /\ Fairness

-----------------------------------------------------------------------------
(* Properties                                                              *)

Resolved == {"cpu", "wgpu"}
Errors == {None} \cup FailureKinds
Labels == {"idle", "enter", "begin", "check", "upload", "again", "encode", "download",
           "wait", "finish", "take"}

SharedType ==
  /\ shared \in {"unset"} \cup InitOutcomes
  /\ runtime_errors \subseteq Runners
  /\ device_lost \in BOOLEAN

RunnerType ==
  /\ cached \in [Runners -> {None, "auto", "wgpu"}]
  /\ backend_type \in [Runners -> Resolved]
  /\ fallback_reason \in [Runners -> Errors]
  /\ last_backend \in [Runners -> Resolved]

BuffersType ==
  /\ gpu \in [Runners -> [SlotIds -> {None, "stale", "input", "output", "invalid"}]]
  /\ staging \in [Runners -> [SlotIds -> {"stale", "output"}]]
  /\ mapping \in [Runners -> [SlotIds -> {None, "mapped", "rejected"}]]
  /\ left_mapped \in [Runners -> SUBSET SlotIds]
  /\ dst \in [Runners -> [SlotIds -> {"input", "cpu", "output", "stale"}]]

CallType ==
  /\ requested \in [Runners -> {"auto", "cpu", "wgpu", "cuda"}]
  /\ slot \in [Runners -> SlotIds]
  /\ pc \in [Runners -> Labels]
  /\ kind \in [Runners -> FrameKinds]
  /\ error \in [Runners -> Errors]
  /\ result \in [Runners -> Errors \cup {"ok_cpu", "ok_wgpu"}]
  /\ raised \in [Runners -> SUBSET FailedSteps]

\* The values every variable may take.
TypeOK == SharedType /\ RunnerType /\ BuffersType /\ CallType

\* A frame that returned Ok from the GPU had no failed step, except that the
\* progressive path forgets a failed upload (its second begin_execution). True
\* of a process with one worker thread.
SubmitFailuresReported ==
  \A r \in Runners : result[r] = "ok_wgpu" =>
    raised[r] \subseteq (IF kind[r] = "single" THEN {"upload"} ELSE {})

\* GPU_PORT_SPEC.md: an explicit WGPU runtime or readback failure is an error.
ExplicitFailuresReported ==
  \A r \in Runners : requested[r] = "wgpu" /\ result[r] = "ok_wgpu" => raised[r] = {}

\* Ok from the GPU without a failed step means that every field of the
\* caller's frame holds this call's output: the readback was not of a frame,
\* a field or a staging buffer left over from an earlier call.
FreshPixels ==
  \A r \in Runners : result[r] = "ok_wgpu" /\ raised[r] = {} =>
    \A s \in Slots(kind[r]) : dst[r][s] = "output"

\* A frame fails with a runtime error only for a step of its own: errors left
\* by an earlier call of the thread never fail a later one. True of a process
\* with one worker thread.
RuntimeFailuresAreOwn ==
  \A r \in Runners : result[r] = "runtime" => raised[r] # {}

\* The policy of GPU_PORT_SPEC.md: only an automatic request is served by the
\* CPU instead of the GPU, and only for an initialization, adapter or
\* capacity reason; explicit requests never are.
FallbackPolicy ==
  \A r \in Runners : result[r] = "ok_cpu" =>
    \/ requested[r] = "cpu"
    \/ /\ requested[r] = "auto"
       /\ fallback_reason[r] \in {"initialization", "unavailable", "capacity"}
       /\ last_backend[r] = "cpu"

\* An automatic request never fails for a reason it may fall back on, the
\* direct entry point's retry included; oversized control data is the exception.
AutoFallsBack ==
  \A r \in Runners :
    requested[r] = "auto" /\ result[r] \in {"initialization", "unavailable", "capacity"} =>
      "control" \in raised[r]

\* The two backends never share a frame: a frame that failed or was read back
\* holds no CPU pixels, a CPU frame is the CPU's in every field.
NoMixedFrame ==
  \A r \in Runners : pc[r] = "idle" =>
    IF result[r] = "ok_cpu" THEN \A s \in SlotIds : dst[r][s] = "cpu"
                            ELSE \A s \in SlotIds : dst[r][s] # "cpu"

InReadback(r) == pc[r] \in {"wait", "finish", "take"}

\* However a readback ends - with the frame, an error of any kind (a runtime
\* error or a lost device included) or a retry - none of the staging buffers it
\* read the frame's slots through is left mapped or waiting to be. Only a failed
\* poll of the YIQ path leaves them so (wait_for_submitted_work returns before
\* anything is unmapped); LeftMappedIsReported says what must not come of it.
StagingReleased ==
  [][\A r \in Runners : InReadback(r) /\ ~InReadback(r)' =>
       \/ \A s \in Slots(kind[r]) :
            mapping'[r][s] = None /\ (kind[r] # "direct" => s \notin left_mapped'[r])
       \/ pc[r] = "wait" /\ kind[r] # "direct"]_vars

\* A frame whose copy met staging buffers that a failed poll had left mapped
\* is never delivered, with any number of threads: when another one clears or
\* takes the submission's error, the map requests are still found rejected.
LeftMappedIsReported ==
  \A r \in Runners : result[r] = "ok_wgpu" => "mapped" \notin raised[r]

\* Every call returns: the readback loop and the automatic retry end.
EveryCallReturns == \A r \in Runners : pc[r] # "idle" ~> pc[r] = "idle"
=============================================================================
