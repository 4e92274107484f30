-------------------------- MODULE WgpuRunnerProofs --------------------------
(***************************************************************************)
(* Proofs about WgpuRunner, for any number of worker threads, any set of   *)
(* callers' preferences and frame kinds, any outcome of the initialization *)
(* and any set of driver faults.                                           *)
(***************************************************************************)
EXTENDS WgpuRunner, TLAPS

USE DEF None, SlotIds, FailureKinds, Errors, Resolved

-----------------------------------------------------------------------------
(* Type correctness                                                        *)

LEMMA InitType == Init => TypeOK
  <1> SUFFICES ASSUME Init PROVE TypeOK  OBVIOUS
  <1>1. SharedType  BY DEF Init, SharedType
  <1>2. RunnerType  BY DEF Init, RunnerType
  <1>3. BuffersType  BY DEF Init, BuffersType
  <1>4. CallType  BY DEF Init, CallType, Labels, FrameKinds
  <1> QED  BY <1>1, <1>2, <1>3, <1>4 DEF TypeOK

\* One slot, or both slots, of one thread's buffers are overwritten.
LEMMA CellType ==
  ASSUME NEW V, NEW f \in [Runners -> [SlotIds -> V]], NEW r \in Runners,
         NEW s \in SlotIds, NEW v \in V
  PROVE  [f EXCEPT ![r][s] = v] \in [Runners -> [SlotIds -> V]]
  OBVIOUS

LEMMA RowType ==
  ASSUME NEW V, NEW f \in [Runners -> [SlotIds -> V]], NEW r \in Runners,
         NEW row \in [SlotIds -> V]
  PROVE  [f EXCEPT ![r] = row] \in [Runners -> [SlotIds -> V]]
  OBVIOUS

GpuContents == {None, "stale", "input", "output", "invalid"}
DstContents == {"input", "cpu", "output", "stale"}
MapStates == {None, "mapped", "rejected"}

LEMMA RaiseType ==
  ASSUME SharedType, CallType, NEW r \in Runners, NEW step \in FailedSteps,
         Raise(r, step) \/ UNCHANGED <<runtime_errors, raised>>
  PROVE  runtime_errors' \subseteq Runners /\ raised' \in [Runners -> SUBSET FailedSteps]
  <1>1. raised[r] \cup {step} \in SUBSET FailedSteps  BY DEF CallType
  <1> QED  BY <1>1 DEF Raise, SharedType, CallType

LEMMA UnmapType ==
  ASSUME BuffersType, CallType, NEW r \in Runners, Unmap(r)
  PROVE  /\ mapping' \in [Runners -> [SlotIds -> MapStates]]
         /\ left_mapped' \in [Runners -> SUBSET SlotIds]
  <1>1. slot[r] \in SlotIds /\ None \in MapStates  BY DEF CallType, MapStates
  <1>2. mapping \in [Runners -> [SlotIds -> MapStates]]  BY DEF BuffersType, MapStates
  <1>3. mapping' = [mapping EXCEPT ![r][slot[r]] = None]  BY DEF Unmap, Unmapped
  <1>4. \/ UNCHANGED left_mapped
        \/ left_mapped' = [left_mapped EXCEPT ![r] = @ \ {slot[r]}]
    BY DEF Unmap, Unmapped
  <1>5. left_mapped' \in [Runners -> SUBSET SlotIds]  BY <1>4 DEF BuffersType
  <1> QED  BY <1>1, <1>2, <1>3, <1>5, CellType

LEMMA UnmapEffect ==
  ASSUME BuffersType, CallType, NEW r \in Runners, Unmap(r)
  PROVE  /\ \A s \in SlotIds : mapping'[r][s] = IF s = slot[r] THEN None ELSE mapping[r][s]
         /\ left_mapped'[r] = IF kind[r] = "direct" THEN left_mapped[r]
                                                  ELSE left_mapped[r] \ {slot[r]}
  <1>1. mapping' = [mapping EXCEPT ![r][slot[r]] = None]  BY DEF Unmap, Unmapped
  <1>2. \A s \in SlotIds : mapping'[r][s] = IF s = slot[r] THEN None ELSE mapping[r][s]
    BY <1>1 DEF BuffersType, CallType
  <1>3. left_mapped'[r] = IF kind[r] = "direct" THEN left_mapped[r]
                                                ELSE left_mapped[r] \ {slot[r]}
    BY DEF Unmap, Unmapped, BuffersType
  <1> QED  BY <1>2, <1>3

LEMMA ProcessOnCpuType ==
  ASSUME BuffersType, NEW r \in Runners, ProcessOnCpu(r)
  PROVE  dst' \in [Runners -> [SlotIds -> DstContents]]
  <1>1. [s \in SlotIds |-> "cpu"] \in [SlotIds -> DstContents]  BY DEF DstContents
  <1>2. dst \in [Runners -> [SlotIds -> DstContents]]  BY DEF BuffersType, DstContents
  <1>3. dst' = [dst EXCEPT ![r] = [s \in SlotIds |-> "cpu"]]  BY DEF ProcessOnCpu
  <1> QED  BY <1>1, <1>2, <1>3, RowType

\* What a way out of a frame does to the call, and leaves of the runner.
Returned ==
  /\ pc' \in [Runners -> Labels]
  /\ kind' \in [Runners -> FrameKinds]
  /\ error' \in [Runners -> Errors]
  /\ result' \in [Runners -> Errors \cup {"ok_cpu", "ok_wgpu"}]
  /\ raised' \in [Runners -> SUBSET FailedSteps]

LEMMA ReturnErrType ==
  ASSUME CallType, NEW r \in Runners, NEW e \in Errors, NEW steps \in SUBSET FailedSteps,
         ReturnErr(r, e, steps)
  PROVE  Returned
  <1>1. raised[r] \cup steps \in SUBSET FailedSteps  BY DEF CallType
  <1>2. pc' \in [Runners -> Labels]  BY DEF CallType, ReturnErr, Labels
  <1>3. kind' \in [Runners -> FrameKinds]  BY DEF CallType, ReturnErr, FrameKinds
  <1>4. error' \in [Runners -> Errors]  BY DEF CallType, ReturnErr
  <1>5. result' \in [Runners -> Errors \cup {"ok_cpu", "ok_wgpu"}]
    BY DEF CallType, ReturnErr
  <1>6. raised' \in [Runners -> SUBSET FailedSteps]
    BY <1>1 DEF CallType, ReturnErr
  <1> QED  BY <1>2, <1>3, <1>4, <1>5, <1>6 DEF Returned

LEMMA ReturnOkType ==
  ASSUME CallType, NEW r \in Runners, NEW actual, ReturnOk(r, actual)
  PROVE  Returned
  BY DEF CallType, ReturnOk, Returned, Labels

LEMMA FailType ==
  ASSUME CallType, RunnerType, NEW r \in Runners, NEW e \in Errors,
         NEW steps \in SUBSET FailedSteps, Fail(r, e, steps)
  PROVE  Returned /\ fallback_reason' \in [Runners -> Errors]
  <1>1. ReturnErr(r, e, steps)  BY DEF Fail
  <1>2. fallback_reason' \in [Runners -> Errors]  BY DEF Fail, RunnerType
  <1> QED  BY <1>1, <1>2, ReturnErrType

LEMMA NextSlotType ==
  ASSUME CallType, RunnerType, NEW r \in Runners, NEW e \in Errors,
         NEW steps \in SUBSET FailedSteps, NextSlot(r, e, steps)
  PROVE  /\ Returned
         /\ fallback_reason' \in [Runners -> Errors]
         /\ last_backend' \in [Runners -> Resolved]
         /\ slot' \in [Runners -> SlotIds]
  <1> DEFINE first == IF error[r] # None THEN error[r] ELSE e
  <1>1. first \in Errors  BY DEF CallType
  <1>2. CASE MoreFields(r)
    <2>1. raised[r] \cup steps \in SUBSET FailedSteps  BY DEF CallType
    <2>2. pc' = [pc EXCEPT ![r] = "finish"]  BY <1>2 DEF NextSlot, Go
    <2>3. error' = [error EXCEPT ![r] = first]  BY <1>2 DEF NextSlot
    <2>4. raised' = [raised EXCEPT ![r] = @ \cup steps]  BY <1>2 DEF NextSlot
    <2>5. slot' = [slot EXCEPT ![r] = 1]  BY <1>2 DEF NextSlot
    <2>6. UNCHANGED <<fallback_reason, last_backend, kind, result>>  BY <1>2 DEF NextSlot
    <2>7. Returned
      BY <1>1, <2>1, <2>2, <2>3, <2>4, <2>6 DEF Returned, CallType, Labels
    <2> QED  BY <2>5, <2>6, <2>7 DEF CallType, RunnerType
  <1>3. CASE ~MoreFields(r) /\ first = None
    <2>1. /\ ReturnOk(r, "wgpu")
          /\ UNCHANGED <<slot, fallback_reason>>
          /\ last_backend' = [last_backend EXCEPT ![r] = "wgpu"]
      BY <1>3 DEF NextSlot
    <2>2. Returned  BY <2>1, ReturnOkType
    <2> QED  BY <2>1, <2>2 DEF CallType, RunnerType
  <1>4. CASE ~MoreFields(r) /\ first # None
    <2>1. Fail(r, first, steps) /\ UNCHANGED <<slot, last_backend>>
      BY <1>4 DEF NextSlot
    <2>2. Returned /\ fallback_reason' \in [Runners -> Errors]  BY <1>1, <2>1, FailType
    <2> QED  BY <2>1, <2>2 DEF CallType, RunnerType
  <1> QED  BY <1>2, <1>3, <1>4

LEMMA NextType == TypeOK /\ [Next]_vars => TypeOK'
  <1> SUFFICES ASSUME TypeOK, [Next]_vars PROVE TypeOK'  OBVIOUS
  <1> USE DEF TypeOK
  <1>1. ASSUME NEW r \in Runners, NEW p \in Preferences, UseFreshRunner(r, p)
        PROVE  TypeOK'
    <2>1. p \in {"auto", "cpu", "wgpu", "cuda"}  BY PreferencesAssumption
    <2>2. SharedType' /\ RunnerType'
      BY <1>1 DEF UseFreshRunner, wgpuShared, runner, SharedType, RunnerType
    <2>3. BuffersType'
      BY <1>1 DEF UseFreshRunner, buffers, BuffersType
    <2>4. CallType'
      BY <1>1, <2>1 DEF UseFreshRunner, CallType, FrameKinds
    <2> QED  BY <2>2, <2>3, <2>4
  <1>2. ASSUME NEW r \in Runners, NEW p \in Preferences, NEW k \in Kinds, UseRunner(r, p, k)
        PROVE  TypeOK'
    <2>1. k \in FrameKinds  BY KindsAssumption
    <2>2. CallType'
      BY <1>2, <2>1 DEF UseRunner, CallType, Labels
    <2>3. SharedType' /\ RunnerType' /\ BuffersType'
      <3>1. CASE cached[r] = p /\ UNCHANGED <<shared, runner, buffers>>
        BY <1>2, <3>1 DEF UseRunner, runner, buffers, SharedType, RunnerType, BuffersType
      <3>2. ASSUME NEW outcome \in (IF shared = "unset" THEN InitOutcomes ELSE {shared}),
                   shared' = outcome,
                   backend_type' = [backend_type EXCEPT ![r] =
                     IF ResolvesToWgpu(p, outcome) THEN "wgpu" ELSE "cpu"],
                   fallback_reason' =
                     [fallback_reason EXCEPT ![r] = ResolveFailure(p, outcome)],
                   cached' = [cached EXCEPT ![r] = p],
                   last_backend' = [last_backend EXCEPT ![r] = "cpu"],
                   gpu' = [gpu EXCEPT ![r] = [s \in SlotIds |-> None]],
                   staging' = [staging EXCEPT ![r] = [s \in SlotIds |-> "stale"]],
                   mapping' = [mapping EXCEPT ![r] = [s \in SlotIds |-> None]],
                   left_mapped' = [left_mapped EXCEPT ![r] = {}]
            PROVE  SharedType' /\ RunnerType' /\ BuffersType'
        <4>1. SharedType'  BY <1>2, <3>2 DEF UseRunner, SharedType
        <4>2. ResolveFailure(p, outcome) \in Errors  BY DEF ResolveFailure
        <4>3. RunnerType'  BY <1>2, <3>2, <4>2 DEF UseRunner, RunnerType
        <4>4. BuffersType'  BY <1>2, <3>2 DEF UseRunner, BuffersType
        <4> QED  BY <4>1, <4>3, <4>4
      <3> QED  BY <1>2, <3>1, <3>2 DEF UseRunner
    <2> QED  BY <2>2, <2>3
  <1>3. ASSUME NEW r \in Runners, EnterOnCpu(r)  PROVE TypeOK'
    <2>1. SharedType'  BY <1>3 DEF EnterOnCpu, wgpuShared, SharedType
    <2>2. RunnerType'  BY <1>3 DEF EnterOnCpu, RunnerType
    <2>3. BuffersType'
      <3>1. ProcessOnCpu(r) \/ UNCHANGED dst  BY <1>3 DEF EnterOnCpu
      <3>2. UNCHANGED buffers  BY <1>3 DEF EnterOnCpu
      <3> QED  BY <3>1, <3>2, ProcessOnCpuType DEF buffers, BuffersType, DstContents
    <2>4. Returned
      <3>1. CASE ReturnErr(r, "unavailable", {})  BY <3>1, ReturnErrType
      <3>2. CASE ReturnErr(r, fallback_reason[r], {})
        BY <3>2, ReturnErrType DEF RunnerType
      <3>3. CASE ReturnOk(r, "cpu")  BY <3>3, ReturnOkType
      <3> QED  BY <1>3, <3>1, <3>2, <3>3 DEF EnterOnCpu
    <2>5. CallType'  BY <1>3, <2>4 DEF EnterOnCpu, CallType, Returned
    <2> QED  BY <2>1, <2>2, <2>3, <2>5
  <1>4. ASSUME NEW r \in Runners, EnterOnWgpu(r)  PROVE TypeOK'
    <2>1. SharedType'  BY <1>4 DEF EnterOnWgpu, wgpuShared, SharedType
    <2>2. BuffersType'
      <3>1. ProcessOnCpu(r) \/ UNCHANGED dst  BY <1>4 DEF EnterOnWgpu
      <3>2. UNCHANGED buffers  BY <1>4 DEF EnterOnWgpu
      <3> QED  BY <3>1, <3>2, ProcessOnCpuType DEF buffers, BuffersType, DstContents
    <2>3. slot' \in [Runners -> SlotIds]
      BY <1>4 DEF EnterOnWgpu, FirstSlot, CallType
    <2>4. last_backend' \in [Runners -> Resolved]  BY <1>4 DEF EnterOnWgpu, RunnerType
    <2>5. Returned /\ fallback_reason' \in [Runners -> Errors]
      <3>1. CASE Fail(r, "capacity", {})  BY <3>1, FailType
      <3>2. ASSUME NEW actual, ReturnOk(r, actual)  PROVE Returned
        BY <3>2, ReturnOkType
      <3>3. ASSUME pc' = [pc EXCEPT ![r] = "begin"], UNCHANGED <<kind, dst, error, result, raised>>
            PROVE  Returned
        BY <3>3 DEF Returned, CallType, Labels
      <3>4. CASE ~Fail(r, "capacity", {})
        BY <1>4, <3>2, <3>3, <3>4 DEF EnterOnWgpu, RunnerType
      <3> QED  BY <3>1, <3>4
    <2> QED  BY <1>4, <2>1, <2>2, <2>3, <2>4, <2>5
             DEF EnterOnWgpu, RunnerType, CallType, Returned
  <1>5. ASSUME NEW r \in Runners, BeginExecution(r) \/ BeginAgain(r)  PROVE TypeOK'
    <2>1. SharedType' /\ RunnerType' /\ BuffersType'
      BY <1>5 DEF BeginExecution, BeginAgain, ClearErrors, runner, buffers,
                  SharedType, RunnerType, BuffersType
    <2>2. CallType'  BY <1>5 DEF BeginExecution, BeginAgain, Go, CallType, Labels
    <2> QED  BY <2>1, <2>2
  <1>6. ASSUME NEW r \in Runners, CheckDeviceLoss(r)  PROVE TypeOK'
    <2>1. SharedType' /\ BuffersType'
      BY <1>6 DEF CheckDeviceLoss, wgpuShared, buffers, SharedType, BuffersType
    <2>2. Returned /\ fallback_reason' \in [Runners -> Errors]
      <3>1. CASE Fail(r, "device_lost", {})  BY <3>1, FailType
      <3>2. CASE Go(r, "upload") /\ UNCHANGED <<fallback_reason, kind, error, result, raised>>
        BY <3>2 DEF Go, Returned, CallType, RunnerType, Labels
      <3> QED  BY <1>6, <3>1, <3>2 DEF CheckDeviceLoss
    <2> QED  BY <1>6, <2>1, <2>2 DEF CheckDeviceLoss, RunnerType, CallType, Returned
  <1>7. ASSUME NEW r \in Runners, Upload(r)  PROVE TypeOK'
    <2>1. RunnerType'  BY <1>7 DEF Upload, runner, RunnerType
    <2>2. SharedType' /\ raised' \in [Runners -> SUBSET FailedSteps]
      <3>1. Raise(r, "upload") \/ UNCHANGED <<runtime_errors, raised>>  BY <1>7 DEF Upload
      <3>2. "upload" \in FailedSteps  BY DEF FailedSteps, DriverFaults
      <3> QED  BY <1>7, <3>1, <3>2, RaiseType DEF Upload, SharedType
    <2>3. pc' \in [Runners -> Labels]  BY <1>7 DEF Upload, Go, CallType, Labels
    <2>4. /\ mapping' \in [Runners -> [SlotIds -> {None, "mapped", "rejected"}]]
          /\ left_mapped' \in [Runners -> SUBSET SlotIds]
      <3>1. Unmapped(r, slot[r]) \/ UNCHANGED <<mapping, left_mapped>>  BY <1>7 DEF Upload
      <3>2. CASE Unmapped(r, slot[r])
        <4>1. mapping' \in [Runners -> [SlotIds -> {None, "mapped", "rejected"}]]
          BY <3>2 DEF Unmapped, BuffersType, CallType
        <4>2. left_mapped' \in [Runners -> SUBSET SlotIds]
          BY <3>2 DEF Unmapped, BuffersType
        <4> QED  BY <4>1, <4>2
      <3>3. CASE UNCHANGED <<mapping, left_mapped>>  BY <3>3 DEF BuffersType
      <3> QED  BY <3>1, <3>2, <3>3
    <2>5. gpu' \in [Runners -> [SlotIds -> {None, "stale", "input", "output", "invalid"}]]
      <3>1. gpu \in [Runners -> [SlotIds -> GpuContents]] /\ slot[r] \in SlotIds
        BY DEF BuffersType, CallType, GpuContents
      <3>2. PICK v \in GpuContents : gpu' = [gpu EXCEPT ![r][slot[r]] = v]
        BY <1>7, <3>1 DEF Upload, GpuContents
      <3> QED  BY <3>1, <3>2, CellType DEF GpuContents
    <2> QED  BY <1>7, <2>1, <2>2, <2>3, <2>4, <2>5 DEF Upload, BuffersType, CallType
  <1>8. ASSUME NEW r \in Runners, EncodeRejected(r)  PROVE TypeOK'
    <2>1. SharedType' /\ BuffersType'
      BY <1>8 DEF EncodeRejected, wgpuShared, buffers, SharedType, BuffersType
    <2>2. Fail(r, "capacity", {"control"})  BY <1>8 DEF EncodeRejected
    <2>3. {"control"} \in SUBSET FailedSteps  BY DEF FailedSteps, DriverFaults
    <2>4. Returned /\ fallback_reason' \in [Runners -> Errors]  BY <2>2, <2>3, FailType
    <2> QED  BY <1>8, <2>1, <2>4 DEF EncodeRejected, RunnerType, CallType, Returned
  <1>9. ASSUME NEW r \in Runners, SubmitWithDownload(r)  PROVE TypeOK'
    <2>1. RunnerType'  BY <1>9 DEF SubmitWithDownload, runner, RunnerType
    <2>2. SharedType' /\ raised' \in [Runners -> SUBSET FailedSteps]
      <3>1. Raise(r, CopyFailure(r, {0})) \/ UNCHANGED <<runtime_errors, raised>>
        BY <1>9 DEF SubmitWithDownload
      <3>2. CopyFailure(r, {0}) \in FailedSteps
        BY DEF CopyFailure, FailedSteps, DriverFaults
      <3> QED  BY <1>9, <3>1, <3>2, RaiseType DEF SubmitWithDownload, SharedType
    <2>3. pc' \in [Runners -> Labels]  BY <1>9 DEF SubmitWithDownload, Go, CallType, Labels
    <2>4. mapping' \in [Runners -> [SlotIds -> {None, "mapped", "rejected"}]]
      BY <1>9 DEF SubmitWithDownload, MapAsync, BuffersType
    <2>5. gpu' \in [Runners -> [SlotIds -> {None, "stale", "input", "output", "invalid"}]]
      <3>1. gpu \in [Runners -> [SlotIds -> GpuContents]]  BY DEF BuffersType, GpuContents
      <3>2. PICK v \in GpuContents : gpu' = [gpu EXCEPT ![r][0] = v]
        BY <1>9, <3>1 DEF SubmitWithDownload, Processed, Unprocessed, GpuContents
      <3> QED  BY <3>1, <3>2, CellType DEF GpuContents
    <2>6. staging' \in [Runners -> [SlotIds -> {"stale", "output"}]]
      <3>1. staging \in [Runners -> [SlotIds -> {"stale", "output"}]]  BY DEF BuffersType
      <3>2. PICK v \in {"stale", "output"} : staging' = [staging EXCEPT ![r][0] = v]
        BY <1>9 DEF SubmitWithDownload, Processed
      <3> QED  BY <3>1, <3>2, CellType
    <2> QED  BY <1>9, <2>1, <2>2, <2>3, <2>4, <2>5, <2>6 DEF SubmitWithDownload, BuffersType, CallType
  <1>10. ASSUME NEW r \in Runners, SubmitEffect(r)  PROVE TypeOK'
    <2>1. RunnerType'  BY <1>10 DEF SubmitEffect, runner, RunnerType
    <2>2. SharedType' /\ raised' \in [Runners -> SUBSET FailedSteps]
      <3>1. Raise(r, "submit") \/ UNCHANGED <<runtime_errors, raised>>  BY <1>10 DEF SubmitEffect
      <3>2. "submit" \in FailedSteps  BY DEF FailedSteps, DriverFaults
      <3> QED  BY <1>10, <3>1, <3>2, RaiseType DEF SubmitEffect, SharedType
    <2>3. pc' \in [Runners -> Labels] /\ slot' \in [Runners -> SlotIds]
      BY <1>10 DEF SubmitEffect, Go, CallType, Labels
    <2>4. gpu' \in [Runners -> [SlotIds -> {None, "stale", "input", "output", "invalid"}]]
      <3>1. gpu \in [Runners -> [SlotIds -> GpuContents]] /\ slot[r] \in SlotIds
        BY DEF BuffersType, CallType, GpuContents
      <3>2. PICK v \in GpuContents : gpu' = [gpu EXCEPT ![r][slot[r]] = v]
        BY <1>10, <3>1 DEF SubmitEffect, Processed, Unprocessed, GpuContents
      <3> QED  BY <3>1, <3>2, CellType DEF GpuContents
    <2> QED  BY <1>10, <2>1, <2>2, <2>3, <2>4 DEF SubmitEffect, BuffersType, CallType
  <1>11. ASSUME NEW r \in Runners, EnqueueDownloads(r)  PROVE TypeOK'
    <2>1. RunnerType'  BY <1>11 DEF EnqueueDownloads, runner, RunnerType
    <2>2. SharedType' /\ raised' \in [Runners -> SUBSET FailedSteps]
      <3>1. Raise(r, CopyFailure(r, Slots(kind[r]))) \/ UNCHANGED <<runtime_errors, raised>>
        BY <1>11 DEF EnqueueDownloads
      <3>2. CopyFailure(r, Slots(kind[r])) \in FailedSteps
        BY DEF CopyFailure, FailedSteps, DriverFaults
      <3> QED  BY <1>11, <3>1, <3>2, RaiseType DEF EnqueueDownloads, SharedType
    <2>3. pc' \in [Runners -> Labels]  BY <1>11 DEF EnqueueDownloads, Go, CallType, Labels
    <2>4. mapping' \in [Runners -> [SlotIds -> {None, "mapped", "rejected"}]]
      <3>1. PICK m \in [Slots(kind[r]) -> {"mapped", "rejected"}] :
              mapping' = [mapping EXCEPT ![r] = [s \in SlotIds |->
                IF s \in Slots(kind[r]) THEN m[s] ELSE @[s]]]
        BY <1>11 DEF EnqueueDownloads
      <3> QED  BY <3>1 DEF BuffersType
    <2>5. staging' \in [Runners -> [SlotIds -> {"stale", "output"}]]
      <3>1. staging \in [Runners -> [SlotIds -> {"stale", "output"}]]  BY DEF BuffersType
      <3> DEFINE copied == [s \in SlotIds |->
                   IF s \in Slots(kind[r]) THEN Copied(gpu[r][s]) ELSE staging[r][s]]
                 rejected == [s \in SlotIds |->
                   IF s \in Slots(kind[r]) THEN "stale" ELSE staging[r][s]]
      <3>2. /\ copied \in [SlotIds -> {"stale", "output"}]
            /\ rejected \in [SlotIds -> {"stale", "output"}]
        BY <3>1 DEF Copied
      <3>3. \/ staging' = [staging EXCEPT ![r] = copied]
            \/ staging' = [staging EXCEPT ![r] = rejected]
        BY <1>11 DEF EnqueueDownloads
      <3> QED  BY <3>1, <3>2, <3>3, RowType
    <2> QED  BY <1>11, <2>1, <2>2, <2>3, <2>4, <2>5 DEF EnqueueDownloads, BuffersType, CallType
  <1>12. ASSUME NEW r \in Runners, WaitForSubmittedWork(r)  PROVE TypeOK'
    <2>1. SharedType'  BY <1>12 DEF WaitForSubmittedWork, wgpuShared, SharedType
    <2>2. BuffersType'
      <3>1. mapping' = [mapping EXCEPT ![r][0] = None] \/ UNCHANGED mapping
        BY <1>12 DEF WaitForSubmittedWork
      <3>2. mapping \in [Runners -> [SlotIds -> MapStates]] /\ 0 \in SlotIds /\ None \in MapStates
        BY DEF BuffersType, MapStates, SlotIds
      <3>3. mapping' \in [Runners -> [SlotIds -> MapStates]]
        <4>1. CASE mapping' = [mapping EXCEPT ![r][0] = None]  BY <4>1, <3>2, CellType
        <4>2. CASE UNCHANGED mapping  BY <4>2, <3>2
        <4> QED  BY <3>1, <4>1, <4>2
      <3>4. left_mapped' \in [Runners -> SUBSET SlotIds]
        <4>1. Slots(kind[r]) \subseteq SlotIds  BY DEF Slots
        <4> QED  BY <1>12, <4>1 DEF WaitForSubmittedWork, BuffersType
      <3> QED  BY <1>12, <3>3, <3>4 DEF WaitForSubmittedWork, BuffersType, MapStates
    <2>3. slot' \in [Runners -> SlotIds]
      BY <1>12 DEF WaitForSubmittedWork, FirstSlot, CallType
    <2>4. Returned /\ fallback_reason' \in [Runners -> Errors]
      <3>1. CASE Go(r, "finish") /\ UNCHANGED <<fallback_reason, mapping, left_mapped, kind, error, result, raised>>
        BY <3>1 DEF Go, Returned, CallType, RunnerType, Labels
      <3>2. CASE Fail(r, IF device_lost THEN "device_lost" ELSE "runtime", {"poll"})
        <4>1. {"poll"} \in SUBSET FailedSteps  BY DEF FailedSteps, DriverFaults
        <4> QED  BY <3>2, <4>1, FailType
      <3> QED  BY <1>12, <3>1, <3>2 DEF WaitForSubmittedWork
    <2> QED  BY <1>12, <2>1, <2>2, <2>3, <2>4
             DEF WaitForSubmittedWork, RunnerType, CallType, Returned
  <1>13. ASSUME NEW r \in Runners, FinishDownload(r)  PROVE TypeOK'
    <2>1. SharedType'  BY <1>13 DEF FinishDownload, SharedType
    <2>2. BuffersType'
      <3>1. Unmap(r) \/ UNCHANGED mapping  BY <1>13 DEF FinishDownload
      <3> QED  BY <1>13, <3>1, UnmapType DEF FinishDownload, BuffersType, MapStates
    <2>3. /\ Returned
          /\ fallback_reason' \in [Runners -> Errors]
          /\ last_backend' \in [Runners -> Resolved]
          /\ slot' \in [Runners -> SlotIds]
      <3>1. CASE NextSlot(r, "device_lost", {})  BY <3>1, NextSlotType
      <3>2. CASE NextSlot(r, "readback", {"map"})
        <4>1. {"map"} \in SUBSET FailedSteps  BY DEF FailedSteps, DriverFaults
        <4> QED  BY <3>2, <4>1, NextSlotType
      <3>3. CASE /\ Go(r, "take")
                 /\ UNCHANGED <<runtime_errors, fallback_reason, last_backend, kind, slot,
                                mapping, error, result, raised>>
        BY <3>3 DEF Go, Returned, CallType, RunnerType, Labels
      <3> QED  BY <1>13, <3>1, <3>2, <3>3 DEF FinishDownload
    <2> QED  BY <1>13, <2>1, <2>2, <2>3 DEF FinishDownload, RunnerType, CallType, Returned
  <1>14. ASSUME NEW r \in Runners, TakeErrors(r)  PROVE TypeOK'
    <2>1. SharedType'  BY <1>14 DEF TakeErrors, ClearErrors, SharedType
    <2>2. BuffersType'
      <3>1. Unmap(r)  BY <1>14 DEF TakeErrors
      <3>2. dst \in [Runners -> [SlotIds -> DstContents]] /\ slot[r] \in SlotIds
        BY DEF BuffersType, CallType, DstContents
      <3>3. staging[r][slot[r]] \in DstContents  BY <3>2 DEF BuffersType, DstContents
      <3>4. dst' \in [Runners -> [SlotIds -> DstContents]]
        <4>1. \/ dst' = [dst EXCEPT ![r][slot[r]] = staging[r][slot[r]]]
              \/ UNCHANGED dst
          BY <1>14 DEF TakeErrors
        <4>2. [dst EXCEPT ![r][slot[r]] = staging[r][slot[r]]]
                \in [Runners -> [SlotIds -> DstContents]]
          <5> HIDE DEF SlotIds
          <5> QED  BY <3>2, <3>3, CellType
        <4> QED  BY <3>2, <4>1, <4>2
      <3> QED  BY <1>14, <3>1, <3>4, UnmapType
               DEF TakeErrors, BuffersType, MapStates, DstContents
    <2>3. /\ Returned
          /\ fallback_reason' \in [Runners -> Errors]
          /\ last_backend' \in [Runners -> Resolved]
          /\ slot' \in [Runners -> SlotIds]
      <3>1. CASE NextSlot(r, "runtime", {})  BY <3>1, NextSlotType
      <3>2. CASE NextSlot(r, None, {})  BY <3>2, NextSlotType
      <3> QED  BY <1>14, <3>1, <3>2 DEF TakeErrors
    <2> QED  BY <1>14, <2>1, <2>2, <2>3 DEF TakeErrors, RunnerType, CallType, Returned
  <1>15. CASE LoseDevice
    BY <1>15 DEF LoseDevice, runner, buffers, call, SharedType, RunnerType, BuffersType, CallType
  <1>16. CASE UNCHANGED vars
    BY <1>16 DEF vars, SharedType, RunnerType, BuffersType, CallType
  <1> QED
    BY <1>1, <1>2, <1>3, <1>4, <1>5, <1>6, <1>7, <1>8, <1>9, <1>10, <1>11, <1>12, <1>13,
       <1>14, <1>15, <1>16 DEF Next, Step

\* Every reachable state is well typed.
THEOREM TypeCorrect == Spec => []TypeOK
  <1> QED  BY InitType, NextType, PTL DEF Spec

-----------------------------------------------------------------------------
(* The fallback policy                                                     *)

\* What is true of a thread at every point of a call. FallbackPolicy speaks of
\* the end of a call only; that the reason it reports was stored by an
\* initialization, adapter or capacity failure follows from how the call got
\* there: past the entry the runner is a WGPU runner, and a runner resolved to
\* the CPU keeps the reason NtscEffectRunner::new gave it.
PolicyAt(r) ==
  /\ pc[r] # "idle" =>
       /\ result[r] = None
       /\ requested[r] \in {"auto", "wgpu"}
       /\ cached[r] # None
       /\ error[r] \in {None, "device_lost", "readback", "runtime"}
  /\ pc[r] \notin {"idle", "enter"} => backend_type[r] = "wgpu"
  /\ cached[r] # None /\ backend_type[r] = "cpu" =>
       fallback_reason[r] \in {"initialization", "unavailable"}
  /\ result[r] = "ok_cpu" =>
       \/ requested[r] = "cpu"
       \/ /\ requested[r] = "auto"
          /\ fallback_reason[r] \in {"initialization", "unavailable", "capacity"}
          /\ last_backend[r] = "cpu"
  /\ requested[r] = "auto" /\ result[r] \in {"initialization", "unavailable", "capacity"} =>
       "control" \in raised[r]

PolicyInv == \A r \in Runners : PolicyAt(r)

\* A frame fails for a reason an automatic request must not fall back on, or
\* the request is explicit, or the direct path retries it.
LEMMA ReturnErrPolicy ==
  ASSUME CallType, NEW r \in Runners, PolicyAt(r), pc[r] # "idle",
         NEW e \in FailureKinds, NEW steps, ReturnErr(r, e, steps),
         UNCHANGED <<cached, backend_type, requested>>,
         backend_type[r] = "cpu" => fallback_reason'[r] = fallback_reason[r],
         \/ e \in {"device_lost", "readback", "runtime"}
         \/ requested[r] = "wgpu"
         \/ kind[r] = "direct"
         \/ "control" \in steps
  PROVE  PolicyAt(r)'
  <1>1. CASE Retries(r)
    <2>1. /\ pc' = [pc EXCEPT ![r] = "enter"]
          /\ error' = [error EXCEPT ![r] = None]
          /\ raised' = [raised EXCEPT ![r] = {}]
          /\ UNCHANGED result
      BY <1>1 DEF ReturnErr
    <2> QED  BY <2>1 DEF PolicyAt, CallType
  <1>2. CASE ~Retries(r)
    <2>1. /\ pc' = [pc EXCEPT ![r] = "idle"]
          /\ result' = [result EXCEPT ![r] = e]
          /\ raised' = [raised EXCEPT ![r] = @ \cup steps]
      BY <1>2 DEF ReturnErr
    <2> QED  BY <1>2, <2>1 DEF PolicyAt, CallType, Retries
  <1> QED  BY <1>1, <1>2

LEMMA FailPolicy ==
  ASSUME CallType, RunnerType, NEW r \in Runners, PolicyAt(r), pc[r] # "idle",
         backend_type[r] = "wgpu",
         NEW e \in FailureKinds, NEW steps, Fail(r, e, steps),
         UNCHANGED <<cached, backend_type, requested>>,
         \/ e \in {"device_lost", "readback", "runtime"}
         \/ requested[r] = "wgpu"
         \/ kind[r] = "direct"
         \/ "control" \in steps
  PROVE  PolicyAt(r)'
  BY ReturnErrPolicy DEF Fail

LEMMA NextSlotPolicy ==
  ASSUME CallType, RunnerType, NEW r \in Runners, PolicyAt(r), pc[r] \in {"finish", "take"},
         NEW e \in {None, "device_lost", "readback", "runtime"}, NEW steps,
         NextSlot(r, e, steps), UNCHANGED <<cached, backend_type, requested>>
  PROVE  PolicyAt(r)'
  <1> DEFINE first == IF error[r] # None THEN error[r] ELSE e
  <1>1. first \in {None, "device_lost", "readback", "runtime"}  BY DEF PolicyAt
  <1>2. backend_type[r] = "wgpu"  BY DEF PolicyAt
  <1>3. CASE MoreFields(r)
    <2>1. /\ pc' = [pc EXCEPT ![r] = "finish"]
          /\ error' = [error EXCEPT ![r] = first]
          /\ UNCHANGED <<fallback_reason, last_backend, result>>
      BY <1>3 DEF NextSlot, Go
    <2> QED  BY <1>1, <1>2, <2>1 DEF PolicyAt, CallType
  <1>4. CASE ~MoreFields(r) /\ first = None
    <2>1. ReturnOk(r, "wgpu")  BY <1>4 DEF NextSlot
    <2> QED  BY <1>2, <2>1 DEF PolicyAt, CallType, ReturnOk
  <1>5. CASE ~MoreFields(r) /\ first # None
    <2>1. Fail(r, first, steps)  BY <1>5 DEF NextSlot
    <2> QED  BY <1>1, <1>2, <1>5, <2>1, FailPolicy
  <1> QED  BY <1>3, <1>4, <1>5

\* A step of one thread leaves another thread's call alone.
SameCall(q) ==
  /\ pc'[q] = pc[q] /\ requested'[q] = requested[q] /\ kind'[q] = kind[q]
  /\ error'[q] = error[q] /\ result'[q] = result[q] /\ raised'[q] = raised[q]
  /\ cached'[q] = cached[q] /\ backend_type'[q] = backend_type[q]
  /\ fallback_reason'[q] = fallback_reason[q] /\ last_backend'[q] = last_backend[q]

LEMMA OtherThreads ==
  ASSUME CallType, RunnerType, NEW r \in Runners, NEW q \in Runners, q # r,
         \/ Step(r)
         \/ \E p \in Preferences : UseFreshRunner(r, p) \/ \E k \in Kinds : UseRunner(r, p, k)
  PROVE  SameCall(q)
  <1> USE DEF SameCall, CallType, RunnerType
  <1>1. ASSUME NEW e, NEW steps, ReturnErr(r, e, steps)
        PROVE  /\ pc'[q] = pc[q] /\ kind'[q] = kind[q] /\ error'[q] = error[q]
               /\ result'[q] = result[q] /\ raised'[q] = raised[q]
    BY <1>1 DEF ReturnErr
  <1>2. ASSUME NEW e, NEW steps, Fail(r, e, steps)
        PROVE  /\ pc'[q] = pc[q] /\ kind'[q] = kind[q] /\ error'[q] = error[q]
               /\ result'[q] = result[q] /\ raised'[q] = raised[q]
               /\ fallback_reason'[q] = fallback_reason[q]
    BY <1>1, <1>2 DEF Fail
  <1>3. ASSUME NEW e, NEW steps, NextSlot(r, e, steps)
        PROVE  /\ pc'[q] = pc[q] /\ kind'[q] = kind[q] /\ error'[q] = error[q]
               /\ result'[q] = result[q] /\ raised'[q] = raised[q]
               /\ fallback_reason'[q] = fallback_reason[q]
               /\ last_backend'[q] = last_backend[q]
    BY <1>2, <1>3 DEF NextSlot, Go, ReturnOk
  <1>4. ASSUME NEW p, UseFreshRunner(r, p)  PROVE SameCall(q)
    BY <1>4 DEF UseFreshRunner, runner
  <1>5. ASSUME NEW p, NEW k, UseRunner(r, p, k)  PROVE SameCall(q)
    BY <1>5 DEF UseRunner, runner
  <1>6. CASE EnterOnCpu(r)  BY <1>1, <1>6 DEF EnterOnCpu, ReturnOk
  <1>7. CASE EnterOnWgpu(r)  BY <1>2, <1>7 DEF EnterOnWgpu, ReturnOk
  <1>8. CASE BeginExecution(r) \/ BeginAgain(r)
    BY <1>8 DEF BeginExecution, BeginAgain, Go, runner
  <1>9. CASE CheckDeviceLoss(r)  BY <1>2, <1>9 DEF CheckDeviceLoss, Go
  <1>10. CASE Upload(r)  BY <1>10 DEF Upload, Go, Raise, runner
  <1>11. CASE EncodeRejected(r)  BY <1>2, <1>11 DEF EncodeRejected
  <1>12. CASE SubmitWithDownload(r)
    <2>1. Raise(r, CopyFailure(r, {0})) \/ UNCHANGED <<runtime_errors, raised>>
      BY <1>12 DEF SubmitWithDownload
    <2>2. raised'[q] = raised[q]  BY <2>1 DEF Raise
    <2>3. pc'[q] = pc[q]  BY <1>12 DEF SubmitWithDownload, Go
    <2> QED  BY <1>12, <2>2, <2>3 DEF SubmitWithDownload, runner
  <1>13. CASE SubmitEffect(r)
    <2>1. Raise(r, "submit") \/ UNCHANGED <<runtime_errors, raised>>  BY <1>13 DEF SubmitEffect
    <2>2. raised'[q] = raised[q]  BY <2>1 DEF Raise
    <2>3. pc'[q] = pc[q]  BY <1>13 DEF SubmitEffect, Go
    <2> QED  BY <1>13, <2>2, <2>3 DEF SubmitEffect, runner
  <1>14. CASE EnqueueDownloads(r)
    <2>1. Raise(r, CopyFailure(r, Slots(kind[r]))) \/ UNCHANGED <<runtime_errors, raised>>
      BY <1>14 DEF EnqueueDownloads
    <2>2. raised'[q] = raised[q]  BY <2>1 DEF Raise
    <2>3. pc'[q] = pc[q]  BY <1>14 DEF EnqueueDownloads, Go
    <2> QED  BY <1>14, <2>2, <2>3 DEF EnqueueDownloads, runner
  <1>15. CASE WaitForSubmittedWork(r)  BY <1>2, <1>15 DEF WaitForSubmittedWork, Go
  <1>16. CASE FinishDownload(r)  BY <1>3, <1>16 DEF FinishDownload, Go
  <1>17. CASE TakeErrors(r)  BY <1>3, <1>17 DEF TakeErrors
  <1> QED
    BY <1>4, <1>5, <1>6, <1>7, <1>8, <1>9, <1>10, <1>11, <1>12, <1>13, <1>14, <1>15, <1>16,
       <1>17 DEF Step

LEMMA InitPolicy == Init => PolicyInv
  BY DEF Init, PolicyInv, PolicyAt

LEMMA NextPolicy == TypeOK /\ PolicyInv /\ [Next]_vars => PolicyInv'
  <1> SUFFICES ASSUME TypeOK, PolicyInv, [Next]_vars PROVE PolicyInv'  OBVIOUS
  <1> USE DEF TypeOK
  <1>1. ASSUME NEW r \in Runners, NEW p \in Preferences, UseFreshRunner(r, p)
        PROVE  PolicyAt(r)'
    <2>1. PolicyAt(r)  BY DEF PolicyInv
    <2> QED  BY <1>1, <2>1 DEF UseFreshRunner, runner, PolicyAt, CallType, RunnerType
  <1>2. ASSUME NEW r \in Runners, NEW p \in Preferences, NEW k \in Kinds, UseRunner(r, p, k)
        PROVE  PolicyAt(r)'
    <2>1. PolicyAt(r)  BY DEF PolicyInv
    <2>2. CASE cached[r] = p /\ UNCHANGED <<shared, runner, buffers>>
      BY <1>2, <2>1, <2>2 DEF UseRunner, runner, PolicyAt, CallType, RunnerType
    <2>3. CASE \E outcome \in IF shared = "unset" THEN InitOutcomes ELSE {shared} :
                 /\ shared' = outcome
                 /\ backend_type' = [backend_type EXCEPT ![r] =
                      IF ResolvesToWgpu(p, outcome) THEN "wgpu" ELSE "cpu"]
                 /\ fallback_reason' =
                      [fallback_reason EXCEPT ![r] = ResolveFailure(p, outcome)]
      <3>1. PICK outcome : /\ backend_type' = [backend_type EXCEPT ![r] =
                                IF ResolvesToWgpu(p, outcome) THEN "wgpu" ELSE "cpu"]
                           /\ fallback_reason' =
                                [fallback_reason EXCEPT ![r] = ResolveFailure(p, outcome)]
        BY <2>3
      <3>2. backend_type'[r] = "cpu" => fallback_reason'[r] \in {"initialization", "unavailable"}
        BY <3>1 DEF RunnerType, ResolveFailure, ResolvesToWgpu
      <3>3. cached'[r] = p  BY <1>2 DEF UseRunner, runner, RunnerType
      <3>4. /\ pc'[r] = "enter" /\ requested'[r] = p /\ p \in {"auto", "wgpu"}
            /\ error'[r] = None /\ result'[r] = None
        BY <1>2 DEF UseRunner, CallType
      <3> QED  BY <3>2, <3>3, <3>4 DEF PolicyAt
    <2> QED  BY <1>2, <2>2, <2>3 DEF UseRunner
  <1>3. ASSUME NEW r \in Runners, EnterOnCpu(r)  PROVE PolicyAt(r)'
    <2>1. PolicyAt(r) /\ pc[r] # "idle"  BY <1>3 DEF PolicyInv, EnterOnCpu
    <2>2. UNCHANGED <<cached, backend_type, requested, fallback_reason>>
      BY <1>3 DEF EnterOnCpu
    <2>3. fallback_reason[r] \in {"initialization", "unavailable"}
      BY <1>3, <2>1 DEF EnterOnCpu, PolicyAt
    <2>4. CASE kind[r] = "direct" /\ ReturnErr(r, "unavailable", {})
      BY <2>1, <2>2, <2>4, ReturnErrPolicy
    <2>5. CASE requested[r] = "wgpu" /\ ReturnErr(r, fallback_reason[r], {})
      BY <2>1, <2>2, <2>3, <2>5, ReturnErrPolicy
    <2>6. CASE /\ requested[r] = "auto" /\ ReturnOk(r, "cpu")
               /\ last_backend' = [last_backend EXCEPT ![r] = "cpu"]
      BY <2>1, <2>2, <2>3, <2>6 DEF ReturnOk, PolicyAt, CallType, RunnerType
    <2> QED  BY <1>3, <2>4, <2>5, <2>6 DEF EnterOnCpu
  <1>4. ASSUME NEW r \in Runners, EnterOnWgpu(r)  PROVE PolicyAt(r)'
    <2>1. PolicyAt(r) /\ pc[r] # "idle" /\ backend_type[r] = "wgpu"
      BY <1>4 DEF PolicyInv, EnterOnWgpu
    <2>2. UNCHANGED <<cached, backend_type, requested>>  BY <1>4 DEF EnterOnWgpu
    <2>3. CASE ReturnOk(r, "wgpu")
      BY <2>1, <2>2, <2>3 DEF ReturnOk, PolicyAt, CallType
    <2>4. CASE /\ requested[r] = "auto" /\ kind[r] # "direct"
               /\ last_backend' =
                    IF kind[r] = "direct" THEN last_backend ELSE [last_backend EXCEPT ![r] = "cpu"]
               /\ fallback_reason' = [fallback_reason EXCEPT ![r] = "capacity"]
               /\ ReturnOk(r, "cpu")
      BY <2>1, <2>2, <2>4 DEF ReturnOk, PolicyAt, CallType, RunnerType
    <2>5. CASE ~(requested[r] = "auto" /\ kind[r] # "direct") /\ Fail(r, "capacity", {})
      <3>1. requested[r] = "wgpu" \/ kind[r] = "direct"  BY <2>1, <2>5 DEF PolicyAt
      <3> QED  BY <2>1, <2>2, <2>5, <3>1, FailPolicy
    <2>6. CASE pc' = [pc EXCEPT ![r] = "begin"] /\ UNCHANGED <<kind, dst, error, result, raised>>
      BY <2>1, <2>2, <2>6 DEF PolicyAt, CallType
    <2> QED  BY <1>4, <2>3, <2>4, <2>5, <2>6 DEF EnterOnWgpu
  <1>5. ASSUME NEW r \in Runners,
               \/ BeginExecution(r) \/ BeginAgain(r) \/ Upload(r)
               \/ SubmitWithDownload(r) \/ SubmitEffect(r) \/ EnqueueDownloads(r)
        PROVE  PolicyAt(r)'
    <2>1. PolicyAt(r)  BY DEF PolicyInv
    <2>2. /\ pc[r] \notin {"idle", "enter"} /\ pc'[r] # "idle"
          /\ UNCHANGED <<runner, requested, error, result>>
      BY <1>5 DEF BeginExecution, BeginAgain, Upload, SubmitWithDownload, SubmitEffect,
                  EnqueueDownloads, Go, CallType
    <2> QED  BY <2>1, <2>2 DEF PolicyAt, runner
  <1>6. ASSUME NEW r \in Runners,
               CheckDeviceLoss(r) \/ EncodeRejected(r) \/ WaitForSubmittedWork(r)
        PROVE  PolicyAt(r)'
    <2>1. /\ PolicyAt(r) /\ pc[r] \notin {"idle", "enter"}
          /\ UNCHANGED <<cached, backend_type, last_backend, requested>>
      BY <1>6 DEF PolicyInv, CheckDeviceLoss, EncodeRejected, WaitForSubmittedWork
    <2>2. pc[r] # "idle" /\ backend_type[r] = "wgpu"  BY <2>1 DEF PolicyAt
    <2>3. CASE Fail(r, "device_lost", {})  BY <2>1, <2>2, <2>3, FailPolicy
    <2>4. CASE Fail(r, "capacity", {"control"})  BY <2>1, <2>2, <2>4, FailPolicy
    <2>5. CASE Fail(r, IF device_lost THEN "device_lost" ELSE "runtime", {"poll"})
      BY <2>1, <2>2, <2>5, FailPolicy
    <2>6. CASE \/ Go(r, "upload") /\ UNCHANGED <<fallback_reason, error, result, raised>>
               \/ Go(r, "finish") /\ UNCHANGED <<fallback_reason, error, result, raised>>
      BY <2>1, <2>2, <2>6 DEF Go, PolicyAt, CallType
    <2> QED  BY <1>6, <2>3, <2>4, <2>5, <2>6
             DEF CheckDeviceLoss, EncodeRejected, WaitForSubmittedWork
  <1>7. ASSUME NEW r \in Runners, FinishDownload(r) \/ TakeErrors(r)
        PROVE  PolicyAt(r)'
    <2>1. /\ PolicyAt(r) /\ pc[r] \in {"finish", "take"}
          /\ UNCHANGED <<cached, backend_type, requested>>
      BY <1>7 DEF PolicyInv, FinishDownload, TakeErrors
    <2>2. CASE Go(r, "take") /\ UNCHANGED <<fallback_reason, last_backend, error, result, raised>>
      BY <2>1, <2>2 DEF Go, PolicyAt, CallType
    <2>3. CASE \E e \in {None, "device_lost", "readback", "runtime"} : \E steps : NextSlot(r, e, steps)
      BY <2>1, <2>3, NextSlotPolicy
    <2> QED  BY <1>7, <2>2, <2>3 DEF FinishDownload, TakeErrors
  <1>8. ASSUME NEW r \in Runners,
               \/ Step(r)
               \/ \E p \in Preferences : UseFreshRunner(r, p) \/ \E k \in Kinds : UseRunner(r, p, k)
        PROVE  PolicyInv'
    <2>1. PolicyAt(r)'
      BY <1>1, <1>2, <1>3, <1>4, <1>5, <1>6, <1>7, <1>8 DEF Step
    <2>2. ASSUME NEW q \in Runners, q # r  PROVE PolicyAt(q)'
      BY <1>8, <2>2, OtherThreads DEF SameCall, PolicyInv, PolicyAt
    <2> QED  BY <2>1, <2>2 DEF PolicyInv
  <1>9. CASE LoseDevice
    BY <1>9 DEF LoseDevice, runner, call, PolicyInv, PolicyAt
  <1>10. CASE UNCHANGED vars
    BY <1>10 DEF vars, PolicyInv, PolicyAt
  <1> QED  BY <1>8, <1>9, <1>10 DEF Next

\* Explicit requests are never served by the CPU, automatic ones only for an
\* initialization, adapter or capacity reason: for any number of threads.
THEOREM FallbackPolicyHolds == Spec => []FallbackPolicy
  <1>1. PolicyInv => FallbackPolicy  BY DEF PolicyInv, PolicyAt, FallbackPolicy
  <1> QED  BY <1>1, InitType, NextType, InitPolicy, NextPolicy, PTL DEF Spec

\* An automatic request never fails for a reason it may fall back on.
THEOREM AutoFallsBackHolds == Spec => []AutoFallsBack
  <1>1. PolicyInv => AutoFallsBack  BY DEF PolicyInv, PolicyAt, AutoFallsBack
  <1> QED  BY <1>1, InitType, NextType, InitPolicy, NextPolicy, PTL DEF Spec

-----------------------------------------------------------------------------
(* Failed steps are reported, in a process with one worker thread          *)

\* The failures an Ok may hide: the progressive path's second begin_execution
\* forgets a failed upload.
Forgotten(k) == IF k = "single" THEN {"upload"} ELSE {}

\* Until the shared list is taken, a step that failed is in it or in the call's
\* readback_error.
Pending(r) == raised[r] \subseteq Forgotten(kind[r]) \/ r \in runtime_errors

ReportAt(r) ==
  /\ pc[r] = "idle" => (result[r] = "ok_wgpu" => raised[r] \subseteq Forgotten(kind[r]))
  /\ pc[r] # "idle" => result[r] = None
  /\ pc[r] \in {"enter", "begin", "check"} => raised[r] = {}
  /\ pc[r] \notin {"idle", "finish", "take"} => error[r] = None
  /\ pc[r] = "upload" => raised[r] = {} \/ (kind[r] # "single" /\ r \in runtime_errors)
  /\ pc[r] = "again" => kind[r] = "single" /\ raised[r] \subseteq {"upload"}
  /\ pc[r] \in {"encode", "download", "wait"} => Pending(r)
  /\ pc[r] \in {"finish", "take"} => Pending(r) \/ error[r] # None

ReportInv == \A r \in Runners : ReportAt(r)

LEMMA ReturnErrReport ==
  ASSUME CallType, NEW r \in Runners, ReportAt(r), pc[r] # "idle",
         NEW e \in FailureKinds, NEW steps, ReturnErr(r, e, steps)
  PROVE  ReportAt(r)'
  <1>1. CASE Retries(r)
    <2>1. /\ pc'[r] = "enter" /\ error'[r] = None /\ raised'[r] = {}
          /\ UNCHANGED result
      BY <1>1 DEF ReturnErr, CallType
    <2> QED  BY <2>1 DEF ReportAt
  <1>2. CASE ~Retries(r)
    <2>1. pc'[r] = "idle" /\ result'[r] = e  BY <1>2 DEF ReturnErr, CallType
    <2> QED  BY <2>1 DEF ReportAt
  <1> QED  BY <1>1, <1>2

\* The shared list may be emptied by the step once its errors, if any, decide e.
LEMMA NextSlotReport ==
  ASSUME CallType, NEW r \in Runners, ReportAt(r), pc[r] \in {"finish", "take"},
         NEW e \in {None, "device_lost", "readback", "runtime"}, NEW steps,
         NextSlot(r, e, steps),
         e = None => r \notin runtime_errors /\ steps = {}
  PROVE  ReportAt(r)'
  <1> DEFINE first == IF error[r] # None THEN error[r] ELSE e
  <1>1. first \in Errors /\ result[r] = None  BY DEF CallType, ReportAt
  <1>2. first = None => raised[r] \subseteq Forgotten(kind[r])
    BY DEF ReportAt, Pending
  <1>3. CASE MoreFields(r)
    <2>1. /\ pc'[r] = "finish" /\ error'[r] = first /\ raised'[r] = raised[r] \cup steps
          /\ UNCHANGED <<result, kind>>
      BY <1>3 DEF NextSlot, Go, CallType
    <2> QED  BY <1>1, <1>2, <2>1 DEF ReportAt, Pending
  <1>4. CASE ~MoreFields(r) /\ first = None
    <2>1. pc'[r] = "idle" /\ UNCHANGED <<kind, raised>>
      BY <1>4 DEF NextSlot, ReturnOk, CallType
    <2> QED  BY <1>2, <1>4, <2>1 DEF ReportAt
  <1>5. CASE ~MoreFields(r) /\ first # None
    <2>1. ReturnErr(r, first, steps)  BY <1>5 DEF NextSlot, Fail
    <2> QED  BY <1>1, <1>5, <2>1, ReturnErrReport
  <1> QED  BY <1>3, <1>4, <1>5

\* A submission that failed is in the list, together with what failed before.
LEMMA RaiseReport ==
  ASSUME SharedType, CallType, NEW r \in Runners, NEW step,
         Raise(r, step) \/ UNCHANGED <<runtime_errors, raised>>, UNCHANGED kind
  PROVE  /\ Pending(r) => Pending(r)'
         /\ raised[r] = {} \/ r \in runtime_errors
              => raised'[r] = {} \/ r \in runtime_errors'
         /\ raised[r] = {} => raised'[r] \subseteq {step}
  BY DEF Raise, Pending, SharedType, CallType

LEMMA InitReport == Init => ReportInv
  BY DEF Init, ReportInv, ReportAt

OneThread == \A a, b \in Runners : a = b

LEMMA NextReport == OneThread /\ TypeOK /\ ReportInv /\ [Next]_vars => ReportInv'
  <1> SUFFICES ASSUME OneThread, TypeOK, ReportInv, [Next]_vars PROVE ReportInv'  OBVIOUS
  <1> USE DEF TypeOK
  <1>1. ASSUME NEW r \in Runners, NEW p \in Preferences,
               UseFreshRunner(r, p) \/ \E k \in Kinds : UseRunner(r, p, k)
        PROVE  ReportAt(r)'
    <2>1. /\ pc'[r] \in {"idle", "enter"} /\ raised'[r] = {} /\ error'[r] = None
          /\ pc'[r] = "enter" => result'[r] = None
      BY <1>1 DEF UseFreshRunner, UseRunner, CallType
    <2> QED  BY <2>1 DEF ReportAt
  <1>2. ASSUME NEW r \in Runners, EnterOnCpu(r)  PROVE ReportAt(r)'
    <2>1. ReportAt(r) /\ pc[r] # "idle"  BY <1>2 DEF ReportInv, EnterOnCpu
    <2>2. CASE ReturnErr(r, "unavailable", {})  BY <2>1, <2>2, ReturnErrReport
    <2>3. CASE ReturnErr(r, fallback_reason[r], {})
      <3>1. CASE fallback_reason[r] = None
        <4>1. CASE Retries(r)
          <5>1. /\ pc'[r] = "enter" /\ error'[r] = None /\ raised'[r] = {}
                /\ UNCHANGED result
            BY <2>3, <4>1 DEF ReturnErr, CallType
          <5> QED  BY <2>1, <5>1 DEF ReportAt
        <4>2. CASE ~Retries(r)
          <5>1. pc'[r] = "idle" /\ result'[r] = None
            BY <2>3, <3>1, <4>2 DEF ReturnErr, CallType
          <5> QED  BY <5>1 DEF ReportAt
        <4> QED  BY <4>1, <4>2
      <3>2. CASE fallback_reason[r] # None
        <4>1. fallback_reason[r] \in FailureKinds  BY <3>2 DEF RunnerType
        <4> QED  BY <2>1, <2>3, <4>1, ReturnErrReport
      <3> QED  BY <3>1, <3>2
    <2>4. CASE ReturnOk(r, "cpu")
      <3>1. pc'[r] = "idle" /\ result'[r] = "ok_cpu"  BY <2>4 DEF ReturnOk, CallType
      <3> QED  BY <3>1 DEF ReportAt
    <2> QED  BY <1>2, <2>2, <2>3, <2>4 DEF EnterOnCpu
  <1>3. ASSUME NEW r \in Runners, EnterOnWgpu(r)  PROVE ReportAt(r)'
    <2>1. ReportAt(r) /\ pc[r] = "enter"  BY <1>3 DEF ReportInv, EnterOnWgpu
    <2>2. ASSUME NEW actual, ReturnOk(r, actual)  PROVE ReportAt(r)'
      <3>1. pc'[r] = "idle" /\ raised'[r] = {}
        BY <2>1, <2>2 DEF ReturnOk, ReportAt, CallType
      <3> QED  BY <3>1 DEF ReportAt
    <2>3. CASE Fail(r, "capacity", {})  BY <2>1, <2>3, ReturnErrReport DEF Fail
    <2>4. CASE pc' = [pc EXCEPT ![r] = "begin"] /\ UNCHANGED <<kind, dst, error, result, raised>>
      BY <2>1, <2>4 DEF ReportAt, CallType
    <2> QED  BY <1>3, <2>2, <2>3, <2>4 DEF EnterOnWgpu
  <1>4. ASSUME NEW r \in Runners, BeginExecution(r)  PROVE ReportAt(r)'
    <2>1. ReportAt(r) /\ pc[r] = "begin" /\ pc'[r] = "check" /\ UNCHANGED <<error, result, raised>>
      BY <1>4 DEF ReportInv, BeginExecution, Go, CallType
    <2> QED  BY <2>1 DEF ReportAt
  <1>5. ASSUME NEW r \in Runners, CheckDeviceLoss(r)  PROVE ReportAt(r)'
    <2>1. ReportAt(r) /\ pc[r] = "check"  BY <1>5 DEF ReportInv, CheckDeviceLoss
    <2>2. CASE Fail(r, "device_lost", {})  BY <2>1, <2>2, ReturnErrReport DEF Fail
    <2>3. CASE Go(r, "upload") /\ UNCHANGED <<fallback_reason, kind, error, result, raised>>
      BY <2>1, <2>3 DEF Go, ReportAt, CallType
    <2> QED  BY <1>5, <2>2, <2>3 DEF CheckDeviceLoss
  <1>6. ASSUME NEW r \in Runners, Upload(r)  PROVE ReportAt(r)'
    <2>1. /\ ReportAt(r) /\ pc[r] = "upload" /\ UNCHANGED <<kind, error, result>>
          /\ pc'[r] = IF kind[r] = "single" THEN "again" ELSE "encode"
      BY <1>6 DEF ReportInv, Upload, Go, CallType
    <2>2. Raise(r, "upload") \/ UNCHANGED <<runtime_errors, raised>>  BY <1>6 DEF Upload
    <2>3. raised[r] = {} \/ r \in runtime_errors  BY <2>1 DEF ReportAt
    <2>4. CASE kind[r] = "single"
      <3>1. raised[r] = {}  BY <2>1, <2>4 DEF ReportAt
      <3>2. raised'[r] \subseteq {"upload"}  BY <2>1, <2>2, <3>1, RaiseReport
      <3> QED  BY <2>1, <2>4, <3>2 DEF ReportAt
    <2>5. CASE kind[r] # "single"
      <3>1. raised'[r] = {} \/ r \in runtime_errors'  BY <2>1, <2>2, <2>3, RaiseReport
      <3> QED  BY <2>1, <2>5, <3>1 DEF ReportAt, Pending
    <2> QED  BY <2>4, <2>5
  <1>7. ASSUME NEW r \in Runners, BeginAgain(r)  PROVE ReportAt(r)'
    <2>1. /\ ReportAt(r) /\ pc[r] = "again" /\ pc'[r] = "encode"
          /\ UNCHANGED <<kind, error, result, raised>>
      BY <1>7 DEF ReportInv, BeginAgain, Go, CallType
    <2> QED  BY <2>1 DEF ReportAt, Pending, Forgotten
  <1>8. ASSUME NEW r \in Runners, EncodeRejected(r)  PROVE ReportAt(r)'
    <2>1. ReportAt(r) /\ pc[r] # "idle" /\ ReturnErr(r, "capacity", {"control"})
      BY <1>8 DEF ReportInv, EncodeRejected, Fail
    <2> QED  BY <2>1, ReturnErrReport
  <1>9. ASSUME NEW r \in Runners,
               SubmitWithDownload(r) \/ SubmitEffect(r) \/ EnqueueDownloads(r)
        PROVE  ReportAt(r)'
    <2>1. ReportAt(r)  BY DEF ReportInv
    <2>2. /\ pc[r] \in {"encode", "download"} /\ UNCHANGED <<kind, error, result>>
          /\ (\E step : Raise(r, step)) \/ UNCHANGED <<runtime_errors, raised>>
      BY <1>9 DEF SubmitWithDownload, SubmitEffect, EnqueueDownloads
    <2>3. pc'[r] \in {"wait", "download"} \/ (pc'[r] = "upload" /\ kind[r] = "fields")
      BY <1>9 DEF SubmitWithDownload, SubmitEffect, EnqueueDownloads, MoreFields, Go, CallType
    <2>4. Pending(r)'  BY <2>1, <2>2, RaiseReport DEF ReportAt
    <2> QED  BY <2>1, <2>2, <2>3, <2>4 DEF ReportAt, Pending, Forgotten
  <1>10. ASSUME NEW r \in Runners, WaitForSubmittedWork(r)  PROVE ReportAt(r)'
    <2>1. ReportAt(r) /\ pc[r] = "wait" /\ UNCHANGED runtime_errors
      BY <1>10 DEF ReportInv, WaitForSubmittedWork, wgpuShared
    <2>2. CASE Fail(r, IF device_lost THEN "device_lost" ELSE "runtime", {"poll"})
      BY <2>1, <2>2, ReturnErrReport DEF Fail
    <2>3. CASE Go(r, "finish") /\ UNCHANGED <<fallback_reason, mapping, left_mapped, kind, error, result, raised>>
      BY <2>1, <2>3 DEF Go, ReportAt, Pending, CallType
    <2> QED  BY <1>10, <2>2, <2>3 DEF WaitForSubmittedWork
  <1>11. ASSUME NEW r \in Runners, FinishDownload(r)  PROVE ReportAt(r)'
    <2>1. ReportAt(r) /\ pc[r] = "finish"  BY <1>11 DEF ReportInv, FinishDownload
    <2>2. CASE NextSlot(r, "device_lost", {}) \/ NextSlot(r, "readback", {"map"})
      BY <2>1, <2>2, NextSlotReport
    <2>3. CASE Go(r, "take") /\ UNCHANGED <<runtime_errors, kind, error, result, raised>>
      BY <2>1, <2>3 DEF Go, ReportAt, Pending, CallType
    <2> QED  BY <1>11, <2>2, <2>3 DEF FinishDownload
  <1>12. ASSUME NEW r \in Runners, TakeErrors(r)  PROVE ReportAt(r)'
    <2>1. ReportAt(r) /\ pc[r] = "take"  BY <1>12 DEF ReportInv, TakeErrors
    <2>2. CASE NextSlot(r, "runtime", {})  BY <2>1, <2>2, NextSlotReport
    <2>3. CASE runtime_errors = {} /\ NextSlot(r, None, {})
      BY <2>1, <2>3, NextSlotReport
    <2> QED  BY <1>12, <2>2, <2>3 DEF TakeErrors
  <1>13. CASE LoseDevice  BY <1>13 DEF LoseDevice, call, ReportInv, ReportAt, Pending
  <1>14. CASE UNCHANGED vars  BY <1>14 DEF vars, ReportInv, ReportAt, Pending
  <1>15. ASSUME NEW r \in Runners, ReportAt(r)'  PROVE ReportInv'
    <2>1. ASSUME NEW q \in Runners  PROVE ReportAt(q)'
      <3>1. q = r  BY DEF OneThread
      <3> QED  BY <1>15, <3>1
    <2> QED  BY <2>1 DEF ReportInv
  <1>16. ASSUME NEW r \in Runners, Step(r)  PROVE ReportAt(r)'
    BY <1>2, <1>3, <1>4, <1>5, <1>6, <1>7, <1>8, <1>9, <1>10, <1>11, <1>12, <1>16 DEF Step
  <1> QED  BY <1>1, <1>13, <1>14, <1>15, <1>16 DEF Next

\* In a process with one worker thread a frame that returned Ok from the GPU had
\* no failed step but, on the progressive path, an upload. The run
\* WgpuRunnerSharedErrors shows why the hypothesis is needed.
THEOREM SubmitFailuresReportedHolds ==
  ASSUME OneThread
  PROVE  Spec => []SubmitFailuresReported
  <1>1. TypeOK /\ ReportInv => SubmitFailuresReported
    BY DEF ReportInv, ReportAt, Forgotten, SubmitFailuresReported
  <1>2. TypeOK /\ ReportInv /\ [Next]_vars => ReportInv'  BY OneThread, NextReport
  <1> QED  BY <1>1, <1>2, InitType, NextType, InitReport, PTL DEF Spec

-----------------------------------------------------------------------------
(***************************************************************************)
(* Proofs about WgpuRunner, continued: what the caller's planes and the    *)
(* staging buffers hold when a frame returns. For any number of worker     *)
(* threads, whatever the others do to the shared error list: a thread's    *)
(* buffers are its own. The last section is about one thread.              *)
(***************************************************************************)

-----------------------------------------------------------------------------
(* The inductive invariant                                                 *)

\* The slots of a frame that a loop over them has left behind.
Behind(r) == {s \in Slots(kind[r]) : s < slot[r]}

\* Past the entry the slot is one of the frame's, at first the first; the loop of submissions has
\* reached the last one when the copies are submitted.
SlotAt(r) ==
  /\ pc[r] \notin {"idle", "enter"} => slot[r] \in Slots(kind[r])
  /\ pc[r] \in {"begin", "check"} => Behind(r) = {}
  /\ pc[r] = "again" => kind[r] = "single"
  /\ pc[r] \in {"download", "wait"} => ~MoreFields(r)

\* CPU pixels appear with the result that announces them.
OneBackendAt(r) ==
  IF pc[r] = "idle" /\ result[r] = "ok_cpu"
  THEN \A s \in SlotIds : dst[r][s] = "cpu"
  ELSE \A s \in SlotIds : dst[r][s] # "cpu"

\* The readback loop unmaps each slot it leaves behind.
UnmappedAt(r) ==
  pc[r] \in {"finish", "take"} =>
    \A s \in Behind(r) : mapping[r][s] = None /\ (kind[r] # "direct" => s \notin left_mapped[r])

\* While no step of the call has failed, its pixels go from the caller to the
\* plane buffers, through the effect to the staging buffers and back.
FreshAt(r) ==
  raised[r] = {} =>
    /\ pc[r] \in {"upload", "encode"} => \A s \in Behind(r) : gpu[r][s] = "output"
    /\ pc[r] \in {"again", "encode"} => gpu[r][slot[r]] = "input"
    /\ pc[r] = "download" => \A s \in Slots(kind[r]) : gpu[r][s] = "output"
    /\ pc[r] \in {"wait", "finish", "take"} => \A s \in Slots(kind[r]) : staging[r][s] = "output"
    /\ pc[r] \in {"finish", "take"} /\ error[r] = None =>
         \A s \in Behind(r) : dst[r][s] = "output"
    /\ result[r] = "ok_wgpu" => \A s \in Slots(kind[r]) : dst[r][s] = "output"

FrameAt(r) == SlotAt(r) /\ OneBackendAt(r) /\ UnmappedAt(r) /\ FreshAt(r)

FrameInv == \A r \in Runners : FrameAt(r)

LEMMA InitFrame == Init => FrameInv
  BY DEF Init, FrameInv, FrameAt, SlotAt, OneBackendAt, UnmappedAt, FreshAt

-----------------------------------------------------------------------------
(* Leaving a frame                                                         *)

\* An error leaves the frame, or restarts it.
LEMMA ReturnErrFrame ==
  ASSUME CallType, NEW r \in Runners, FrameAt(r), pc[r] # "idle", result[r] = None,
         NEW e \in Errors, NEW steps, ReturnErr(r, e, steps),
         dst'[r] = dst[r]
  PROVE  FrameAt(r)'
  <1>1. \A s \in SlotIds : dst[r][s] # "cpu"  BY DEF FrameAt, OneBackendAt
  <1>2. /\ pc'[r] \in {"idle", "enter"}
        /\ result'[r] \notin {"ok_cpu", "ok_wgpu"}
    BY DEF ReturnErr, CallType
  <1> QED  BY <1>1, <1>2 DEF FrameAt, SlotAt, OneBackendAt, UnmappedAt, FreshAt

\* One slot read back: its staging buffers are unmapped, and its planes copied
\* out when no error was found.
LEMMA NextSlotFrame ==
  ASSUME TypeOK, NEW r \in Runners, FrameAt(r), pc[r] \in {"finish", "take"},
         result[r] = None,
         NEW e \in {None, "device_lost", "readback", "runtime"}, NEW steps,
         NextSlot(r, e, steps), Unmap(r), UNCHANGED staging,
         e = None => steps = {},
         dst' = IF e = None THEN [dst EXCEPT ![r][slot[r]] = staging[r][slot[r]]] ELSE dst
  PROVE  FrameAt(r)'
  <1> DEFINE first == IF error[r] # None THEN error[r] ELSE e
  <1> USE DEF TypeOK
  <1>1. first \in Errors /\ slot[r] \in Slots(kind[r])  BY DEF CallType, FrameAt, SlotAt
  <1>2. /\ \A s \in SlotIds : mapping'[r][s] = IF s = slot[r] THEN None ELSE mapping[r][s]
        /\ left_mapped'[r] = IF kind[r] = "direct" THEN left_mapped[r]
                                                 ELSE left_mapped[r] \ {slot[r]}
    BY UnmapEffect
  <1>3. \A s \in SlotIds : dst'[r][s] =
          IF e = None /\ s = slot[r] THEN staging[r][s] ELSE dst[r][s]
    BY DEF BuffersType, CallType
  <1>4. \A s \in SlotIds : dst'[r][s] # "cpu"
    <2>1. \A s \in SlotIds : dst[r][s] # "cpu" /\ staging[r][s] # "cpu"
      BY DEF FrameAt, OneBackendAt, BuffersType
    <2> QED  BY <1>3, <2>1
  <1>5. Behind(r) \cup {slot[r]} \subseteq SlotIds  BY <1>1 DEF Behind, Slots
  <1>6. \A s \in Behind(r) \cup {slot[r]} :
          mapping'[r][s] = None /\ (kind[r] # "direct" => s \notin left_mapped'[r])
    BY <1>2, <1>5 DEF FrameAt, UnmappedAt
  <1>7. raised[r] = {} /\ first = None =>
          \A s \in Behind(r) \cup {slot[r]} : dst'[r][s] = "output"
    BY <1>1, <1>3, <1>5 DEF FrameAt, FreshAt, Behind
  <1>8. CASE MoreFields(r)
    <2>1. /\ pc'[r] = "finish" /\ slot'[r] = 1 /\ error'[r] = first /\ kind'[r] = kind[r]
          /\ result'[r] = result[r] /\ raised'[r] = raised[r] \cup steps
      BY <1>8 DEF NextSlot, Go, CallType
    <2>2. kind[r] = "fields" /\ slot[r] = 0  BY <1>8 DEF MoreFields
    <2>3. Behind(r)' = {0} /\ 1 \in Slots(kind[r])  BY <2>1, <2>2 DEF Behind, Slots
    <2>4. SlotAt(r)' /\ OneBackendAt(r)'
      BY <1>4, <2>1, <2>3 DEF SlotAt, OneBackendAt, MoreFields
    <2>5. UnmappedAt(r)'  BY <1>6, <2>1, <2>2, <2>3 DEF UnmappedAt
    <2>6. FreshAt(r)'
      BY <1>7, <2>1, <2>2, <2>3 DEF FrameAt, FreshAt, CallType
    <2> QED  BY <2>4, <2>5, <2>6 DEF FrameAt
  <1>9. CASE ~MoreFields(r)
    <2>1. Slots(kind[r]) = Behind(r) \cup {slot[r]}
      BY <1>1, <1>9 DEF MoreFields, Behind, Slots
    <2>2. pc'[r] = "enter" \/ (pc'[r] = "idle" /\ kind'[r] = kind[r])
      BY <1>9 DEF NextSlot, ReturnOk, Fail, ReturnErr, CallType
    <2>3. pc'[r] = "enter" => result'[r] = None
      BY <1>9 DEF NextSlot, ReturnOk, Fail, ReturnErr, CallType
    <2>4. result'[r] # "ok_cpu"
      BY <1>1, <1>9 DEF NextSlot, ReturnOk, Fail, ReturnErr, CallType
    <2>5. result'[r] = "ok_wgpu" => first = None /\ raised'[r] = raised[r]
      BY <1>1, <1>9 DEF NextSlot, ReturnOk, Fail, ReturnErr, CallType
    <2>6. SlotAt(r)' /\ OneBackendAt(r)'  BY <1>4, <2>2, <2>4 DEF SlotAt, OneBackendAt
    <2>7. UnmappedAt(r)'  BY <1>6, <2>1, <2>2, <2>3 DEF UnmappedAt
    <2>8. FreshAt(r)'  BY <1>7, <2>1, <2>2, <2>3, <2>5 DEF FreshAt
    <2> QED  BY <2>6, <2>7, <2>8 DEF FrameAt
  <1> QED  BY <1>8, <1>9

-----------------------------------------------------------------------------
(* A step of one thread leaves another thread's buffers alone              *)

SameBuffers(q) ==
  /\ slot'[q] = slot[q] /\ gpu'[q] = gpu[q] /\ staging'[q] = staging[q]
  /\ mapping'[q] = mapping[q] /\ left_mapped'[q] = left_mapped[q] /\ dst'[q] = dst[q]

LEMMA OtherBuffers ==
  ASSUME TypeOK, NEW r \in Runners, NEW q \in Runners, q # r,
         \/ Step(r)
         \/ \E p \in Preferences : UseFreshRunner(r, p) \/ \E k \in Kinds : UseRunner(r, p, k)
  PROVE  SameBuffers(q)
  <1> USE DEF SameBuffers, TypeOK, CallType, BuffersType
  <1>1. ASSUME NEW e, NEW steps, NextSlot(r, e, steps)  PROVE slot'[q] = slot[q]
    BY <1>1 DEF NextSlot
  <1>2. ASSUME NEW p, UseFreshRunner(r, p)  PROVE SameBuffers(q)
    BY <1>2 DEF UseFreshRunner, buffers
  <1>3. ASSUME NEW p, NEW k, UseRunner(r, p, k)  PROVE SameBuffers(q)
    BY <1>3 DEF UseRunner, buffers
  <1>4. CASE EnterOnCpu(r)  BY <1>4 DEF EnterOnCpu, ProcessOnCpu, buffers
  <1>5. CASE EnterOnWgpu(r)  BY <1>5 DEF EnterOnWgpu, ProcessOnCpu, buffers
  <1>6. CASE BeginExecution(r) \/ BeginAgain(r)
    BY <1>6 DEF BeginExecution, BeginAgain, buffers
  <1>7. CASE CheckDeviceLoss(r) \/ EncodeRejected(r)
    BY <1>7 DEF CheckDeviceLoss, EncodeRejected, buffers
  <1>8. CASE Upload(r)
    <2>1. gpu'[q] = gpu[q]  BY <1>8 DEF Upload
    <2>2. mapping'[q] = mapping[q] /\ left_mapped'[q] = left_mapped[q]
      <3>1. Unmapped(r, slot[r]) \/ UNCHANGED <<mapping, left_mapped>>  BY <1>8 DEF Upload
      <3> QED  BY <3>1 DEF Unmapped
    <2> QED  BY <1>8, <2>1, <2>2 DEF Upload
  <1>9. CASE SubmitWithDownload(r)
    <2>1. gpu'[q] = gpu[q] /\ staging'[q] = staging[q]  BY <1>9 DEF SubmitWithDownload
    <2>2. mapping'[q] = mapping[q]  BY <1>9 DEF SubmitWithDownload
    <2> QED  BY <1>9, <2>1, <2>2 DEF SubmitWithDownload
  <1>10. CASE SubmitEffect(r)
    <2>1. gpu'[q] = gpu[q]  BY <1>10 DEF SubmitEffect
    <2>2. slot'[q] = slot[q]  BY <1>10 DEF SubmitEffect
    <2> QED  BY <1>10, <2>1, <2>2 DEF SubmitEffect
  <1>11. CASE EnqueueDownloads(r)
    <2>1. staging'[q] = staging[q]  BY <1>11 DEF EnqueueDownloads
    <2>2. mapping'[q] = mapping[q]  BY <1>11 DEF EnqueueDownloads
    <2> QED  BY <1>11, <2>1, <2>2 DEF EnqueueDownloads
  <1>12. CASE WaitForSubmittedWork(r)  BY <1>12 DEF WaitForSubmittedWork
  <1>13. CASE FinishDownload(r)
    <2>1. mapping'[q] = mapping[q] /\ left_mapped'[q] = left_mapped[q]
      BY <1>13 DEF FinishDownload, Unmap, Unmapped
    <2>2. slot'[q] = slot[q]  BY <1>1, <1>13 DEF FinishDownload
    <2> QED  BY <1>13, <2>1, <2>2 DEF FinishDownload
  <1>14. CASE TakeErrors(r)
    <2>1. mapping'[q] = mapping[q] /\ left_mapped'[q] = left_mapped[q]
      BY <1>14 DEF TakeErrors, Unmap, Unmapped
    <2>2. slot'[q] = slot[q] /\ dst'[q] = dst[q]  BY <1>1, <1>14 DEF TakeErrors
    <2> QED  BY <1>14, <2>1, <2>2 DEF TakeErrors
  <1> QED
    BY <1>2, <1>3, <1>4, <1>5, <1>6, <1>7, <1>8, <1>9, <1>10, <1>11, <1>12, <1>13, <1>14
    DEF Step

-----------------------------------------------------------------------------
(* Every step preserves the invariant                                      *)

LEMMA NextFrame == TypeOK /\ PolicyInv /\ FrameInv /\ [Next]_vars => FrameInv'
  <1> SUFFICES ASSUME TypeOK, PolicyInv, FrameInv, [Next]_vars PROVE FrameInv'  OBVIOUS
  <1> USE DEF TypeOK
  <1>0. ASSUME NEW r \in Runners, pc[r] # "idle"
        PROVE  /\ FrameAt(r) /\ result[r] = None
               /\ \A s \in SlotIds : dst[r][s] # "cpu"
    BY <1>0 DEF PolicyInv, PolicyAt, FrameInv, FrameAt, OneBackendAt
  <1>1. ASSUME NEW r \in Runners, NEW p \in Preferences, UseFreshRunner(r, p)
        PROVE  FrameAt(r)'
    <2>1. /\ pc'[r] = "idle" /\ result'[r] = IF p = "cpu" THEN "ok_cpu" ELSE "unavailable"
          /\ \A s \in SlotIds : dst'[r][s] = IF p = "cpu" THEN "cpu" ELSE "input"
      BY <1>1 DEF UseFreshRunner, CallType, BuffersType
    <2> QED  BY <2>1 DEF FrameAt, SlotAt, OneBackendAt, UnmappedAt, FreshAt
  <1>2. ASSUME NEW r \in Runners, NEW p \in Preferences, NEW k \in Kinds, UseRunner(r, p, k)
        PROVE  FrameAt(r)'
    <2>1. /\ pc'[r] = "enter" /\ result'[r] = None
          /\ \A s \in SlotIds : dst'[r][s] = "input"
      BY <1>2 DEF UseRunner, CallType, BuffersType
    <2> QED  BY <2>1 DEF FrameAt, SlotAt, OneBackendAt, UnmappedAt, FreshAt
  <1>3. ASSUME NEW r \in Runners, ProcessOnCpu(r), ReturnOk(r, "cpu")
        PROVE  FrameAt(r)'
    <2>1. /\ pc'[r] = "idle" /\ result'[r] = "ok_cpu"
          /\ \A s \in SlotIds : dst'[r][s] = "cpu"
      BY <1>3 DEF ProcessOnCpu, ReturnOk, CallType, BuffersType
    <2> QED  BY <2>1 DEF FrameAt, SlotAt, OneBackendAt, UnmappedAt, FreshAt
  <1>4. ASSUME NEW r \in Runners, EnterOnCpu(r)  PROVE FrameAt(r)'
    <2>1. pc[r] # "idle" /\ FrameAt(r) /\ result[r] = None  BY <1>0, <1>4 DEF EnterOnCpu
    <2>2. fallback_reason[r] \in Errors  BY DEF RunnerType
    <2>3. CASE ReturnErr(r, "unavailable", {}) /\ UNCHANGED dst
      BY <2>1, <2>3, ReturnErrFrame
    <2>4. CASE ReturnErr(r, fallback_reason[r], {}) /\ UNCHANGED dst
      BY <2>1, <2>2, <2>4, ReturnErrFrame
    <2> QED  BY <1>3, <1>4, <2>3, <2>4 DEF EnterOnCpu
  <1>5. ASSUME NEW r \in Runners, EnterOnWgpu(r)  PROVE FrameAt(r)'
    <2>1. /\ pc[r] # "idle" /\ FrameAt(r) /\ result[r] = None
          /\ \A s \in SlotIds : dst[r][s] # "cpu"
      BY <1>0, <1>5 DEF EnterOnWgpu
    <2>2. CASE kind[r] = "empty" /\ ReturnOk(r, "wgpu") /\ UNCHANGED dst
      <3>1. pc'[r] = "idle" /\ result'[r] = "ok_wgpu" /\ Slots(kind'[r]) = {}
        BY <2>2 DEF ReturnOk, CallType, Slots
      <3> QED  BY <2>1, <2>2, <3>1 DEF FrameAt, SlotAt, OneBackendAt, UnmappedAt, FreshAt
    <2>3. CASE Fail(r, "capacity", {}) /\ UNCHANGED dst
      BY <2>1, <2>3, ReturnErrFrame DEF Fail
    <2>4. CASE /\ kind[r] # "empty"
               /\ slot' = [slot EXCEPT ![r] = FirstSlot(kind[r])]
               /\ pc' = [pc EXCEPT ![r] = "begin"]
               /\ UNCHANGED <<kind, dst, error, result, raised>>
      <3>1. pc'[r] = "begin" /\ slot'[r] = FirstSlot(kind[r]) /\ result'[r] = None
        BY <2>1, <2>4 DEF CallType
      <3>2. slot'[r] \in Slots(kind'[r]) /\ Behind(r)' = {}
        BY <2>4, <3>1 DEF FirstSlot, Slots, Behind, CallType, FrameKinds
      <3> QED  BY <2>1, <2>4, <3>1, <3>2 DEF FrameAt, SlotAt, OneBackendAt, UnmappedAt, FreshAt
    <2> QED  BY <1>3, <1>5, <2>2, <2>3, <2>4 DEF EnterOnWgpu
  <1>6. ASSUME NEW r \in Runners, BeginExecution(r) \/ BeginAgain(r)  PROVE FrameAt(r)'
    <2>1. /\ pc[r] # "idle" /\ FrameAt(r) /\ result[r] = None
          /\ \A s \in SlotIds : dst[r][s] # "cpu"
      BY <1>0, <1>6 DEF BeginExecution, BeginAgain
    <2>2. /\ \/ pc[r] = "begin" /\ pc'[r] = "check"
             \/ pc[r] = "again" /\ pc'[r] = "encode"
          /\ UNCHANGED <<buffers, kind, slot, dst, error, result, raised>>
      BY <1>6 DEF BeginExecution, BeginAgain, Go, CallType
    <2>3. pc[r] = "again" => Behind(r) = {}  BY <2>1 DEF FrameAt, SlotAt, Behind, Slots
    <2> QED  BY <2>1, <2>2, <2>3
             DEF FrameAt, SlotAt, OneBackendAt, UnmappedAt, FreshAt, Behind, buffers
  <1>7. ASSUME NEW r \in Runners, CheckDeviceLoss(r)  PROVE FrameAt(r)'
    <2>1. pc[r] = "check" /\ FrameAt(r) /\ result[r] = None
      BY <1>0, <1>7 DEF CheckDeviceLoss
    <2>2. CASE Fail(r, "device_lost", {})
      BY <1>7, <2>1, <2>2, ReturnErrFrame DEF CheckDeviceLoss, Fail
    <2>3. CASE Go(r, "upload") /\ UNCHANGED <<kind, error, result, raised>>
      <3>1. pc'[r] = "upload" /\ UNCHANGED <<slot, dst, buffers, kind, error, result, raised>>
        BY <1>7, <2>3 DEF CheckDeviceLoss, Go, CallType
      <3> QED  BY <2>1, <3>1
               DEF FrameAt, SlotAt, OneBackendAt, UnmappedAt, FreshAt, Behind, buffers
    <2> QED  BY <1>7, <2>2, <2>3 DEF CheckDeviceLoss
  <1>8. ASSUME NEW r \in Runners, Upload(r)  PROVE FrameAt(r)'
    <2>1. /\ pc[r] = "upload" /\ FrameAt(r) /\ result[r] = None
          /\ \A s \in SlotIds : dst[r][s] # "cpu"
      BY <1>0, <1>8 DEF Upload
    <2>2. /\ pc'[r] = IF kind[r] = "single" THEN "again" ELSE "encode"
          /\ UNCHANGED <<staging, kind, slot, dst, error, result>>
      BY <1>8 DEF Upload, Go, CallType
    <2>3. \A s \in SlotIds : s # slot[r] => gpu'[r][s] = gpu[r][s]
      BY <1>8 DEF Upload, BuffersType, CallType
    <2>4. raised'[r] = {} => raised[r] = {} /\ gpu'[r][slot[r]] = "input"
      <3>1. CASE Raise(r, "upload")  BY <3>1 DEF Raise, CallType
      <3>2. CASE gpu' = [gpu EXCEPT ![r][slot[r]] = "input"] /\ UNCHANGED raised
        BY <3>2 DEF BuffersType, CallType
      <3> QED  BY <1>8, <3>1, <3>2 DEF Upload
    <2>5. slot[r] \in Slots(kind[r]) /\ Behind(r) \subseteq SlotIds \ {slot[r]}
      BY <2>1 DEF FrameAt, SlotAt, Behind, Slots
    <2> QED  BY <2>1, <2>2, <2>3, <2>4, <2>5
             DEF FrameAt, SlotAt, OneBackendAt, UnmappedAt, FreshAt, Behind
  <1>9. ASSUME NEW r \in Runners, EncodeRejected(r)  PROVE FrameAt(r)'
    <2>1. pc[r] # "idle" /\ FrameAt(r) /\ result[r] = None
      BY <1>0, <1>9 DEF EncodeRejected
    <2> QED  BY <1>9, <2>1, ReturnErrFrame DEF EncodeRejected, Fail
  <1>10. ASSUME NEW r \in Runners, SubmitWithDownload(r)  PROVE FrameAt(r)'
    <2>1. /\ pc[r] = "encode" /\ kind[r] = "single" /\ FrameAt(r) /\ result[r] = None
          /\ \A s \in SlotIds : dst[r][s] # "cpu"
      BY <1>0, <1>10 DEF SubmitWithDownload
    <2>2. /\ pc'[r] = "wait" /\ UNCHANGED <<kind, slot, dst, error, result>>
      BY <1>10 DEF SubmitWithDownload, Go, CallType
    <2>3. Slots(kind[r]) = {0} /\ slot[r] = 0
      BY <2>1 DEF FrameAt, SlotAt, Slots
    <2>4. raised'[r] = {} => raised[r] = {} /\ staging'[r][0] = Processed(gpu[r][0])
      <3>1. CASE Raise(r, CopyFailure(r, {0}))  BY <3>1 DEF Raise, CallType
      <3>2. CASE /\ staging' = [staging EXCEPT ![r][0] = Processed(gpu[r][0])]
                 /\ UNCHANGED raised
        BY <3>2 DEF BuffersType
      <3> QED  BY <1>10, <3>1, <3>2 DEF SubmitWithDownload
    <2> QED  BY <2>1, <2>2, <2>3, <2>4
             DEF FrameAt, SlotAt, OneBackendAt, UnmappedAt, FreshAt, Processed, MoreFields
  <1>11. ASSUME NEW r \in Runners, SubmitEffect(r)  PROVE FrameAt(r)'
    <2>1. /\ pc[r] = "encode" /\ kind[r] # "single" /\ FrameAt(r) /\ result[r] = None
          /\ \A s \in SlotIds : dst[r][s] # "cpu"
      BY <1>0, <1>11 DEF SubmitEffect
    <2>2. UNCHANGED <<kind, dst, error, result, mapping, staging>>
      BY <1>11 DEF SubmitEffect
    <2>3. IF MoreFields(r) THEN slot'[r] = 1 /\ pc'[r] = "upload"
                           ELSE slot'[r] = slot[r] /\ pc'[r] = "download"
      BY <1>11 DEF SubmitEffect, Go, CallType
    <2>4. slot[r] \in Slots(kind[r])  BY <2>1 DEF FrameAt, SlotAt
    <2>5. /\ Behind(r) \cup {slot[r]} \subseteq SlotIds
          /\ IF MoreFields(r) THEN Behind(r)' = {0} /\ slot[r] = 0 /\ slot'[r] \in Slots(kind[r])
                              ELSE Slots(kind[r]) = Behind(r) \cup {slot[r]}
      BY <2>2, <2>3, <2>4 DEF MoreFields, Behind, Slots
    <2>6. raised'[r] = {} =>
            raised[r] = {} /\ \A s \in Behind(r) \cup {slot[r]} : gpu'[r][s] = "output"
      <3>1. CASE Raise(r, "submit")  BY <3>1 DEF Raise, CallType
      <3>2. CASE /\ gpu' = [gpu EXCEPT ![r][slot[r]] = Processed(@)]
                 /\ UNCHANGED raised
        <4>1. \A s \in SlotIds :
                gpu'[r][s] = IF s = slot[r] THEN Processed(gpu[r][s]) ELSE gpu[r][s]
          BY <3>2, <2>5 DEF BuffersType
        <4> QED  BY <2>1, <2>5, <3>2, <4>1 DEF FrameAt, FreshAt, Processed
      <3> QED  BY <1>11, <3>1, <3>2 DEF SubmitEffect
    <2>7. SlotAt(r)' /\ OneBackendAt(r)' /\ UnmappedAt(r)'
      BY <2>1, <2>2, <2>3, <2>4, <2>5 DEF SlotAt, OneBackendAt, UnmappedAt, MoreFields
    <2>8. FreshAt(r)'
      BY <2>1, <2>2, <2>3, <2>5, <2>6 DEF FreshAt
    <2> QED  BY <2>7, <2>8 DEF FrameAt
  <1>12. ASSUME NEW r \in Runners, EnqueueDownloads(r)  PROVE FrameAt(r)'
    <2>1. /\ pc[r] = "download" /\ FrameAt(r) /\ result[r] = None
          /\ \A s \in SlotIds : dst[r][s] # "cpu"
      BY <1>0, <1>12 DEF EnqueueDownloads
    <2>2. pc'[r] = "wait" /\ UNCHANGED <<kind, slot, dst, error, result>>
      BY <1>12 DEF EnqueueDownloads, Go, CallType
    <2>3. Slots(kind[r]) \subseteq SlotIds  BY DEF Slots
    <2>4. raised'[r] = {} =>
            raised[r] = {} /\ \A s \in Slots(kind[r]) : staging'[r][s] = Copied(gpu[r][s])
      <3>1. CASE Raise(r, CopyFailure(r, Slots(kind[r])))  BY <3>1 DEF Raise, CallType
      <3>2. CASE /\ staging' = [staging EXCEPT ![r] = [s \in SlotIds |->
                      IF s \in Slots(kind[r]) THEN Copied(gpu[r][s]) ELSE @[s]]]
                 /\ UNCHANGED raised
        BY <2>3, <3>2 DEF BuffersType
      <3> QED  BY <1>12, <3>1, <3>2 DEF EnqueueDownloads
    <2> QED  BY <2>1, <2>2, <2>4
             DEF FrameAt, SlotAt, OneBackendAt, UnmappedAt, FreshAt, Copied, MoreFields
  <1>13. ASSUME NEW r \in Runners, WaitForSubmittedWork(r)  PROVE FrameAt(r)'
    <2>1. /\ pc[r] = "wait" /\ FrameAt(r) /\ result[r] = None
          /\ \A s \in SlotIds : dst[r][s] # "cpu"
      BY <1>0, <1>13 DEF WaitForSubmittedWork
    <2>2. CASE Fail(r, IF device_lost THEN "device_lost" ELSE "runtime", {"poll"})
      BY <1>13, <2>1, <2>2, ReturnErrFrame DEF WaitForSubmittedWork, Fail
    <2>3. CASE /\ Go(r, "finish")
               /\ slot' = [slot EXCEPT ![r] = FirstSlot(kind[r])]
               /\ UNCHANGED <<fallback_reason, mapping, left_mapped, kind, error, result, raised>>
      <3>1. /\ pc'[r] = "finish" /\ slot'[r] = FirstSlot(kind[r])
            /\ UNCHANGED <<staging, dst, kind, error, result, raised>>
        BY <1>13, <2>3 DEF WaitForSubmittedWork, Go, CallType
      <3>2. slot[r] \in Slots(kind[r])  BY <2>1 DEF FrameAt, SlotAt
      <3>3. slot'[r] \in Slots(kind[r]) /\ Behind(r)' = {}
        BY <3>1, <3>2 DEF FirstSlot, Slots, Behind
      <3> QED  BY <2>1, <3>1, <3>3 DEF FrameAt, SlotAt, OneBackendAt, UnmappedAt, FreshAt
    <2> QED  BY <1>13, <2>2, <2>3 DEF WaitForSubmittedWork
  <1>14. ASSUME NEW r \in Runners, FinishDownload(r)  PROVE FrameAt(r)'
    <2>1. pc[r] = "finish" /\ FrameAt(r) /\ result[r] = None /\ UNCHANGED <<staging, dst>>
      BY <1>0, <1>14 DEF FinishDownload
    <2>2. CASE Unmap(r) /\ (NextSlot(r, "device_lost", {}) \/ NextSlot(r, "readback", {"map"}))
      BY <2>1, <2>2, NextSlotFrame
    <2>3. CASE Go(r, "take") /\ UNCHANGED <<kind, slot, mapping, left_mapped, error, result, raised>>
      <3>1. pc'[r] = "take"  BY <2>3 DEF Go, CallType
      <3> QED  BY <2>1, <2>3, <3>1
               DEF FrameAt, SlotAt, OneBackendAt, UnmappedAt, FreshAt, Behind
    <2> QED  BY <1>14, <2>2, <2>3 DEF FinishDownload
  <1>15. ASSUME NEW r \in Runners, TakeErrors(r)  PROVE FrameAt(r)'
    <2>1. /\ pc[r] = "take" /\ FrameAt(r) /\ result[r] = None
          /\ Unmap(r) /\ UNCHANGED staging
      BY <1>0, <1>15 DEF TakeErrors
    <2>2. CASE NextSlot(r, "runtime", {}) /\ UNCHANGED dst
      BY <2>1, <2>2, NextSlotFrame
    <2>3. CASE /\ dst' = [dst EXCEPT ![r][slot[r]] = staging[r][slot[r]]]
               /\ NextSlot(r, None, {})
      BY <2>1, <2>3, NextSlotFrame
    <2> QED  BY <1>15, <2>2, <2>3 DEF TakeErrors
  <1>16. ASSUME NEW r \in Runners,
                \/ Step(r)
                \/ \E p \in Preferences : UseFreshRunner(r, p) \/ \E k \in Kinds : UseRunner(r, p, k)
         PROVE  FrameInv'
    <2>1. FrameAt(r)'
      BY <1>1, <1>2, <1>4, <1>5, <1>6, <1>7, <1>8, <1>9, <1>10, <1>11, <1>12, <1>13, <1>14,
         <1>15, <1>16 DEF Step
    <2>2. ASSUME NEW q \in Runners, q # r  PROVE FrameAt(q)'
      <3>1. SameCall(q) /\ SameBuffers(q)  BY <1>16, <2>2, OtherThreads, OtherBuffers
      <3>2. FrameAt(q)  BY DEF FrameInv
      <3> QED  BY <3>1, <3>2 DEF SameCall, SameBuffers, FrameAt, SlotAt, OneBackendAt,
                                 UnmappedAt, FreshAt, Behind, MoreFields
    <2> QED  BY <2>1, <2>2 DEF FrameInv
  <1>17. CASE LoseDevice \/ UNCHANGED vars
    <2>1. UNCHANGED <<buffers, call>>  BY <1>17 DEF LoseDevice, vars, buffers, call
    <2> QED  BY <2>1 DEF buffers, call, FrameInv, FrameAt, SlotAt, OneBackendAt, UnmappedAt,
                         FreshAt, Behind, MoreFields
  <1> QED  BY <1>16, <1>17 DEF Next

\* The two backends never share a frame, for any number of threads.
THEOREM NoMixedFrameHolds == Spec => []NoMixedFrame
  <1>1. FrameInv => NoMixedFrame
    BY DEF FrameInv, FrameAt, OneBackendAt, NoMixedFrame
  <1> QED  BY <1>1, InitType, NextType, InitPolicy, NextPolicy, InitFrame, NextFrame, PTL
           DEF Spec

\* However a thread's readback ends, the frame's staging buffers are unmapped,
\* except when the poll of the YIQ path failed.
LEMMA ReleaseStep ==
  ASSUME TypeOK, FrameInv, [Next]_vars, NEW r \in Runners, InReadback(r), ~InReadback(r)'
  PROVE  \/ \A s \in Slots(kind[r]) :
              mapping'[r][s] = None /\ (kind[r] # "direct" => s \notin left_mapped'[r])
         \/ pc[r] = "wait" /\ kind[r] # "direct"
  <1> USE DEF TypeOK
  <1>1. pc'[r] # pc[r]  BY DEF InReadback
  <1>2. FrameAt(r)  BY DEF FrameInv
  <1>3. ASSUME NEW e, NEW steps, NextSlot(r, e, steps), Unmap(r), pc[r] \in {"finish", "take"}
        PROVE  \A s \in Slots(kind[r]) :
                 mapping'[r][s] = None /\ (kind[r] # "direct" => s \notin left_mapped'[r])
    <2>1. ~MoreFields(r)
      <3>1. MoreFields(r) => pc'[r] = "finish"  BY <1>3 DEF NextSlot, Go, CallType
      <3> QED  BY <3>1 DEF InReadback
    <2>2. slot[r] \in Slots(kind[r])  BY <1>2, <1>3 DEF FrameAt, SlotAt
    <2>3. Slots(kind[r]) = Behind(r) \cup {slot[r]} /\ Slots(kind[r]) \subseteq SlotIds
      BY <2>1, <2>2 DEF MoreFields, Behind, Slots
    <2>4. /\ \A s \in SlotIds : mapping'[r][s] = IF s = slot[r] THEN None ELSE mapping[r][s]
          /\ left_mapped'[r] = IF kind[r] = "direct" THEN left_mapped[r]
                                                   ELSE left_mapped[r] \ {slot[r]}
      BY <1>3, UnmapEffect
    <2>5. \A s \in Behind(r) :
            mapping[r][s] = None /\ (kind[r] # "direct" => s \notin left_mapped[r])
      BY <1>2, <1>3 DEF FrameAt, UnmappedAt
    <2> QED  BY <2>3, <2>4, <2>5
  <1>4. CASE WaitForSubmittedWork(r)
    <2>1. CASE Go(r, "finish")
      <3>1. pc'[r] = "finish"  BY <2>1 DEF Go, CallType
      <3> QED  BY <3>1 DEF InReadback
    <2>2. CASE kind[r] = "direct" => mapping' = [mapping EXCEPT ![r][0] = None]
      <3>1. pc[r] = "wait"  BY <1>4 DEF WaitForSubmittedWork
      <3>2. kind[r] = "direct" => Slots(kind[r]) = {0} /\ mapping'[r][0] = None
        BY <2>2 DEF Slots, BuffersType
      <3> QED  BY <3>1, <3>2
    <2> QED  BY <1>4, <2>1, <2>2 DEF WaitForSubmittedWork
  <1>5. CASE FinishDownload(r)
    <2>1. ~Go(r, "take")
      <3>1. Go(r, "take") => pc'[r] = "take"  BY DEF Go, CallType
      <3> QED  BY <3>1 DEF InReadback
    <2>2. /\ pc[r] = "finish" /\ Unmap(r)
          /\ NextSlot(r, "device_lost", {}) \/ NextSlot(r, "readback", {"map"})
      BY <1>5, <2>1 DEF FinishDownload
    <2> QED  BY <1>3, <2>2
  <1>6. CASE TakeErrors(r)
    <2>1. /\ pc[r] = "take" /\ Unmap(r)
          /\ NextSlot(r, "runtime", {}) \/ NextSlot(r, None, {})
      BY <1>6 DEF TakeErrors
    <2> QED  BY <1>3, <2>1
  <1>7. ASSUME NEW q \in Runners,
               \/ Step(q)
               \/ \E p \in Preferences : UseFreshRunner(q, p) \/ \E k \in Kinds : UseRunner(q, p, k)
        PROVE  WaitForSubmittedWork(r) \/ FinishDownload(r) \/ TakeErrors(r)
    <2>1. q = r
      <3>1. q # r => SameCall(r)  BY <1>7, OtherThreads
      <3> QED  BY <1>1, <3>1 DEF SameCall
    <2>2. pc[r] \notin {"idle", "enter", "begin", "check", "upload", "again", "encode", "download"}
      BY DEF InReadback
    <2> QED  BY <1>7, <2>1, <2>2
             DEF Step, UseFreshRunner, UseRunner, EnterOnCpu, EnterOnWgpu, BeginExecution,
                 CheckDeviceLoss, Upload, BeginAgain, EncodeRejected, SubmitWithDownload,
                 SubmitEffect, EnqueueDownloads
  <1>8. ~(LoseDevice \/ UNCHANGED vars)  BY <1>1 DEF LoseDevice, vars, call
  <1> QED  BY <1>4, <1>5, <1>6, <1>7, <1>8 DEF Next

\* However a readback ends, on any number of threads, it leaves no staging
\* buffer of the frame mapped, unless the poll of the YIQ path failed.
THEOREM StagingReleasedHolds == Spec => StagingReleased
  <1>1. TypeOK /\ FrameInv /\ [Next]_vars =>
          [\A r \in Runners : InReadback(r) /\ ~InReadback(r)' =>
             \/ \A s \in Slots(kind[r]) :
                  mapping'[r][s] = None /\ (kind[r] # "direct" => s \notin left_mapped'[r])
             \/ pc[r] = "wait" /\ kind[r] # "direct"]_vars
    BY ReleaseStep
  <1> QED  BY <1>1, InitType, NextType, InitPolicy, NextPolicy, InitFrame, NextFrame, PTL
           DEF Spec, StagingReleased

\* A frame read back without a failed step holds this call's output in every
\* field: whatever the thread's buffers were left with by earlier calls, and
\* for any number of threads.
THEOREM FreshPixelsHolds == Spec => []FreshPixels
  <1>1. FrameInv => FreshPixels
    BY DEF FrameInv, FrameAt, FreshAt, FreshPixels
  <1> QED  BY <1>1, InitType, NextType, InitPolicy, NextPolicy, InitFrame, NextFrame, PTL
           DEF Spec

-----------------------------------------------------------------------------
(* Staging buffers left mapped by a failed poll                            *)

\* The slots whose readback is still to come.
Unread(r) == IF pc[r] = "wait" THEN Slots(kind[r]) ELSE Slots(kind[r]) \ Behind(r)

\* After a copy into mapped staging buffers the call has an error already, or
\* finds a rejected map request at a slot it has not read yet.
LeftMappedAt(r) ==
  /\ "mapped" \in raised[r] =>
       /\ pc[r] \in {"idle", "wait", "finish", "take"}
       /\ result[r] # "ok_wgpu"
       /\ pc[r] # "idle" =>
            error[r] # None \/ \E s \in Unread(r) : mapping[r][s] = "rejected"
  /\ pc[r] = "take" => mapping[r][slot[r]] # "rejected"

LeftMappedInv == \A r \in Runners : LeftMappedAt(r)

LEMMA InitLeftMapped == Init => LeftMappedInv
  BY DEF Init, LeftMappedInv, LeftMappedAt

\* A frame that fails is not delivered.
LEMMA ReturnErrLeftMapped ==
  ASSUME CallType, NEW r \in Runners, LeftMappedAt(r),
         NEW e \in Errors, NEW steps, ReturnErr(r, e, steps), "mapped" \notin steps
  PROVE  LeftMappedAt(r)'
  <1>1. CASE Retries(r)
    <2>1. pc'[r] = "enter" /\ raised'[r] = {}  BY <1>1 DEF ReturnErr, CallType
    <2> QED  BY <2>1 DEF LeftMappedAt
  <1>2. CASE ~Retries(r)
    <2>1. pc'[r] = "idle" /\ result'[r] = e  BY <1>2 DEF ReturnErr, CallType
    <2> QED  BY <2>1 DEF LeftMappedAt
  <1> QED  BY <1>1, <1>2

\* One slot read back: its map request was not rejected, or it has an error.
LEMMA NextSlotLeftMapped ==
  ASSUME TypeOK, NEW r \in Runners, FrameAt(r), LeftMappedAt(r), pc[r] \in {"finish", "take"},
         NEW e \in {None, "device_lost", "readback", "runtime"}, NEW steps,
         NextSlot(r, e, steps), Unmap(r), "mapped" \notin steps, result[r] = None,
         e # None \/ mapping[r][slot[r]] # "rejected"
  PROVE  LeftMappedAt(r)'
  <1> DEFINE first == IF error[r] # None THEN error[r] ELSE e
  <1> USE DEF TypeOK
  <1>1. first \in Errors /\ slot[r] \in Slots(kind[r])  BY DEF CallType, FrameAt, SlotAt
  <1>2. \A s \in SlotIds : s # slot[r] => mapping'[r][s] = mapping[r][s]
    BY UnmapEffect
  <1>3. "mapped" \in raised[r] /\ first = None =>
          \E s \in Slots(kind[r]) \ Behind(r) : s # slot[r] /\ mapping[r][s] = "rejected"
    BY DEF LeftMappedAt, Unread
  <1>4. CASE MoreFields(r)
    <2>1. /\ pc'[r] = "finish" /\ slot'[r] = 1 /\ error'[r] = first /\ kind'[r] = kind[r]
          /\ result'[r] = None /\ raised'[r] = raised[r] \cup steps
      BY <1>4 DEF NextSlot, Go, CallType
    <2>2. kind[r] = "fields" /\ slot[r] = 0  BY <1>4 DEF MoreFields
    <2>3. Unread(r)' = {1} /\ Slots(kind[r]) = SlotIds
      BY <2>1, <2>2 DEF Unread, Behind, Slots
    <2>4. "mapped" \in raised[r] /\ first = None => mapping'[r][1] = "rejected"
      BY <1>2, <1>3, <2>2, <2>3
    <2> QED  BY <2>1, <2>3, <2>4 DEF LeftMappedAt
  <1>5. CASE ~MoreFields(r) /\ first = None
    <2>1. Slots(kind[r]) = Behind(r) \cup {slot[r]}
      BY <1>1, <1>5 DEF MoreFields, Behind, Slots
    <2>2. "mapped" \notin raised[r]  BY <1>3, <1>5, <2>1
    <2>3. pc'[r] = "idle" /\ raised'[r] = raised[r]
      BY <1>5 DEF NextSlot, ReturnOk, CallType
    <2> QED  BY <2>2, <2>3 DEF LeftMappedAt
  <1>6. CASE ~MoreFields(r) /\ first # None
    <2>1. ReturnErr(r, first, steps)  BY <1>6 DEF NextSlot, Fail
    <2> QED  BY <1>1, <2>1, ReturnErrLeftMapped
  <1> QED  BY <1>4, <1>5, <1>6

LEMMA NextLeftMapped ==
  TypeOK /\ PolicyInv /\ FrameInv /\ LeftMappedInv /\ [Next]_vars => LeftMappedInv'
  <1> SUFFICES ASSUME TypeOK, PolicyInv, FrameInv, LeftMappedInv, [Next]_vars
               PROVE  LeftMappedInv'
    OBVIOUS
  <1> USE DEF TypeOK
  <1>0. ASSUME NEW r \in Runners
        PROVE  /\ FrameAt(r) /\ LeftMappedAt(r)
               /\ pc[r] # "idle" => result[r] = None
               /\ pc[r] \notin {"idle", "wait", "finish", "take"} => "mapped" \notin raised[r]
    BY DEF PolicyInv, PolicyAt, FrameInv, LeftMappedInv, LeftMappedAt
  <1>1. ASSUME NEW r \in Runners, NEW p \in Preferences,
               UseFreshRunner(r, p) \/ \E k \in Kinds : UseRunner(r, p, k)
        PROVE  LeftMappedAt(r)'
    <2>1. pc'[r] \in {"idle", "enter"} /\ raised'[r] = {}
      BY <1>1 DEF UseFreshRunner, UseRunner, CallType
    <2> QED  BY <2>1 DEF LeftMappedAt
  <1>2. ASSUME NEW r \in Runners,
               \/ \E actual : ReturnOk(r, actual)
               \/ \E label \in Labels \ {"take"} : Go(r, label) /\ UNCHANGED raised,
               pc[r] \notin {"idle", "wait", "finish", "take"}
        PROVE  LeftMappedAt(r)'
    <2>1. pc'[r] # "take" /\ raised'[r] = raised[r]
      BY <1>2 DEF ReturnOk, Go, CallType
    <2> QED  BY <1>0, <1>2, <2>1 DEF LeftMappedAt
  <1>3. ASSUME NEW r \in Runners,
               \/ EnterOnCpu(r) \/ EnterOnWgpu(r) \/ BeginExecution(r) \/ CheckDeviceLoss(r)
               \/ BeginAgain(r) \/ EncodeRejected(r)
        PROVE  LeftMappedAt(r)'
    <2>1. pc[r] \in {"enter", "begin", "check", "again", "encode"}
      BY <1>3 DEF EnterOnCpu, EnterOnWgpu, BeginExecution, CheckDeviceLoss, BeginAgain,
                  EncodeRejected
    <2>2. fallback_reason[r] \in Errors  BY DEF RunnerType
    <2>3. CASE \E e \in Errors : \E steps : ReturnErr(r, e, steps) /\ "mapped" \notin steps
      BY <1>0, <2>3, ReturnErrLeftMapped
    <2>4. CASE EnterOnCpu(r)
      <3>1. \/ ReturnErr(r, "unavailable", {}) \/ ReturnErr(r, fallback_reason[r], {})
            \/ ReturnOk(r, "cpu")
        BY <2>4 DEF EnterOnCpu
      <3> QED  BY <1>2, <2>1, <2>2, <2>3, <3>1
    <2>5. CASE EnterOnWgpu(r)
      <3>1. \/ ReturnErr(r, "capacity", {}) \/ ReturnOk(r, "wgpu") \/ ReturnOk(r, "cpu")
            \/ Go(r, "begin") /\ UNCHANGED raised
        BY <2>5 DEF EnterOnWgpu, Fail, Go
      <3> QED  BY <1>2, <2>1, <2>3, <3>1 DEF Labels
    <2>6. CASE BeginExecution(r) \/ BeginAgain(r)
      <3>1. (Go(r, "check") \/ Go(r, "encode")) /\ UNCHANGED raised
        BY <2>6 DEF BeginExecution, BeginAgain
      <3> QED  BY <1>2, <2>1, <3>1 DEF Labels
    <2>7. CASE CheckDeviceLoss(r)
      <3>1. ReturnErr(r, "device_lost", {}) \/ (Go(r, "upload") /\ UNCHANGED raised)
        BY <2>7 DEF CheckDeviceLoss, Fail
      <3> QED  BY <1>2, <2>1, <2>3, <3>1 DEF Labels
    <2>8. CASE EncodeRejected(r)
      <3>1. ReturnErr(r, "capacity", {"control"})  BY <2>8 DEF EncodeRejected, Fail
      <3> QED  BY <2>3, <3>1
    <2> QED  BY <1>3, <2>4, <2>5, <2>6, <2>7, <2>8
  <1>4. ASSUME NEW r \in Runners, Upload(r) \/ SubmitEffect(r)  PROVE LeftMappedAt(r)'
    <2>1. /\ pc[r] \in {"upload", "encode"}
          /\ \E step \in {"upload", "submit"} :
               Raise(r, step) \/ UNCHANGED <<runtime_errors, raised>>
      BY <1>4 DEF Upload, SubmitEffect
    <2>2. pc'[r] # "take"  BY <1>4 DEF Upload, SubmitEffect, Go, CallType
    <2>3. "mapped" \notin raised'[r]
      <3>1. "mapped" \notin raised[r]  BY <1>0, <2>1
      <3> QED  BY <2>1, <3>1 DEF Raise, CallType
    <2> QED  BY <2>2, <2>3 DEF LeftMappedAt
  <1>5. ASSUME NEW r \in Runners, NEW S \in SUBSET Slots(kind[r]), S = Slots(kind[r]),
               Raise(r, CopyFailure(r, S)) \/ UNCHANGED <<runtime_errors, raised>>,
               \A s \in S : mapping'[r][s] \in MapAsync(r, s),
               pc[r] \in {"encode", "download"}, pc'[r] = "wait",
               UNCHANGED <<kind, result>>
        PROVE  LeftMappedAt(r)'
    <2>1. "mapped" \notin raised[r] /\ result'[r] = None  BY <1>0, <1>5
    <2>2. "mapped" \in raised'[r] => \E s \in S : StillMapped(r, s)
      BY <1>5, <2>1 DEF Raise, CopyFailure, CallType
    <2>3. \A s \in S : StillMapped(r, s) => mapping'[r][s] = "rejected"
      BY <1>5 DEF MapAsync
    <2>4. Unread(r)' = S  BY <1>5 DEF Unread
    <2> QED  BY <1>5, <2>1, <2>2, <2>3, <2>4 DEF LeftMappedAt
  <1>6. ASSUME NEW r \in Runners, SubmitWithDownload(r)  PROVE LeftMappedAt(r)'
    <2>1. /\ pc[r] = "encode" /\ pc'[r] = "wait" /\ UNCHANGED <<kind, result>>
          /\ Slots(kind[r]) = {0}
      BY <1>6 DEF SubmitWithDownload, Go, CallType, Slots
    <2>2. Raise(r, CopyFailure(r, {0})) \/ UNCHANGED <<runtime_errors, raised>>
      BY <1>6 DEF SubmitWithDownload
    <2>3. mapping'[r][0] \in MapAsync(r, 0)
      BY <1>6 DEF SubmitWithDownload, BuffersType
    <2> QED  BY <1>5, <2>1, <2>2, <2>3
  <1>7. ASSUME NEW r \in Runners, EnqueueDownloads(r)  PROVE LeftMappedAt(r)'
    <2> DEFINE S == Slots(kind[r])
    <2>1. pc[r] = "download" /\ pc'[r] = "wait" /\ UNCHANGED <<kind, result>>
      BY <1>7 DEF EnqueueDownloads, Go, CallType
    <2>2. Raise(r, CopyFailure(r, S)) \/ UNCHANGED <<runtime_errors, raised>>
      BY <1>7 DEF EnqueueDownloads
    <2>3. \A s \in S : mapping'[r][s] \in MapAsync(r, s)
      <3>1. PICK m \in [S -> {"mapped", "rejected"}] :
              /\ \A s \in S : m[s] \in MapAsync(r, s)
              /\ mapping' = [mapping EXCEPT ![r] = [s \in SlotIds |->
                   IF s \in S THEN m[s] ELSE @[s]]]
        BY <1>7 DEF EnqueueDownloads
      <3>2. S \subseteq SlotIds  BY DEF Slots
      <3>3. \A s \in S : mapping'[r][s] = m[s]  BY <3>1, <3>2 DEF BuffersType
      <3> QED  BY <3>1, <3>3
    <2> QED  BY <1>5, <2>1, <2>2, <2>3
  <1>8. ASSUME NEW r \in Runners, WaitForSubmittedWork(r)  PROVE LeftMappedAt(r)'
    <2>1. pc[r] = "wait"  BY <1>8 DEF WaitForSubmittedWork
    <2>2. CASE Fail(r, IF device_lost THEN "device_lost" ELSE "runtime", {"poll"})
      BY <1>0, <2>2, ReturnErrLeftMapped DEF Fail
    <2>3. CASE /\ Go(r, "finish")
               /\ slot' = [slot EXCEPT ![r] = FirstSlot(kind[r])]
               /\ UNCHANGED <<fallback_reason, mapping, left_mapped, kind, error, result, raised>>
      <3>1. pc'[r] = "finish" /\ slot'[r] = FirstSlot(kind[r])  BY <2>3 DEF Go, CallType
      <3>2. Behind(r)' = {}  BY <2>3, <3>1 DEF Behind, FirstSlot, Slots
      <3>3. Unread(r) = Slots(kind[r]) /\ Unread(r)' = Slots(kind[r])
        BY <2>1, <2>3, <3>1, <3>2 DEF Unread
      <3> QED  BY <1>0, <2>1, <2>3, <3>1, <3>3 DEF LeftMappedAt
    <2> QED  BY <1>8, <2>2, <2>3 DEF WaitForSubmittedWork
  <1>9. ASSUME NEW r \in Runners, FinishDownload(r)  PROVE LeftMappedAt(r)'
    <2>1. pc[r] = "finish"  BY <1>9 DEF FinishDownload
    <2>2. CASE Unmap(r) /\ (NextSlot(r, "device_lost", {}) \/ NextSlot(r, "readback", {"map"}))
      BY <1>0, <2>1, <2>2, NextSlotLeftMapped
    <2>3. CASE /\ ~MapFailed(r) /\ Go(r, "take")
               /\ UNCHANGED <<kind, slot, mapping, error, result, raised>>
      <3>1. pc'[r] = "take" /\ mapping'[r][slot'[r]] # "rejected"
        BY <2>3 DEF Go, MapFailed, CallType
      <3>2. Unread(r)' = Unread(r)  BY <2>1, <2>3, <3>1 DEF Unread, Behind
      <3> QED  BY <1>0, <2>1, <2>3, <3>1, <3>2 DEF LeftMappedAt
    <2> QED  BY <1>9, <2>2, <2>3 DEF FinishDownload
  <1>10. ASSUME NEW r \in Runners, TakeErrors(r)  PROVE LeftMappedAt(r)'
    <2>1. pc[r] = "take" /\ Unmap(r) /\ (NextSlot(r, "runtime", {}) \/ NextSlot(r, None, {}))
      BY <1>10 DEF TakeErrors
    <2>2. mapping[r][slot[r]] # "rejected"  BY <1>0, <2>1 DEF LeftMappedAt
    <2> QED  BY <1>0, <2>1, <2>2, NextSlotLeftMapped
  <1>11. ASSUME NEW r \in Runners,
                \/ Step(r)
                \/ \E p \in Preferences : UseFreshRunner(r, p) \/ \E k \in Kinds : UseRunner(r, p, k)
         PROVE  LeftMappedInv'
    <2>1. LeftMappedAt(r)'
      BY <1>1, <1>3, <1>4, <1>6, <1>7, <1>8, <1>9, <1>10, <1>11 DEF Step
    <2>2. ASSUME NEW q \in Runners, q # r  PROVE LeftMappedAt(q)'
      <3>1. SameCall(q) /\ SameBuffers(q)  BY <1>11, <2>2, OtherThreads, OtherBuffers
      <3>2. LeftMappedAt(q)  BY <1>0
      <3> QED  BY <3>1, <3>2 DEF SameCall, SameBuffers, LeftMappedAt, Unread, Behind
    <2> QED  BY <2>1, <2>2 DEF LeftMappedInv
  <1>12. CASE LoseDevice \/ UNCHANGED vars
    <2>1. UNCHANGED <<buffers, call>>  BY <1>12 DEF LoseDevice, vars, buffers, call
    <2> QED  BY <2>1 DEF buffers, call, LeftMappedInv, LeftMappedAt, Unread, Behind
  <1> QED  BY <1>11, <1>12 DEF Next

\* A frame copied into staging buffers that a failed poll had left mapped is
\* never delivered, whichever of any number of threads takes the submission's
\* error.
THEOREM LeftMappedIsReportedHolds == Spec => []LeftMappedIsReported
  <1>1. LeftMappedInv => LeftMappedIsReported
    BY DEF LeftMappedInv, LeftMappedAt, LeftMappedIsReported
  <1> QED  BY <1>1, InitType, NextType, InitPolicy, NextPolicy, InitFrame, NextFrame,
              InitLeftMapped, NextLeftMapped, PTL DEF Spec

-----------------------------------------------------------------------------
(* Runtime failures, in a process with one worker thread                   *)

\* After the list was cleared it fills with this call's errors only, except by
\* an unmapping on a lost device, after which no slot of the frame takes the
\* list any more.
OwnAt(r) ==
  /\ pc[r] \notin {"idle", "enter", "begin"} /\ runtime_errors # {} =>
       raised[r] # {} \/ (pc[r] = "finish" /\ device_lost)
  /\ pc[r] # "idle" /\ error[r] = "runtime" => raised[r] # {}
  /\ result[r] = "runtime" => raised[r] # {}

OwnInv == \A r \in Runners : OwnAt(r)

LEMMA InitOwn == Init => OwnInv
  BY DEF Init, OwnInv, OwnAt

\* A frame that fails with a runtime error has a failed step to show for it.
LEMMA ReturnErrOwn ==
  ASSUME CallType, NEW r \in Runners, OwnAt(r), pc[r] # "idle", result[r] = None,
         NEW e \in Errors, NEW steps, ReturnErr(r, e, steps),
         e = "runtime" => raised[r] \cup steps # {}
  PROVE  OwnAt(r)'
  <1>1. CASE Retries(r)
    <2>1. pc'[r] = "enter" /\ error'[r] = None /\ result'[r] = None
      BY <1>1 DEF ReturnErr, CallType
    <2> QED  BY <2>1 DEF OwnAt
  <1>2. CASE ~Retries(r)
    <2>1. pc'[r] = "idle" /\ result'[r] = e /\ raised'[r] = raised[r] \cup steps
      BY <1>2 DEF ReturnErr, CallType
    <2> QED  BY <2>1 DEF OwnAt
  <1> QED  BY <1>1, <1>2

LEMMA NextSlotOwn ==
  ASSUME CallType, NEW r \in Runners, OwnAt(r), pc[r] \in {"finish", "take"}, result[r] = None,
         NEW e \in {None, "device_lost", "readback", "runtime"}, NEW steps,
         NextSlot(r, e, steps),
         e = "runtime" => raised[r] # {},
         runtime_errors' = {} \/ raised[r] \cup steps # {} \/ device_lost',
         e = None => steps = {}
  PROVE  OwnAt(r)'
  <1> DEFINE first == IF error[r] # None THEN error[r] ELSE e
  <1>1. first \in Errors  BY DEF CallType
  <1>2. first = "runtime" => raised[r] # {}  BY DEF OwnAt
  <1>3. CASE MoreFields(r)
    <2>1. /\ pc'[r] = "finish" /\ error'[r] = first /\ raised'[r] = raised[r] \cup steps
          /\ result'[r] = None
      BY <1>3 DEF NextSlot, Go, CallType
    <2> QED  BY <1>2, <2>1 DEF OwnAt
  <1>4. CASE ~MoreFields(r) /\ first = None
    <2>1. pc'[r] = "idle" /\ result'[r] = "ok_wgpu"
      BY <1>4 DEF NextSlot, ReturnOk, CallType
    <2> QED  BY <2>1 DEF OwnAt
  <1>5. CASE ~MoreFields(r) /\ first # None
    <2>1. ReturnErr(r, first, steps)  BY <1>5 DEF NextSlot, Fail
    <2>2. first = "runtime" => raised[r] \cup steps # {}  BY <1>2
    <2> QED  BY <1>1, <2>1, <2>2, ReturnErrOwn
  <1> QED  BY <1>3, <1>4, <1>5

LEMMA NextOwn ==
  OneThread /\ TypeOK /\ PolicyInv /\ OwnInv /\ [Next]_vars => OwnInv'
  <1> SUFFICES ASSUME OneThread, TypeOK, PolicyInv, OwnInv, [Next]_vars PROVE OwnInv'
    OBVIOUS
  <1> USE DEF TypeOK
  <1>0. ASSUME NEW r \in Runners, pc[r] # "idle"
        PROVE  OwnAt(r) /\ result[r] = None
    BY <1>0 DEF PolicyInv, PolicyAt, OwnInv
  <1>1. ASSUME NEW r \in Runners, NEW p \in Preferences,
               UseFreshRunner(r, p) \/ \E k \in Kinds : UseRunner(r, p, k)
        PROVE  OwnAt(r)'
    <2>1. /\ pc'[r] \in {"idle", "enter"} /\ error'[r] = None
          /\ result'[r] \in {None, "ok_cpu", "unavailable"}
      BY <1>1 DEF UseFreshRunner, UseRunner, CallType
    <2> QED  BY <2>1 DEF OwnAt
  <1>2. ASSUME NEW r \in Runners, EnterOnCpu(r)  PROVE OwnAt(r)'
    <2>1. pc[r] # "idle" /\ OwnAt(r) /\ result[r] = None  BY <1>0, <1>2 DEF EnterOnCpu
    <2>2. fallback_reason[r] \in Errors \ {"runtime"}
      BY <1>2 DEF EnterOnCpu, PolicyInv, PolicyAt
    <2>3. CASE ReturnErr(r, "unavailable", {})  BY <2>1, <2>3, ReturnErrOwn
    <2>4. CASE ReturnErr(r, fallback_reason[r], {})  BY <2>1, <2>2, <2>4, ReturnErrOwn
    <2>5. CASE ReturnOk(r, "cpu")
      <3>1. pc'[r] = "idle" /\ result'[r] = "ok_cpu"  BY <2>5 DEF ReturnOk, CallType
      <3> QED  BY <3>1 DEF OwnAt
    <2> QED  BY <1>2, <2>3, <2>4, <2>5 DEF EnterOnCpu
  <1>3. ASSUME NEW r \in Runners, EnterOnWgpu(r)  PROVE OwnAt(r)'
    <2>1. pc[r] = "enter" /\ OwnAt(r) /\ result[r] = None  BY <1>0, <1>3 DEF EnterOnWgpu
    <2>2. ASSUME NEW actual, ReturnOk(r, actual)  PROVE OwnAt(r)'
      <3>1. pc'[r] = "idle" /\ result'[r] # "runtime"  BY <2>2 DEF ReturnOk, CallType
      <3> QED  BY <3>1 DEF OwnAt
    <2>3. CASE Fail(r, "capacity", {})  BY <2>1, <2>3, ReturnErrOwn DEF Fail
    <2>4. CASE pc' = [pc EXCEPT ![r] = "begin"] /\ UNCHANGED <<error, result, raised>>
      <3>1. pc'[r] = "begin"  BY <2>4 DEF CallType
      <3> QED  BY <2>1, <2>4, <3>1 DEF OwnAt
    <2> QED  BY <1>3, <2>2, <2>3, <2>4 DEF EnterOnWgpu
  <1>4. ASSUME NEW r \in Runners, BeginExecution(r) \/ BeginAgain(r)  PROVE OwnAt(r)'
    <2>1. OwnAt(r) /\ result[r] = None  BY <1>0, <1>4 DEF BeginExecution, BeginAgain
    <2>2. runtime_errors' = {} /\ pc[r] # "idle" /\ UNCHANGED <<error, result, raised>>
      BY <1>4 DEF BeginExecution, BeginAgain, ClearErrors
    <2> QED  BY <2>1, <2>2 DEF OwnAt
  <1>5. ASSUME NEW r \in Runners, CheckDeviceLoss(r)  PROVE OwnAt(r)'
    <2>1. pc[r] = "check" /\ OwnAt(r) /\ result[r] = None  BY <1>0, <1>5 DEF CheckDeviceLoss
    <2>2. CASE Fail(r, "device_lost", {})  BY <2>1, <2>2, ReturnErrOwn DEF Fail
    <2>3. CASE Go(r, "upload") /\ UNCHANGED <<error, result, raised>>
      BY <1>5, <2>1, <2>3 DEF CheckDeviceLoss, Go, wgpuShared, OwnAt
    <2> QED  BY <1>5, <2>2, <2>3 DEF CheckDeviceLoss
  <1>6. ASSUME NEW r \in Runners,
               Upload(r) \/ SubmitWithDownload(r) \/ SubmitEffect(r) \/ EnqueueDownloads(r)
        PROVE  OwnAt(r)'
    <2>1. /\ pc[r] \in {"upload", "encode", "download"} /\ OwnAt(r)
          /\ UNCHANGED <<error, result, device_lost>>
      BY <1>0, <1>6 DEF Upload, SubmitWithDownload, SubmitEffect, EnqueueDownloads
    <2>2. \/ \E step : Raise(r, step)
          \/ UNCHANGED <<runtime_errors, raised>>
      BY <1>6 DEF Upload, SubmitWithDownload, SubmitEffect, EnqueueDownloads
    <2>3. CASE \E step : Raise(r, step)
      <3>1. raised'[r] # {}  BY <2>3 DEF Raise, CallType
      <3> QED  BY <2>1, <3>1 DEF OwnAt
    <2> QED  BY <2>1, <2>2, <2>3 DEF OwnAt
  <1>7. ASSUME NEW r \in Runners, EncodeRejected(r)  PROVE OwnAt(r)'
    <2>1. pc[r] # "idle" /\ OwnAt(r) /\ result[r] = None  BY <1>0, <1>7 DEF EncodeRejected
    <2> QED  BY <1>7, <2>1, ReturnErrOwn DEF EncodeRejected, Fail
  <1>8. ASSUME NEW r \in Runners, WaitForSubmittedWork(r)  PROVE OwnAt(r)'
    <2>1. pc[r] = "wait" /\ OwnAt(r) /\ result[r] = None
      BY <1>0, <1>8 DEF WaitForSubmittedWork
    <2>2. CASE Fail(r, IF device_lost THEN "device_lost" ELSE "runtime", {"poll"})
      BY <2>1, <2>2, ReturnErrOwn DEF Fail
    <2>3. CASE Go(r, "finish") /\ UNCHANGED <<error, result, raised>>
      BY <1>8, <2>1, <2>3 DEF WaitForSubmittedWork, wgpuShared, Go, OwnAt
    <2> QED  BY <1>8, <2>2, <2>3 DEF WaitForSubmittedWork
  <1>9. ASSUME NEW r \in Runners, FinishDownload(r)  PROVE OwnAt(r)'
    <2>1. pc[r] = "finish" /\ OwnAt(r) /\ result[r] = None /\ UNCHANGED device_lost
      BY <1>0, <1>9 DEF FinishDownload
    <2>2. CASE device_lost /\ NextSlot(r, "device_lost", {})
      BY <2>1, <2>2, NextSlotOwn
    <2>3. CASE NextSlot(r, "readback", {"map"})  BY <2>1, <2>3, NextSlotOwn
    <2>4. CASE /\ ~device_lost /\ Go(r, "take")
               /\ UNCHANGED <<runtime_errors, error, result, raised>>
      BY <2>1, <2>4 DEF Go, OwnAt
    <2> QED  BY <1>9, <2>2, <2>3, <2>4 DEF FinishDownload
  <1>10. ASSUME NEW r \in Runners, TakeErrors(r)  PROVE OwnAt(r)'
    <2>1. pc[r] = "take" /\ OwnAt(r) /\ result[r] = None /\ runtime_errors' = {}
      BY <1>0, <1>10 DEF TakeErrors, ClearErrors
    <2>2. CASE runtime_errors # {} /\ NextSlot(r, "runtime", {})
      <3>1. raised[r] # {}  BY <2>1, <2>2 DEF OwnAt
      <3> QED  BY <2>1, <2>2, <3>1, NextSlotOwn
    <2>3. CASE NextSlot(r, None, {})  BY <2>1, <2>3, NextSlotOwn
    <2> QED  BY <1>10, <2>2, <2>3 DEF TakeErrors
  <1>11. CASE LoseDevice  BY <1>11 DEF LoseDevice, call, OwnInv, OwnAt
  <1>12. CASE UNCHANGED vars  BY <1>12 DEF vars, OwnInv, OwnAt
  <1>13. ASSUME NEW r \in Runners, OwnAt(r)'  PROVE OwnInv'
    <2>1. ASSUME NEW q \in Runners  PROVE OwnAt(q)'
      <3>1. q = r  BY DEF OneThread
      <3> QED  BY <1>13, <3>1
    <2> QED  BY <2>1 DEF OwnInv
  <1>14. ASSUME NEW r \in Runners, Step(r)  PROVE OwnAt(r)'
    BY <1>2, <1>3, <1>4, <1>5, <1>6, <1>7, <1>8, <1>9, <1>10, <1>14 DEF Step
  <1> QED  BY <1>1, <1>11, <1>12, <1>13, <1>14 DEF Next

\* In a process with one worker thread a frame only fails with a runtime error
\* for a step of its own.
THEOREM RuntimeFailuresAreOwnHolds ==
  ASSUME OneThread
  PROVE  Spec => []RuntimeFailuresAreOwn
  <1>1. OwnInv => RuntimeFailuresAreOwn
    BY DEF OwnInv, OwnAt, RuntimeFailuresAreOwn
  <1>2. TypeOK /\ PolicyInv /\ OwnInv /\ [Next]_vars => OwnInv'  BY OneThread, NextOwn
  <1> QED  BY <1>1, <1>2, InitType, NextType, InitPolicy, NextPolicy, InitOwn, PTL DEF Spec

=============================================================================
