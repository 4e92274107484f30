---------------------------- MODULE RenderJobProofs ----------------------------
(***************************************************************************)
(* Proofs about RenderJob, for any set of controls and of inputs. The five *)
(* invariants follow from one inductive invariant: what the pipeline, the  *)
(* end-of-stream task and the widget know of each other.                   *)
(***************************************************************************)
EXTENDS RenderJob, TLAPS

USE DEF None, PipelineStates

JobStates == {"waiting", "paused", "rendering", "complete", "error"}

-----------------------------------------------------------------------------
(* The inductive invariant                                                 *)

\* A report that is under way is of the pipeline's present state, which is not
\* Null: the last change is never reported.
ReportInv == msg # None => msg = current /\ msg # "null"

\* A pipeline that was stopped is at Null, with no report under way; it was
\* stopped by the end-of-stream task or by closing the job. It is never sent
\* back to READY.
StopInv ==
  /\ target # "ready"
  /\ target = "null" => current = "null" /\ msg = None
  /\ target = "null" => closed \/ eos_task \in {"nulled", "done"}

\* The end-of-stream task: it is spawned by a report, finds a pipeline that is
\* up unless the job was closed, and leaves nothing a widget could start again.
EosInv ==
  /\ eos_task # None => eos
  /\ eos_task = "spawned" /\ ~closed => current \in {"paused", "playing"}
  /\ eos_task = "nulled" => host = "idle" /\ target = "null"
  /\ eos_task = "done" /\ loader # "late" =>
       target = "null" /\ state = "complete" /\ (host = "shown" => seen = "complete")

\* A closed job has no widget, and is stopped unless the late callback started it.
ClosedInv ==
  closed => host = "idle" /\ (loader # "late" => target = "null")

JobInv ==
  /\ ReportInv /\ StopInv /\ EosInv /\ ClosedInv
  /\ StateTracksPipeline /\ CompleteMeansEos

LEMMA InitJob == Init => TypeOK /\ JobInv
  BY DEF Init, TypeOK, JobInv, ReportInv, StopInv, EosInv, ClosedInv, StateTracksPipeline,
         CompleteMeansEos, Image, ImageOfCurrent

-----------------------------------------------------------------------------
(* The pipeline's states                                                   *)

\* The next state on the way is a neighbour, in the direction of the target.
LEMMA TowardStep ==
  ASSUME NEW s \in PipelineStates, NEW t \in PipelineStates, s # t
  PROVE  /\ Toward(s, t) \in PipelineStates
         /\ Level(Toward(s, t)) = IF Level(s) < Level(t) THEN Level(s) + 1 ELSE Level(s) - 1
  <1> DEFINE next == IF Level(s) < Level(t) THEN Level(s) + 1 ELSE Level(s) - 1
  <1>1. \E n \in PipelineStates : Level(n) = next  BY DEF Level
  <1>2. Toward(s, t) = CHOOSE n \in PipelineStates : Level(n) = next  BY DEF Toward
  <1> QED  BY <1>1, <1>2

\* A pipeline on its way up or to a pause does not fall to Null, and one that
\* is up stays up.
LEMMA TowardUp ==
  ASSUME NEW s \in PipelineStates, NEW t \in {"paused", "playing"}, s # t
  PROVE  /\ Toward(s, t) \in PipelineStates \ {"null"}
         /\ s \in {"paused", "playing"} => Toward(s, t) \in {"paused", "playing"}
  <1>1. /\ Toward(s, t) \in PipelineStates
        /\ Level(Toward(s, t)) = IF Level(s) < Level(t) THEN Level(s) + 1 ELSE Level(s) - 1
    BY TowardStep
  <1> QED  BY <1>1 DEF Level

LEMMA ImageType ==
  ASSUME NEW s \in PipelineStates, NEW pending
  PROVE  Image(s, pending) \in JobStates
  BY DEF Image, ImageOfCurrent, JobStates

\* set_state(Null) leaves a stopped pipeline; a job that was up becomes complete.
LEMMA NullSet ==
  ASSUME TypeOK, SetNull
  PROVE  /\ msg = None /\ msg' = None /\ current' = "null" /\ target' = "null"
         /\ state' = IF current \in {"paused", "playing"} THEN "complete" ELSE state
  BY DEF SetNull, TypeOK, Image, Level

-----------------------------------------------------------------------------

LEMMA NextJob == TypeOK /\ JobInv /\ [Next]_vars => TypeOK' /\ JobInv'
  <1> SUFFICES ASSUME TypeOK, JobInv, [Next]_vars PROVE TypeOK' /\ JobInv'  OBVIOUS
  <1> USE DEF JobInv
  <1>1. CASE HandleStateChanged
    <2>1. msg = current /\ msg # "null" /\ msg # None  BY <1>1 DEF HandleStateChanged, ReportInv
    <2>2. state' = Image(current, None) /\ state' \in JobStates \ {"complete"}
      BY <1>1, <2>1 DEF HandleStateChanged, Image, ImageOfCurrent, JobStates, TypeOK
    <2>3. TypeOK'  BY <1>1, <2>2 DEF HandleStateChanged, TypeOK, stream, JobStates
    <2>4. eos_task = "done" => loader = "late"  BY <2>1 DEF EosInv, StopInv
    <2> QED  BY <1>1, <2>1, <2>2, <2>3, <2>4
             DEF HandleStateChanged, stream, ReportInv, StopInv, EosInv, ClosedInv,
                 StateTracksPipeline, CompleteMeansEos, Image
  <1>2. CASE HandleError
    <2>1. TypeOK'  BY <1>2 DEF HandleError, TypeOK, pipeline
    <2>2. eos_task = "done" => loader = "late"  BY <1>2 DEF HandleError, EosInv, StopInv
    <2>3. loader' = "late" <=> loader = "late"  BY <1>2 DEF HandleError
    <2> QED  BY <1>2, <2>1, <2>2, <2>3
             DEF HandleError, pipeline, ReportInv, StopInv, EosInv, ClosedInv,
                 StateTracksPipeline, CompleteMeansEos
  <1>3. CASE HandleAsyncDone
    BY <1>3 DEF HandleAsyncDone, pipeline, stream, TypeOK, ReportInv, StopInv, EosInv,
                ClosedInv, StateTracksPipeline, CompleteMeansEos
  <1>4. CASE HandleEos
    BY <1>4 DEF HandleEos, pipeline, TypeOK, ReportInv, StopInv, EosInv, ClosedInv,
                StateTracksPipeline, CompleteMeansEos
  <1>5. CASE Commit
    <2>1. /\ msg = None /\ current # target /\ target \in {"paused", "playing"}
          /\ current' = Toward(current, target) /\ msg' = current'
          /\ UNCHANGED <<state, host, seen, closed, loader, eos_task, target, stream>>
      BY <1>5 DEF Commit, StopInv, TypeOK
    <2>2. /\ current' \in PipelineStates \ {"null"}
          /\ current \in {"paused", "playing"} => current' \in {"paused", "playing"}
      BY <2>1, TowardUp DEF TypeOK
    <2> QED  BY <2>1, <2>2
             DEF stream, TypeOK, ReportInv, StopInv, EosInv, ClosedInv, StateTracksPipeline,
                 CompleteMeansEos
  <1>6. CASE RunEosTask
    <2>1. /\ msg' = None /\ current' = "null" /\ target' = "null"
          /\ state' = IF current \in {"paused", "playing"} THEN "complete" ELSE state
      BY <1>6, NullSet DEF RunEosTask
    <2>2. eos /\ ~closed => state' = "complete"  BY <1>6, <2>1 DEF RunEosTask, EosInv
    <2>3. eos' /\ host' = "idle" /\ eos_task' = "nulled"
      BY <1>6 DEF RunEosTask, OnHost, stream, EosInv
    <2>4. TypeOK'  BY <1>6, <2>1 DEF RunEosTask, stream, TypeOK
    <2> QED  BY <1>6, <2>1, <2>2, <2>3, <2>4
             DEF RunEosTask, stream, ReportInv, StopInv, EosInv, ClosedInv,
                 StateTracksPipeline, CompleteMeansEos, Image, ImageOfCurrent
  <1>7. CASE FinishEosTask
    BY <1>7 DEF FinishEosTask, pipeline, stream, TypeOK, ReportInv, StopInv, EosInv,
                ClosedInv, StateTracksPipeline, CompleteMeansEos, Image, ImageOfCurrent
  <1>8. CASE LoaderCallback
    <2>1. /\ OnHost /\ loader # "late" /\ UNCHANGED <<state, host, seen, closed, eos_task,
                                                       current, msg, stream>>
          /\ \/ loader' = (IF target = "null" THEN "late" ELSE "called") /\ target' = "playing"
             \/ loader' = "failed" /\ target' = target
      BY <1>8 DEF LoaderCallback, SetState
    <2> QED  BY <2>1 DEF OnHost, stream, TypeOK, ReportInv, StopInv, EosInv, ClosedInv,
                         StateTracksPipeline, CompleteMeansEos
  <1>9. CASE Show
    BY <1>9 DEF Show, OnHost, pipeline, stream, TypeOK, ReportInv, StopInv, EosInv, ClosedInv,
                StateTracksPipeline, CompleteMeansEos
  <1>10. CASE Click
    <2>1. /\ host = "shown" /\ host' = "idle"
          /\ UNCHANGED <<state, seen, closed, loader, eos_task, current, msg, stream>>
          /\ \/ target' = target
             \/ target' \in {"paused", "playing"} /\ seen \in {"paused", "rendering"}
      BY <1>10 DEF Click, SetState
    <2> QED  BY <2>1 DEF stream, TypeOK, ReportInv, StopInv, EosInv, ClosedInv,
                         StateTracksPipeline, CompleteMeansEos
  <1>11. CASE Close
    <2>1. /\ msg' = None /\ current' = "null" /\ target' = "null"
          /\ state' = IF current \in {"paused", "playing"} THEN "complete" ELSE state
      BY <1>11, NullSet DEF Close, Stop
    <2>2. host = "shown" /\ host' = "idle" /\ closed' /\ UNCHANGED <<seen, loader, eos_task, stream>>
      BY <1>11 DEF Close
    <2> QED  BY <2>1, <2>2
             DEF stream, TypeOK, ReportInv, StopInv, EosInv, ClosedInv, StateTracksPipeline,
                 CompleteMeansEos
  <1>12. CASE UNCHANGED vars
    BY <1>12 DEF vars, pipeline, stream, TypeOK, ReportInv, StopInv, EosInv, ClosedInv,
                 StateTracksPipeline, CompleteMeansEos
  <1> QED
    BY <1>1, <1>2, <1>3, <1>4, <1>5, <1>6, <1>7, <1>8, <1>9, <1>10, <1>11, <1>12 DEF Next

-----------------------------------------------------------------------------
(* The theorems                                                            *)

\* Every reachable state is well typed.
THEOREM TypeCorrect == Spec => []TypeOK
  <1> QED  BY InitJob, NextJob, PTL DEF Spec

\* Between reports the job of a sound, open pipeline shows that pipeline's state.
THEOREM StateTracksPipelineHolds == Spec => []StateTracksPipeline
  <1>1. JobInv => StateTracksPipeline  BY DEF JobInv
  <1> QED  BY <1>1, InitJob, NextJob, PTL DEF Spec

\* An open job is complete only when the end of its stream was reported.
THEOREM CompleteMeansEosHolds == Spec => []CompleteMeansEos
  <1>1. JobInv => CompleteMeansEos  BY DEF JobInv
  <1> QED  BY <1>1, InitJob, NextJob, PTL DEF Spec

\* No widget starts a finished job again: it was drawn from a complete job.
THEOREM NeverRestartedHolds == Spec => []NeverRestarted
  <1>1. JobInv => NeverRestarted  BY DEF JobInv, EosInv, NeverRestarted
  <1> QED  BY <1>1, InitJob, NextJob, PTL DEF Spec

\* A closed job stays stopped, unless the loading callback was still to run.
THEOREM ClosedStaysStoppedHolds == Spec => []ClosedStaysStopped
  <1>1. JobInv => ClosedStaysStopped
    BY DEF JobInv, StopInv, ClosedInv, ClosedStaysStopped
  <1> QED  BY <1>1, InitJob, NextJob, PTL DEF Spec
=============================================================================
