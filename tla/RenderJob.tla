----------------------------- MODULE RenderJob -----------------------------
(***************************************************************************)
(* One render job of the application: the RenderJobState shared by the     *)
(* GStreamer bus handler, the tasks of the executor and the job's widget.  *)
(* GStreamer is modelled as far as the handler sees it: states are         *)
(* committed one at a time and each commit is reported synchronously by    *)
(* the committing thread; errors and the end of the stream are reported by *)
(* streaming threads, at any point between. The command line, which waits  *)
(* for a job and shows its progress, is the module CliRender.              *)
(*                                                                         *)
(* One thread, `host', runs the executor's tasks and the widgets           *)
(* (NtscApp::tick and ::update): their steps never overlap.                *)
(***************************************************************************)
EXTENDS Naturals

CONSTANTS
  Controls,   \* what the user does with the job's widget
  Inputs      \* what the input file may turn out to be

ASSUME ControlsAssumption == Controls \subseteq {"pause", "resume", "close"}
ASSUME InputsAssumption == Inputs # {} /\ Inputs \subseteq {"video", "audio", "broken"}

None == "none"

VARIABLES
  state,     \* RenderJob.state
  host,      \* the host thread: "idle", or it has "shown" a widget, whose clicks come next
  seen,      \* the job state the widget was drawn from
  closed,    \* the RenderJob was dropped
  loader,    \* the loading callback: "loading"; its task spawned with "ok" or "err"; and
             \* run: "called", "failed", or "late" (it started a pipeline already stopped)
  eos_task,  \* the end-of-stream task: None, "spawned", "nulled" the pipeline, "done"
  input,     \* the input file
  current,   \* the pipeline's state
  target,    \* the state it was last set to
  msg,       \* the state change being reported, or None
  failed,    \* an element has posted an error
  eos        \* the end of the stream was reported

pipeline == <<current, target, msg>>
stream == <<input, failed, eos>>
vars == <<state, host, seen, closed, loader, eos_task, pipeline, stream>>

Final == {"complete", "error"}

\* RenderJob::create returned: its set_state(Paused) brought the pipeline to
\* READY itself; the rest is done by GStreamer.
Init ==
  /\ state = "waiting"
  /\ host = "idle" /\ seen = "waiting" /\ closed = FALSE
  /\ loader = "loading" /\ eos_task = None
  /\ input \in Inputs
  /\ current = "ready" /\ target = "paused" /\ msg = None
  /\ failed = FALSE /\ eos = FALSE

-----------------------------------------------------------------------------
(* The bus handler                                                         *)

\* Mutants: the pipeline's state is stored as it is; the pending state is not looked at.
ImageRaw(s, pending) == s
ImageOfCurrent(s, pending) ==
  CASE s = "paused" -> "paused" [] s = "playing" -> "rendering"
    [] s = "ready" -> "waiting" [] s = "null" -> "complete"

\* The job state that a StateChanged message stands for: the new state and the
\* one still pending, if it is Null.
Image(s, pending) ==
  IF pending = "null" THEN "complete" ELSE ImageOfCurrent(s, pending)

\* StateChanged from the pipeline: the job state is overwritten whatever it was.
\* (A change on the way to Null is reported by set_state itself, see SetNull.)
HandleStateChanged ==
  /\ msg # None
  /\ state' = Image(msg, None)
  /\ msg' = None
  /\ UNCHANGED <<host, seen, closed, loader, eos_task, current, target, stream>>

\* Error from any element, any number of them: the job shows the first one. While
\* loading, it is also the outcome of the load.
HandleError ==
  /\ input = "broken" /\ current # "null"
  /\ failed' = TRUE
  /\ state' = "error"
  /\ loader' = IF loader = "loading" THEN "err" ELSE loader
  /\ UNCHANGED <<host, seen, closed, eos_task, pipeline, input, eos>>

\* AsyncDone from the pipeline: the load is over, with an error if the input
\* has no video stream.
HandleAsyncDone ==
  /\ current = "paused" /\ msg = None /\ loader = "loading"
  /\ loader' = IF input = "audio" THEN "err" ELSE "ok"
  /\ UNCHANGED <<state, host, seen, closed, eos_task, pipeline, stream>>

\* Mutant: the task is not spawned.
HandleEosIdly ==
  /\ current = "playing" /\ eos_task \in {None, "done"}
  /\ eos' = TRUE
  /\ UNCHANGED <<state, host, seen, closed, loader, eos_task, pipeline, input, failed>>

\* Eos from the pipeline, which reports it while playing: a task is spawned.
HandleEos ==
  /\ current = "playing" /\ eos_task \in {None, "done"}
  /\ eos' = TRUE
  /\ eos_task' = "spawned"
  /\ UNCHANGED <<state, host, seen, closed, loader, pipeline, input, failed>>

-----------------------------------------------------------------------------
(* GStreamer                                                               *)

Level(s) == CASE s = "null" -> 0 [] s = "ready" -> 1 [] s = "paused" -> 2 [] s = "playing" -> 3
Toward(s, t) ==
  CHOOSE n \in {"null", "ready", "paused", "playing"} :
    Level(n) = IF Level(s) < Level(t) THEN Level(s) + 1 ELSE Level(s) - 1

\* The pipeline reaches the next state on the way to its target and reports it.
\* After an error the sinks may still get there: the failing element ends the
\* stream downstream, and that completes a pending state change too.
Commit ==
  /\ msg = None /\ current # target
  /\ current' = Toward(current, target)
  /\ msg' = current'
  /\ UNCHANGED <<state, host, seen, closed, loader, eos_task, target, stream>>

\* set_state: upward changes and pauses are committed later by GStreamer.
SetState(s) == target' = s

\* set_state(Null) is done when it returns. Every change on the way down is
\* reported by the calling thread with pending = Null; the last one is not: the
\* bus is flushing by then.
SetNull ==
  /\ msg = None
  /\ current' = "null" /\ target' = "null"
  /\ state' = IF Level(current) > 1 THEN Image("ready", "null") ELSE state
  /\ UNCHANGED msg

-----------------------------------------------------------------------------
(* The host thread: the executor's tasks                                   *)

\* Mutant: the task's first half is not kept apart from the widgets.
OnAnyThread == TRUE

OnHost == host = "idle" /\ eos_task # "nulled"

\* The end-of-stream task stops the pipeline ...
RunEosTask ==
  /\ OnHost /\ eos_task = "spawned"
  /\ SetNull
  /\ eos_task' = "nulled"
  /\ UNCHANGED <<host, seen, closed, loader, stream>>

\* ... and completes the job, once more.
FinishEosTask ==
  /\ eos_task = "nulled"
  /\ state' = "complete"
  /\ eos_task' = "done"
  /\ UNCHANGED <<host, seen, closed, loader, pipeline, stream>>

\* Mutant: a load that failed stops the pipeline.
LoaderCallbackStops ==
  /\ OnHost
  /\ \/ /\ loader = "ok" /\ loader' = "called"
        /\ SetState("playing") /\ UNCHANGED <<state, current, msg>>
     \/ loader = "err" /\ loader' = "failed" /\ SetNull
  /\ UNCHANGED <<host, seen, closed, eos_task, stream>>

\* The function the loading task returns: report the error (of the load, of the
\* seek or of set_state), or start playing.
\* It holds the pipeline and runs even when the job was closed or ended meanwhile.
LoaderCallback ==
  /\ OnHost
  /\ \/ /\ loader = "ok"
        /\ loader' = IF target = "null" THEN "late" ELSE "called"
        /\ SetState("playing")
     \/ /\ loader \in {"ok", "err"}
        /\ loader' = "failed"
        /\ UNCHANGED target
  /\ UNCHANGED <<state, host, seen, closed, eos_task, current, msg, stream>>

-----------------------------------------------------------------------------
(* The host thread: the widget                                             *)

\* RenderJobWidget::show copies the job state and draws the buttons for it.
Show ==
  /\ OnHost /\ ~closed
  /\ host' = "shown"
  /\ seen' = state
  /\ UNCHANGED <<state, closed, loader, eos_task, pipeline, stream>>

\* The end of the frame: no button was clicked, or pause, or resume.
Click ==
  /\ host = "shown"
  /\ host' = "idle"
  /\ \/ UNCHANGED target
     \/ "pause" \in Controls /\ seen = "rendering" /\ SetState("paused")
     \/ "resume" \in Controls /\ seen = "paused" /\ SetState("playing")
  /\ UNCHANGED <<state, seen, closed, loader, eos_task, current, msg, stream>>

\* Mutant: dropping a job leaves its pipeline running.
KeepRunning == UNCHANGED <<state, pipeline>>

\* RenderJob::drop.
Stop == SetNull

\* The close button: the job is removed from the list and dropped.
Close ==
  /\ "close" \in Controls /\ host = "shown"
  /\ host' = "idle" /\ closed' = TRUE
  /\ Stop
  /\ UNCHANGED <<seen, loader, eos_task, stream>>

-----------------------------------------------------------------------------

Next ==
  \/ HandleStateChanged \/ HandleError \/ HandleAsyncDone \/ HandleEos
  \/ Commit
  \/ RunEosTask \/ FinishEosTask \/ LoaderCallback
  \/ Show \/ Click \/ Close

Spec == Init /\ [][Next]_vars

\* GStreamer commits what it was asked for, prerolls and reports the end of
\* what it plays (after an error it need not); a streaming thread in the bus
\* handler goes on; the host thread ends its frames and runs its tasks
\* between any two of them, hence strong fairness. The user need not click anything.
Fairness ==
  /\ WF_vars(Commit /\ ~failed) /\ WF_vars(HandleStateChanged)
  /\ WF_vars(HandleAsyncDone /\ ~failed) /\ WF_vars(HandleEos /\ ~failed)
  /\ SF_vars(RunEosTask) /\ WF_vars(FinishEosTask) /\ SF_vars(LoaderCallback)
  /\ WF_vars(Click)

FairSpec == Spec /\ Fairness

-----------------------------------------------------------------------------
(* Properties                                                              *)

PipelineStates == {"null", "ready", "paused", "playing"}

\* Every variable stays in the values the program can give it.
TypeOK ==
  /\ state \in {"waiting", "paused", "rendering", "complete", "error"}
  /\ seen \in {"waiting", "paused", "rendering", "complete", "error"}
  /\ closed \in BOOLEAN /\ failed \in BOOLEAN /\ eos \in BOOLEAN
  /\ host \in {"idle", "shown"}
  /\ loader \in {"loading", "ok", "err", "called", "failed", "late"}
  /\ eos_task \in {None, "spawned", "nulled", "done"}
  /\ input \in Inputs
  /\ current \in PipelineStates /\ target \in PipelineStates
  /\ msg \in PipelineStates \cup {None}

\* Between reports, the job of a sound, open pipeline shows that pipeline's
\* state, whatever the handler, the tasks and the widget did in between.
StateTracksPipeline == ~failed /\ ~closed /\ msg = None => state = Image(current, None)

\* A job is only reported complete at the end of its stream.
CompleteMeansEos == state = "complete" /\ ~closed => eos

\* A finished job is not started again: the widget drawn before its end sends
\* no resume after it. (The loading callback could: the user may resume a job
\* before it ran, and see the whole stream end before the next frame's tasks.)
NeverRestarted == eos_task = "done" /\ loader # "late" => target = "null"

\* A job that was closed renders no more, unless its load was over and the
\* callback still to run.
ClosedStaysStopped == closed /\ loader # "late" => current = "null" /\ target = "null"

\* A job that was started ends: it completes, unless its input failed or the
\* user holds it paused or closes it.
StartedJobEnds ==
  (loader = "called") ~> (state \in Final \/ failed \/ target = "paused" \/ closed)

\* "retained errors": an open job that failed goes on showing its error.
ErrorRetained == [][state = "error" /\ ~closed' => state' = "error"]_state

=============================================================================
