----------------------------- MODULE CliRender -----------------------------
(***************************************************************************)
(* ntsc-rs-cli while it renders, at the granularity of its mutexes. Three  *)
(* kinds of threads: `main', which runs block_on(executor.run(job)), then  *)
(* closes the output and joins the display thread; `display', which redraws*)
(* the progress line 30 times a second and on request; and the streaming   *)
(* threads, which call the job's bus handler. They share three mutexes:    *)
(* "inner" (CliOutput.inner), "job" (SharedRenderJob) and "state"          *)
(* (RenderJob.state). The mutex of RenderJob.waker is never held while     *)
(* another is awaited by a thread that does not already hold "state", and  *)
(* is left out.                                                            *)
(***************************************************************************)
EXTENDS Naturals

CONSTANTS
  Streamers,  \* streaming threads
  Terms,      \* whether standard output may be a terminal
  Inputs      \* what the input file may turn out to be

ASSUME StreamersAssumption == Streamers # {} /\ {"main", "display"} \cap Streamers = {}
ASSUME TermsAssumption == Terms # {} /\ Terms \subseteq BOOLEAN
ASSUME InputsAssumption == Inputs # {} /\ Inputs \subseteq {"video", "broken"}

None == "none"
Locks == {"inner", "job", "state"}
Threads == Streamers \cup {"main", "display"}
Final == {"complete", "error"}

VARIABLES
  is_term,   \* term.is_term()
  input,     \* the input file
  state,     \* RenderJob.state
  waker,     \* RenderJob.waker is Some
  woken,     \* the thread in block_on has been unparked
  outcome,   \* what the future returned, or None
  current,   \* the pipeline's state
  target,    \* the state it was last set to
  report,    \* the state in the StateChanged message being handled
  failed,    \* the streaming threads that posted an error: each stops there
  loader,    \* the loading callback: "loading", "ok" or "err" (spawned), "over"
  eos_task,  \* the end-of-stream task: None, "spawned", "done"
  closed,    \* CliOutputInner::close sent true
  owner,     \* [Locks -> the thread that holds it, or None]
  pc         \* [Threads -> where it is]

stream == <<current, target, report, failed, loader, eos_task>>
vars == <<is_term, input, state, waker, woken, outcome, stream, closed, owner, pc>>

Init ==
  /\ is_term \in Terms /\ input \in Inputs
  /\ state = "waiting" /\ waker = FALSE /\ woken = FALSE /\ outcome = None
  /\ current = "ready" /\ target = "paused" /\ report = None /\ failed = {}
  /\ loader = "loading" /\ eos_task = None
  /\ closed = FALSE
  /\ owner = [l \in Locks |-> None]
  /\ pc = [t \in Threads |-> CASE t = "main" -> "poll_job" [] t = "display" -> "recv"
                               [] OTHER -> "streaming"]

-----------------------------------------------------------------------------

Free(l) == owner[l] = None
Goto(t, p) == pc' = [pc EXCEPT ![t] = p]
Step(t, p, q) == pc[t] = p /\ Goto(t, q)
Wake == woken' = (woken \/ waker)
Spawn == woken' = TRUE

-----------------------------------------------------------------------------
(* GStreamer: the messages of the streaming threads                        *)

Reporting == \E t \in Threads : pc[t] \in {"report_time", "report_state", "report_repaint"}

\* The pipeline goes up one state and reports it.
Commit(t) ==
  /\ Step(t, "streaming", "report_state") /\ ~Reporting
  /\ \/ current = "ready" /\ target \in {"paused", "playing"} /\ current' = "paused"
     \/ current = "paused" /\ target = "playing" /\ current' = "playing"
  /\ report' = current'
  /\ UNCHANGED <<is_term, input, state, waker, woken, outcome, target, failed, loader, eos_task,
                 closed, owner>>

\* AsyncDone: the load is over; the callback's task is spawned.
AsyncDone(t) ==
  /\ pc[t] = "streaming" /\ ~Reporting
  /\ current = "paused" /\ loader = "loading"
  /\ loader' = "ok"
  /\ Spawn
  /\ UNCHANGED <<is_term, input, state, waker, outcome, current, target, report, failed, eos_task, closed,
                 owner, pc>>

\* Error: while loading, the callback's task is spawned with it; then the handler.
PostError(t) ==
  /\ Step(t, "streaming", "error_state")
  /\ input = "broken" /\ current # "null" /\ t \notin failed
  /\ failed' = failed \cup {t}
  /\ IF loader = "loading" THEN loader' = "err" /\ Spawn ELSE UNCHANGED <<loader, woken>>
  /\ UNCHANGED <<is_term, input, state, waker, outcome, current, target, report, eos_task, closed,
                 owner>>

\* Eos.
PostEos(t) ==
  /\ Step(t, "streaming", "eos_time")
  /\ current = "playing" /\ eos_task = None /\ ~Reporting
  /\ \A u \in Streamers : pc[u] # "eos_time"
  /\ UNCHANGED <<is_term, input, state, waker, woken, outcome, stream, closed, owner>>

-----------------------------------------------------------------------------
(* The bus handler                                                         *)

\* Error: the state is locked and set, unless it already is an error ...
ErrorState(t) ==
  /\ Free("state")
  /\ IF state = "error"
     THEN Step(t, "error_state", "streaming") /\ UNCHANGED <<state, owner>>
     ELSE /\ Step(t, "error_state", "error_repaint")
          /\ state' = "error"
          /\ owner' = [owner EXCEPT !["state"] = t]
  /\ UNCHANGED <<is_term, input, waker, woken, outcome, stream, closed>>

\* Mutant: an error is shown and the future not woken.
ErrorRepaintOnly(t) ==
  /\ Step(t, "error_repaint", "streaming")
  /\ Free("inner")
  /\ owner' = [owner EXCEPT !["state"] = None]
  /\ UNCHANGED <<is_term, input, state, waker, woken, outcome, stream, closed>>

\* ... and, still locked, a repaint is requested and the future woken.
ErrorRepaint(t) ==
  /\ Step(t, "error_repaint", "streaming")
  /\ Free("inner")
  /\ Wake
  /\ owner' = [owner EXCEPT !["state"] = None]
  /\ UNCHANGED <<is_term, input, state, waker, outcome, stream, closed>>

\* Mutant: the handler completes the job itself, before the pipeline is stopped.
EosTimeCompletes(t) ==
  /\ Step(t, "eos_time", "streaming")
  /\ Free("inner") /\ Free("state")
  /\ state' = "complete"
  /\ eos_task' = "spawned" /\ Spawn
  /\ UNCHANGED <<is_term, input, waker, outcome, current, target, report, failed, loader, closed,
                 owner>>

\* Eos: the time is read, then a task spawned.
EosTime(t) ==
  /\ Step(t, "eos_time", "streaming")
  /\ Free("inner")
  /\ eos_task' = "spawned" /\ Spawn
  /\ UNCHANGED <<is_term, input, state, waker, outcome, current, target, report, failed, loader,
                 closed, owner>>

\* StateChanged: the time is read if the pipeline goes to Null,
ReportTime(t) ==
  /\ Step(t, "report_time", "report_state")
  /\ Free("inner")
  /\ UNCHANGED <<is_term, input, state, waker, woken, outcome, stream, closed, owner>>

\* Mutant: the pipeline's state is stored as it is.
ImageRaw(s) == s

\* The job state that a reported state of the pipeline stands for.
Image(s) == CASE s = "paused" -> "paused" [] s = "playing" -> "rendering" [] s = "null" -> "complete"

\* the state set,
ReportState(t) ==
  /\ Step(t, "report_state", "report_repaint")
  /\ Free("state")
  /\ state' = Image(report)
  /\ UNCHANGED <<is_term, input, waker, woken, outcome, stream, closed, owner>>

\* Mutant: the handler requests a repaint and does not wake the future.
ReportRepaintOnly(t) ==
  /\ Step(t, "report_repaint", IF t = "main" THEN "null_join" ELSE "streaming")
  /\ Free("inner")
  /\ UNCHANGED <<is_term, input, state, waker, woken, outcome, stream, closed, owner>>

\* a repaint requested and the future woken.
ReportRepaint(t) ==
  /\ Step(t, "report_repaint", IF t = "main" THEN "null_join" ELSE "streaming")
  /\ Free("inner")
  /\ Wake
  /\ UNCHANGED <<is_term, input, state, waker, outcome, stream, closed, owner>>

Handler(t) ==
  \/ ErrorState(t) \/ ErrorRepaint(t) \/ EosTime(t)
  \/ ReportTime(t) \/ ReportState(t) \/ ReportRepaint(t)

-----------------------------------------------------------------------------
(* The main thread                                                         *)

\* SharedRenderJob::poll locks the job; RenderJob::poll stores the waker ...
PollJob ==
  /\ Step("main", "poll_job", "poll_state")
  /\ Free("job")
  /\ owner' = [owner EXCEPT !["job"] = "main"]
  /\ waker' = TRUE
  /\ UNCHANGED <<is_term, input, state, woken, outcome, stream, closed>>

\* ... and reads the state. Unless it is final the executor's tasks run.
PollState ==
  /\ Free("state")
  /\ IF state \in Final
     THEN Step("main", "poll_state", "close") /\ outcome' = state
     ELSE Step("main", "poll_state", "run") /\ UNCHANGED outcome
  /\ owner' = [owner EXCEPT !["job"] = None]
  /\ UNCHANGED <<is_term, input, state, waker, woken, stream, closed>>

\* The loading callback: start playing, or print the error.
RunLoader ==
  /\ pc["main"] = "run" /\ loader \in {"ok", "err"}
  /\ target' = IF loader = "ok" THEN "playing" ELSE target
  /\ loader' = "over"
  /\ UNCHANGED <<is_term, input, state, waker, woken, outcome, current, report, failed, eos_task, closed,
                 owner, pc>>

\* The end-of-stream task: set_state(Null) first reports, on this thread, that
\* the pipeline goes down (two such messages, the second of which changes
\* nothing, are modelled as one),
RunEosTask ==
  /\ Step("main", "run", "report_time")
  /\ eos_task = "spawned" /\ ~Reporting
  /\ target' = "null" /\ report' = "null"
  /\ UNCHANGED <<is_term, input, state, waker, woken, outcome, current, failed, loader, eos_task,
                 closed, owner>>

\* then waits until no streaming thread is in the handler;
NullJoin ==
  /\ Step("main", "null_join", "eos_complete")
  /\ \A t \in Streamers : pc[t] = "streaming"
  /\ current' = "null"
  /\ UNCHANGED <<is_term, input, state, waker, woken, outcome, target, report, failed, loader, eos_task,
                 closed, owner>>

\* then the job is completed, and nobody woken.
EosComplete ==
  /\ Step("main", "eos_complete", "run")
  /\ Free("state")
  /\ state' = "complete"
  /\ eos_task' = "done"
  /\ UNCHANGED <<is_term, input, waker, woken, outcome, current, target, report, failed, loader,
                 closed, owner>>

\* No task is left: block_on parks the thread until it is woken.
Park ==
  /\ Step("main", "run", "parked")
  /\ loader \notin {"ok", "err"} /\ eos_task # "spawned"
  /\ UNCHANGED <<is_term, input, state, waker, woken, outcome, stream, closed, owner>>

Unpark ==
  /\ Step("main", "parked", "poll_job")
  /\ woken /\ woken' = FALSE
  /\ UNCHANGED <<is_term, input, state, waker, outcome, stream, closed, owner>>

\* CliOutput::close, then JoinHandle::join.
Close ==
  /\ Step("main", "close", "join")
  /\ Free("inner")
  /\ closed' = TRUE
  /\ UNCHANGED <<is_term, input, state, waker, woken, outcome, stream, owner>>

Join ==
  /\ Step("main", "join", "done") /\ pc["display"] = "done"
  /\ UNCHANGED <<is_term, input, state, waker, woken, outcome, stream, closed, owner>>

Main ==
  \/ PollJob \/ PollState \/ RunLoader \/ RunEosTask \/ NullJoin \/ EosComplete
  \/ Park \/ Unpark \/ Close \/ Join

-----------------------------------------------------------------------------
(* The display thread                                                      *)

\* A request or the timeout. The requests sent before `true' are still served.
Recv ==
  /\ Step("display", "recv", "inner")
  /\ is_term
  /\ UNCHANGED <<is_term, input, state, waker, woken, outcome, stream, closed, owner>>

Quit ==
  /\ Step("display", "recv", "done")
  /\ closed
  /\ UNCHANGED <<is_term, input, state, waker, woken, outcome, stream, closed, owner>>

\* The output is locked until the end of the round, then the job.
LockInner ==
  /\ Step("display", "inner", "job")
  /\ Free("inner") /\ owner' = [owner EXCEPT !["inner"] = "display"]
  /\ UNCHANGED <<is_term, input, state, waker, woken, outcome, stream, closed>>

LockJob ==
  /\ Step("display", "job", "state")
  /\ Free("job") /\ owner' = [owner EXCEPT !["job"] = "display"]
  /\ UNCHANGED <<is_term, input, state, waker, woken, outcome, stream, closed>>

EndRound == owner' = [owner EXCEPT !["inner"] = None, !["job"] = None]

\* The state is read: a job in progress is drawn ...
ReadState ==
  /\ Free("state")
  /\ IF state \in Final
     THEN Step("display", "state", "recv") /\ EndRound
     ELSE Step("display", "state", "progress") /\ UNCHANGED owner
  /\ UNCHANGED <<is_term, input, state, waker, woken, outcome, stream, closed>>

\* ... by update_progress, which reads it again.
Progress ==
  /\ Step("display", "progress", "recv")
  /\ Free("state") /\ EndRound
  /\ UNCHANGED <<is_term, input, state, waker, woken, outcome, stream, closed>>

Round == LockInner \/ LockJob \/ ReadState \/ Progress
Display == Recv \/ Round \/ Quit

-----------------------------------------------------------------------------

Next ==
  \/ \E t \in Streamers : Commit(t) \/ AsyncDone(t) \/ PostError(t) \/ PostEos(t)
  \/ \E t \in Streamers \cup {"main"} : Handler(t)
  \/ Main \/ Display

Spec == Init /\ [][Next]_vars

\* A sound pipeline goes where it was told to and plays to its end. Every thread
\* goes on; a mutex that is released again and again is given to a thread that
\* keeps asking for it, and the requests that precede `true' in the channel are
\* finitely many: hence strong fairness.
Fairness ==
  /\ WF_vars(input = "video" /\ \E t \in Streamers : Commit(t) \/ AsyncDone(t) \/ PostEos(t))
  /\ \A t \in Streamers : SF_vars(Handler(t))
  /\ SF_vars(Main \/ Handler("main"))
  /\ SF_vars(Round) /\ SF_vars(Quit)

FairSpec == Spec /\ Fairness

-----------------------------------------------------------------------------
(* Properties                                                              *)

StreamerPlaces == {"streaming", "error_state", "error_repaint", "eos_time", "report_state",
                   "report_repaint"}
MainPlaces == {"poll_job", "poll_state", "run", "report_time", "report_state", "report_repaint",
               "null_join", "eos_complete", "parked", "close", "join", "done"}
DisplayPlaces == {"recv", "inner", "job", "state", "progress", "done"}

ThreadsType ==
  /\ owner \in [Locks -> Threads \cup {None}]
  /\ pc \in [Threads -> StreamerPlaces \cup MainPlaces \cup DisplayPlaces]
  /\ \A t \in Streamers : pc[t] \in StreamerPlaces
  /\ pc["main"] \in MainPlaces
  /\ pc["display"] \in DisplayPlaces

JobType ==
  /\ is_term \in Terms /\ input \in Inputs
  /\ state \in {"waiting", "paused", "rendering", "complete", "error"}
  /\ waker \in BOOLEAN /\ woken \in BOOLEAN /\ closed \in BOOLEAN
  /\ outcome \in Final \cup {None}

StreamType ==
  /\ current \in {"null", "ready", "paused", "playing"}
  /\ target \in {"null", "paused", "playing"}
  /\ report \in {None, "null", "paused", "playing"}
  /\ \A t \in Threads :
       pc[t] \in {"report_time", "report_state", "report_repaint"} => report # None
  /\ failed \subseteq Streamers
  /\ loader \in {"loading", "ok", "err", "over"}
  /\ eos_task \in {None, "spawned", "done"}

\* Every variable stays in the values the program can give it.
TypeOK == ThreadsType /\ JobType /\ StreamType

\* "Finished rendering" is only printed once the stream has ended and the
\* pipeline, which finalises the output file, was stopped.
CompleteMeansStopped == outcome = "complete" => current = "null" /\ eos_task = "done"

\* A sound input is rendered and the program returns, on a terminal or not.
VideoReturns == (input = "video") ~> (pc["main"] = "done")

\* The future is never left waiting for an outcome the job has reached: not on a
\* terminal, the program returns unless the outcome is overwritten.
OutcomeReturned ==
  (state \in Final /\ ~is_term) ~> (pc["main"] = "done" \/ state \notin Final)

\* "a failure returns an error": a job that stays failed makes the program return.
FailureReturns == <>[](state = "error") => <>(pc["main"] = "done")

=============================================================================
