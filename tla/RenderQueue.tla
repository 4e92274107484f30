---------------------------- MODULE RenderQueue -----------------------------
(* The render jobs of the application (gui/src/app/main.rs): a click on      *)
(* "Render", the question about a directory that is not empty, saving a      *)
(* frame, and the list of jobs.  RenderJob models the life of one job; here  *)
(* its streaming thread and its tasks meet the executor.                     *)
EXTENDS Preview

CONSTANTS MaxJobs      \* bound: the jobs users ask for in a run

VARIABLES jobs,        \* NtscApp::render_jobs
          slot,        \* image_sequence_dialog_queued_render_job
          asked        \* jobs asked for so far, which names them

queueVars == <<jobs, slot, asked>>
QueueInit == jobs = <<>> /\ slot = <<>> /\ asked = 0

\* A job's streaming thread: loading; then, through a task, playing; at its end,
\* through another task, stopped.  "start" and "end" wait for the executor.
NewJob(req) == [id |-> req.id, src |-> req.src, thread |-> "loading", state |-> "waiting"]

\* create_render_job, which can fail.  The rate comes from the media loaded now.
PushJob(req) ==
    /\ jobs' = Append(jobs, NewJob(req)) \/ UNCHANGED jobs
    /\ UNCHANGED asked /\ UNCHANGED previewVars /\ UNCHANGED sinkVars

\* A click on "Render" captures the media; the task looks into the directory of
\* an image sequence.
RenderTask(sequence) == Ready([k |-> "render", src |-> pipe.path, id |-> asked,
                               pc |-> IF sequence THEN "look" ELSE "empty"])
PollRender(i) ==
    LET f == tasks[i].fut
    IN /\ f.k = "render"
       /\ \/ f.pc = "look" /\ Polls(i, "blocked", [f EXCEPT !.pc = "looking"])
          \/ f.pc \in {"empty", "full"} /\ Polls(i, "done", [f EXCEPT !.k = "rendered"])
          \/ f.pc = "failed" /\ Polls(i, "done", [f EXCEPT !.k = "rendered"])
       /\ UNCHANGED previewVars /\ UNCHANGED sinkVars /\ UNCHANGED queueVars
ThreadRender(i) ==
    LET f == tasks[i].fut
    IN /\ f.k = "render"
       /\ \E pc \in {"empty", "full", "failed"} : Wakes(i, [f EXCEPT !.pc = pc])
       /\ UNCHANGED previewVars /\ UNCHANGED sinkVars
       /\ UNCHANGED queueVars

\* Its function creates the job, or leaves it in the slot for the question,
\* in the place of any other.
RunRender ==
    LET f == Head(fns).fut
    IN /\ f.k = "rendered" /\ RunsFn(<<>>)
       /\ \/ f.pc = "empty" /\ PushJob(f) /\ UNCHANGED slot
          \/ f.pc = "full" /\ slot' = <<f>> /\ UNCHANGED previewVars
             /\ UNCHANGED sinkVars /\ UNCHANGED <<jobs, asked>>
          \/ f.pc = "failed" /\ UNCHANGED previewVars
             /\ UNCHANGED sinkVars /\ UNCHANGED queueVars

\* The question is answered.
Confirm == slot # <<>> /\ slot' = <<>> /\ PushJob(slot[1])
Refuse == slot # <<>> /\ slot' = <<>> /\ UNCHANGED <<jobs, asked>>
          /\ UNCHANGED previewVars /\ UNCHANGED sinkVars

\* "Save frame": the dialog is answered with a file or cancelled.
SaveTask == Blocked([k |-> "save", src |-> pipe.path, id |-> asked])
AnswerSave(i) ==
    LET f == tasks[i].fut
    IN /\ f.k = "save"
       /\ Wakes(i, [f EXCEPT !.k = "saved"]) \/ Wakes(i, [k |-> "cancelled"])
       /\ UNCHANGED previewVars /\ UNCHANGED sinkVars /\ UNCHANGED queueVars
PollSave(i) ==
    LET f == tasks[i].fut
    IN /\ f.k = "saved"
       /\ Polls(i, "done", [k |-> "rendered", src |-> f.src, id |-> f.id, pc |-> "empty"])
       /\ UNCHANGED previewVars /\ UNCHANGED sinkVars /\ UNCHANGED queueVars

-----------------------------------------------------------------------------
\* The streaming thread of a job: the callback and the end of the stream spawn
\* a task, waiting for the executor's mutex meanwhile.
JobKeeps == UNCHANGED previewVars /\ UNCHANGED sinkVars /\ UNCHANGED <<slot, asked>>
JobEvent(n) ==
    /\ \/ jobs[n].thread = "loading" /\ jobs' = [jobs EXCEPT ![n].thread = "start"]
       \/ jobs[n].thread = "playing" /\ jobs' = [jobs EXCEPT ![n].thread = "end"]
    /\ JobKeeps /\ UNCHANGED execVars
\* (Mutant of JobSpawns: the end of the stream is reported again and again.)
JobSpawnsAgain(n) ==
    /\ jobs[n].thread \in {"start", "end"}
    /\ SpawnFromThread([k |-> "job", id |-> jobs[n].id, pc |-> jobs[n].thread])
    /\ jobs' = [jobs EXCEPT ![n].thread = IF @ = "start" THEN "started" ELSE "end"]
    /\ JobKeeps
JobSpawns(n) ==
    /\ jobs[n].thread \in {"start", "end"}
    /\ SpawnFromThread([k |-> "job", id |-> jobs[n].id, pc |-> jobs[n].thread])
    /\ jobs' = [jobs EXCEPT ![n].thread = IF @ = "start" THEN "started" ELSE "ended"]
    /\ JobKeeps

\* The tasks of a job: the first plays it, the second sets it to NULL, which
\* waits for its streaming thread while the mutex is held.
JobOf(f) == {n \in DOMAIN jobs : jobs[n].id = f.id}
WaitsForExecutor(n) == jobs[n].thread \in {"start", "end"}
PollJob(i) ==
    LET f == tasks[i].fut
    IN /\ f.k = "job"
       /\ Polls(i, "done", NoFn)
       /\ f.pc = "end" => \A n \in JobOf(f) : ~WaitsForExecutor(n)
       /\ jobs' = [n \in DOMAIN jobs |->
                      IF n \notin JobOf(f) THEN jobs[n]
                      ELSE IF f.pc = "start" THEN [jobs[n] EXCEPT !.thread = "playing", !.state = "rendering"]
                      ELSE [jobs[n] EXCEPT !.state = "complete"]]
       /\ JobKeeps

\* A job that is closed is dropped, which sets its pipeline to NULL too.
CloseJob(n) == /\ ~WaitsForExecutor(n)
               /\ jobs' = RemoveAt(jobs, n)
               /\ JobKeeps

\* The interface's thread holds the executor's mutex while it waits for the
\* streaming thread of a job: that thread is not waiting for the mutex.
NoExecutorDeadlock ==
    ExecutorLocked => \A i \in DOMAIN tasks : \A n \in DOMAIN jobs :
        tasks[i].fut.k = "job" /\ tasks[i].fut.pc = "end" /\ tasks[i].st = "ready"
        /\ tasks[i].fut.id = jobs[n].id => ~WaitsForExecutor(n)
=============================================================================
