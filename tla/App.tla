--------------------------------- MODULE App --------------------------------
(* The graphical application as a whole: the executor, the presets pane, the *)
(* preview and the render queue, driven by the frames of one thread.  A run  *)
(* is a session: what the user does in it is chosen at the start.            *)
EXTENDS PresetsDir, RenderQueue

CONSTANTS Sessions,    \* the kinds of things users do, together, in a session
          Acts         \* bound: what the user does in a session of each kind

\* There is a file to open, and another one among the recent files.
ASSUME MediaAssumption == Media # {} /\ "older" \notin Media

VARIABLES session,     \* what this user does
          acts         \* what the user may still do

vars == <<execVars, presetVars, sinkVars, previewVars, queueVars, session, acts>>
appKeeps == UNCHANGED <<session, acts>>

\* The longer sessions go without a failure; in the others anything may fail.
Init ==
    /\ session \in Sessions /\ ExecInit /\ QueueInit
    /\ LET path == CHOOSE m \in Media : TRUE
           first == IF "media" \in session THEN NewPipe(path)
                    ELSE IF "effects" \in session THEN PlayingPipe(path) ELSE NoPipe
       IN \/ /\ acts = Acts[session]
             /\ PresetInit(MaxFaults) /\ PreviewInit(first, <<path, "older">>, Errors)
          \/ /\ acts = Acts[session] - 1
             /\ PresetInit(0) /\ PreviewInit(first, <<path, "older">>, 0)

Does(kind) == kind \in session
UiFree == call = NoCall

-----------------------------------------------------------------------------
(* The frame.                                                                *)
TaskOf(i) == /\ appKeeps
             /\ \/ /\ \/ PollReloadStart(i) \/ PollReloadCreated(i) \/ PollReloadFailed(i)
                      \/ PollReloadRead(i) \/ PollWrite(i) \/ PollInstall(i)
                      \/ PollOpEnd(i) \/ PollLoad(i)
                   /\ UNCHANGED sinkVars /\ UNCHANGED previewVars /\ UNCHANGED queueVars
                \/ PollMedia(i) /\ UNCHANGED presetVars /\ UNCHANGED queueVars
                \/ (PollRender(i) \/ PollSave(i) \/ PollJob(i)) /\ UNCHANGED presetVars
PollTask == ui = "poll" /\ \E i \in DOMAIN tasks : TaskOf(i)

RunFn ==
    /\ ui = "run" /\ UiFree /\ appKeeps
    /\ \/ /\ RunFail \/ RunKids \/ RunOpEnd \/ (RunLoaded /\ ~Loaded)
          /\ UNCHANGED sinkVars /\ UNCHANGED previewVars /\ UNCHANGED queueVars
       \/ /\ Loaded /\ RunLoaded /\ SetEffectSettings(Head(fns).fut.v) /\ UNCHANGED queueVars
       \/ RunMedia /\ UNCHANGED presetVars /\ UNCHANGED queueVars
       \/ RunRender /\ UNCHANGED presetVars

Others == UNCHANGED presetVars /\ UNCHANGED sinkVars /\ UNCHANGED previewVars /\ UNCHANGED queueVars
Tick == /\ UiFree /\ appKeeps
        /\ \/ (BeginFrame \/ UserEvent) /\ Others
           \/ /\ Collect
              /\ IF ui' = "run" THEN Others
                 ELSE CheckStatus /\ UNCHANGED presetVars /\ UNCHANGED queueVars

\* The widgets: what is shown may load listings; the user does one thing, or none.
Idle == ui' = "idle" /\ UNCHANGED fns
NoTask == UNCHANGED <<tasks, spawned, repaint>>
SpawnsOne(t) == SpawnTo(tasks, <<t>>)

ShowNothing == /\ Idle /\ UNCHANGED acts
               /\ IF Does("presets") THEN \E open \in BOOLEAN : PaneShown(open)
                  ELSE NoTask /\ UNCHANGED presetVars
               /\ UNCHANGED sinkVars /\ UNCHANGED previewVars /\ UNCHANGED queueVars

UsePresets == /\ Does("presets") /\ Idle
              /\ \E open \in BOOLEAN : PaneAction(open, settings)
              /\ UNCHANGED sinkVars /\ UNCHANGED previewVars /\ UNCHANGED queueVars

UseMedia ==
    /\ Does("media") /\ UNCHANGED presetVars /\ UNCHANGED queueVars
    /\ \/ /\ Idle
          /\ SpawnsOne(DialogTask) \/ \E r \in ToSet(recent) : SpawnsOne(MediaTask(r))
          /\ UNCHANGED previewVars /\ UNCHANGED sinkVars
       \/ /\ Idle /\ NoTask
          /\ (\E path \in Media : LoadVideo(path)) \/ CloseVideo \/ TogglePlaying
       \/ RescaleVideo /\ NoTask /\ UNCHANGED fns

UseEffects == /\ Does("effects") /\ Idle /\ NoTask /\ UNCHANGED presetVars /\ UNCHANGED queueVars
              /\ \/ \E v \in Versions : v # settings /\ SetEffectSettings(v)
                 \/ \E m \in Modes : SetMode(m)

UseAudio == /\ Does("audio") /\ Idle /\ NoTask /\ UNCHANGED presetVars /\ UNCHANGED queueVars
            /\ DragVolume \/ ToggleMute

UseRender ==
    /\ Does("render") /\ Idle /\ UNCHANGED presetVars
    /\ \/ /\ pipe # NoPipe /\ asked < MaxJobs /\ asked' = asked + 1
          /\ SpawnsOne(SaveTask) \/ \E sequence \in BOOLEAN : SpawnsOne(RenderTask(sequence))
          /\ UNCHANGED previewVars /\ UNCHANGED sinkVars /\ UNCHANGED <<jobs, slot>>
       \/ (Confirm \/ Refuse) /\ NoTask
       \/ (\E n \in DOMAIN jobs : CloseJob(n)) /\ NoTask

Show == /\ ui = "show" /\ UiFree /\ UNCHANGED session
        /\ \/ ShowNothing
           \/ /\ acts > 0 /\ acts' = acts - 1
              /\ UsePresets \/ UseMedia \/ UseEffects \/ UseAudio \/ UseRender

-----------------------------------------------------------------------------
(* Everything else: pool threads, the streaming threads and the user's       *)
(* answers to dialogs.                                                       *)
ThreadOf(i) ==
    /\ tasks[i].st = "blocked" /\ appKeeps
    /\ \/ /\ ThreadReload(i) \/ ThreadRename(i) \/ ThreadOp(i) \/ ThreadLoad(i)
          /\ UNCHANGED sinkVars /\ UNCHANGED previewVars /\ UNCHANGED queueVars
       \/ ThreadRender(i) /\ UNCHANGED presetVars
PoolThread == \E i \in DOMAIN tasks : ThreadOf(i)
Answer == /\ appKeeps /\ UNCHANGED presetVars
          /\ \E i \in DOMAIN tasks : \/ AnswerPick(i) /\ UNCHANGED queueVars
                                     \/ AnswerSave(i)
Stream == /\ appKeeps /\ UNCHANGED presetVars /\ UNCHANGED queueVars
          /\ (Does("media") /\ StreamEvent(IF Does("audio") THEN {"video", "audio"} ELSE {"video"})) \/ (Does("effects") /\ Frame)
Sink == appKeeps /\ UNCHANGED presetVars /\ UNCHANGED queueVars /\ UiCall
Jobs == appKeeps /\ UNCHANGED presetVars /\ \E n \in DOMAIN jobs : JobEvent(n) \/ JobSpawns(n)

UiStep == Tick \/ PollTask \/ RunFn \/ Show \/ Sink
Next == UiStep \/ PoolThread \/ Answer \/ Stream \/ Jobs

\* The thread of the interface goes on by itself once a frame has been asked for
\* (but the user's own events may never come), pool threads finish, and so does
\* a frame that is being drawn.
Own == UiStep /\ ~(ui = "idle" /\ ~repaint)
Drawing == Frame /\ stream # "idle" /\ appKeeps /\ UNCHANGED presetVars /\ UNCHANGED queueVars
Fairness == WF_vars(Own) /\ SF_vars(Sink) /\ WF_vars(PoolThread) /\ WF_vars(Drawing)

Spec == Init /\ [][Next]_vars /\ Fairness

-----------------------------------------------------------------------------
\* The types of the state, with what several modules must agree on: who may
\* hold the texture, and which phase the interface's thread is in meanwhile.
TypeOK ==
    /\ ui \in Phases \cup {"panic"} /\ repaint \in BOOLEAN /\ spawned \in 0 .. MaxTasks
    /\ \A i \in DOMAIN tasks : /\ tasks[i].st \in {"ready", "blocked", "done"}
                                /\ tasks[i].id \in 1 .. spawned
    /\ fns # <<>> <=> ui = "run"
    /\ \A d \in Dirs : /\ listing[d].state \in States
                        /\ listing[d].entries \subseteq NamesOf(d)
                        /\ listing[d].active \in Nat
    /\ settings \in Versions /\ mode \in Modes
    /\ pipe # NoPipe => pipe.status \in {"Loading", "Loaded", "Error"}
    /\ sink.holder = "ui" <=> call.pc = "draw"
    /\ sink.holder = "stream" <=> stream = "draw"
    /\ pipe = NoPipe => call = NoCall /\ stream = "idle"

\* The executor does what the pool of tasks promises.
TasksImplementPool == Pool!Spec
=============================================================================
