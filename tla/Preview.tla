------------------------------ MODULE Preview -------------------------------
(* The media loaded in the preview: create_preview_pipeline and its bus      *)
(* handler, loading, closing, playing and seeking (gui/src/app/main.rs,      *)
(* pipeline_info.rs), the pads that add elements (ntsc_pipeline.rs), and the *)
(* settings of the application that the preview follows.                     *)
EXTENDS AppExecutor, EguiSink

CONSTANTS Media,       \* files the user can open
          RecentLimit, \* recent_files keeps 10
          Errors,      \* bound: messages of kind Error, and frames that fail
          Prudent      \* whether users wait for the video before they scale it

\* A session can start with two recent files.
ASSUME RecentAssumption == RecentLimit \in Nat /\ RecentLimit >= 2

VARIABLES pipe,        \* NtscApp::pipeline
          recent,      \* NtscApp::recent_files
          settings,    \* NtscApp::effect_settings
          mode,        \* NtscApp::effect_preview
          audio,       \* NtscApp::audio_volume
          errors       \* errors that have happened

previewVars == <<pipe, recent, settings, mode, audio, errors>>

\* The volume element as it is made; a gain of 1 is 100 %.
Untouched == [gain |-> -1, mute |-> FALSE]
NoPipe == [path |-> "nopipe"]
PlayingPipe(path) == [path |-> path, status |-> "Loaded", eos |-> FALSE, gst |-> "Playing",
                      elems |-> {"video"}, prerolled |-> TRUE, finished |-> TRUE,
                      volume |-> Untouched]
NewPipe(path) == [path |-> path, status |-> "Loading", eos |-> FALSE, gst |-> "Paused",
                  elems |-> {}, prerolled |-> FALSE, finished |-> FALSE,
                  volume |-> Untouched]

\* The state after the first frame, which loads the media named on the command
\* line: first is its pipeline, or none.
PreviewInit(first, files, failed) ==
    /\ pipe = first /\ recent = files
    /\ settings = 0
    /\ mode = "Enabled"
    /\ audio = [gain |-> 1, preMute |-> 1, mute |-> FALSE]
    /\ errors = failed
    /\ sink = NewSink(settings, mode) /\ stream = "idle" /\ call = NoCall

-----------------------------------------------------------------------------
(* The streaming threads and the bus handler.                                *)

\* pad-added: one video branch and one audio branch, until both are there or
\* the pipeline has prerolled.
PadAdded(kind) ==
    /\ pipe # NoPipe /\ ~pipe.finished /\ kind \notin pipe.elems
    /\ pipe' = [pipe EXCEPT !.elems = @ \cup {kind}]
    /\ UNCHANGED <<recent, settings, mode, audio, errors, repaint>>

\* The pipeline goes from READY to PAUSED: loaded, whatever the status was.
StateChanged ==
    /\ pipe # NoPipe /\ ~pipe.prerolled /\ pipe.elems # {}
    /\ pipe' = [pipe EXCEPT !.status = "Loaded", !.prerolled = TRUE]
    /\ UNCHANGED <<recent, settings, mode, audio, errors, repaint>>

\* ASYNC_DONE ends the loading; without video the callback reports an error.
AsyncDone ==
    /\ pipe # NoPipe /\ pipe.prerolled /\ ~pipe.finished
    /\ pipe' = IF "video" \in pipe.elems THEN [pipe EXCEPT !.finished = TRUE]
               ELSE [pipe EXCEPT !.finished = TRUE, !.status = "Error"]
    /\ repaint' = (repaint \/ "video" \notin pipe.elems)
    /\ UNCHANGED <<recent, settings, mode, audio, errors>>

\* A message of kind Error.
ErrorMessage ==
    /\ pipe # NoPipe /\ errors < Errors /\ errors' = errors + 1
    /\ pipe' = [pipe EXCEPT !.status = "Error", !.finished = TRUE]
    /\ repaint' = (repaint \/ pipe.status # "Error" \/ ~pipe.finished)
    /\ UNCHANGED <<recent, settings, mode, audio>>

\* Mutant of Eos: no repaint is requested.
EosQuietly ==
    /\ pipe # NoPipe /\ pipe.prerolled /\ pipe.gst = "Playing" /\ ~pipe.eos
    /\ pipe' = [pipe EXCEPT !.eos = TRUE]
    /\ UNCHANGED <<recent, settings, mode, audio, errors, repaint>>

\* The end of the stream: the handler cannot pause the pipeline, so it leaves
\* that to the next frame.
Eos ==
    /\ pipe # NoPipe /\ pipe.prerolled /\ pipe.gst = "Playing" /\ ~pipe.eos
    /\ pipe' = [pipe EXCEPT !.eos = TRUE]
    /\ repaint' = TRUE
    /\ UNCHANGED <<recent, settings, mode, audio, errors>>

StreamEvent(kinds) ==
               /\ \/ \E kind \in kinds : PadAdded(kind)
                  \/ StateChanged \/ AsyncDone \/ ErrorMessage \/ Eos
               /\ UNCHANGED sinkVars /\ UNCHANGED <<ui, tasks, fns, spawned>>

\* PipelineInfo::drop sets the pipeline to NULL, which waits for the streaming
\* threads and lets no further frame in.
Dropping == \/ ui = "poll" /\ pipe.status = "Error"
            \/ ui = "run" /\ Head(fns).fut.k = "media"

\* A frame that the sink could not draw is an error of the streaming thread.
Frame == /\ pipe # NoPipe /\ "video" \in pipe.elems
         /\ \/ /\ ~Dropping /\ \E f \in Frames : ShowFrame(f)
               /\ UNCHANGED <<repaint, errors>>
            \/ /\ StreamUpdate /\ repaint' = (repaint \/ stream = "draw")
               /\ UNCHANGED errors
            \/ /\ stream = "draw" /\ errors < Errors /\ errors' = errors + 1
               /\ FailsToDraw /\ stream' = "idle" /\ UNCHANGED <<repaint, call>>
         /\ UNCHANGED <<pipe, recent, settings, mode, audio, ui, tasks, fns, spawned>>

\* The call of set_property that the interface's thread is in.
UiCall == /\ SetSettings \/ SetPreviewMode \/ UiUpdate
          /\ repaint' = (repaint \/ call.pc = "draw")
          /\ UNCHANGED previewVars /\ UNCHANGED <<ui, tasks, fns, spawned>>

-----------------------------------------------------------------------------
(* What the interface's thread does to the preview.                          *)

\* Replacing or closing a pipeline waits until its streaming thread is done.
Stopped == pipe = NoPipe \/ stream = "idle"
\* (Mutant of Drops: nobody waits for the streaming thread.)
DropsAtOnce(newPipe) == pipe' = newPipe /\ sink' = NewSink(settings, mode)
                        /\ UNCHANGED <<stream, call>>
Drops(newPipe) == Stopped /\ pipe' = newPipe /\ sink' = NewSink(settings, mode)
                  /\ UNCHANGED <<stream, call>>

\* Mutant of Remembered: a file that is already among the recent ones is listed again.
RememberedAgain(path) ==
    SubSeq(<<path>> \o recent, 1, IF Len(recent) < RecentLimit THEN Len(recent) + 1 ELSE RecentLimit)

\* The newest of the recent files comes first; only a file that is not among
\* them makes the list longer, up to its limit.
Remembered(path) ==
    IF path \notin ToSet(recent)
    THEN SubSeq(<<path>> \o recent, 1, IF Len(recent) < RecentLimit THEN Len(recent) + 1 ELSE RecentLimit)
    ELSE <<path>> \o Kept(recent, {i \in DOMAIN recent : recent[i] # path})

\* load_video; when the pipeline cannot be made, the loaded one stays.
LoadVideo(path) ==
    /\ \/ Drops(NewPipe(path)) /\ recent' = Remembered(path) /\ UNCHANGED errors
       \/ /\ errors < Errors /\ errors' = errors + 1
          /\ UNCHANGED <<pipe, recent>> /\ UNCHANGED sinkVars
    /\ UNCHANGED <<settings, mode, audio>>

\* update looks at the status before it shows anything: it pauses a loaded
\* pipeline that has ended, and closes one that has failed.
CheckStatus ==
    /\ IF pipe = NoPipe \/ pipe.status = "Loading" THEN UNCHANGED pipe /\ UNCHANGED sinkVars
       ELSE IF pipe.status = "Error" THEN Drops(NoPipe)
       ELSE /\ pipe' = IF pipe.eos THEN [pipe EXCEPT !.gst = "Paused", !.eos = FALSE] ELSE pipe
            /\ UNCHANGED sinkVars
    /\ UNCHANGED <<recent, settings, mode, audio, errors>>

\* set_effect_settings and update_effect: an edit, undo, redo, a pasted or a
\* loaded preset, a reset.
SetEffectSettings(v) ==
    /\ settings' = v
    /\ IF pipe = NoPipe THEN UNCHANGED call ELSE CallSettings(v)
    /\ UNCHANGED <<pipe, recent, mode, audio, errors, sink, stream>>
SetMode(m) ==
    /\ m # mode /\ mode' = m
    /\ IF pipe = NoPipe THEN UNCHANGED call ELSE CallPreviewMode(m)
    /\ UNCHANGED <<pipe, recent, settings, audio, errors, sink, stream>>

TogglePlaying ==
    /\ pipe # NoPipe
    /\ pipe' = [pipe EXCEPT !.gst = IF @ = "Paused" THEN "Playing" ELSE "Paused"]
    /\ UNCHANGED <<recent, settings, mode, audio, errors>> /\ UNCHANGED sinkVars
CloseVideo == pipe # NoPipe /\ Drops(NoPipe) /\ UNCHANGED <<recent, settings, mode, audio, errors>>

\* The volume slider and the mute button of media that has sound.  Releasing
\* the slider at zero mutes; unmuting at zero restores the gain from before.
SetVolume(gain, preMute, mute) ==
    /\ pipe # NoPipe /\ "audio" \in pipe.elems
    /\ audio' = [gain |-> gain, preMute |-> preMute, mute |-> mute]
    /\ pipe' = [pipe EXCEPT !.volume = [gain |-> gain, mute |-> mute \/ gain = 0]]
    /\ UNCHANGED <<recent, settings, mode, errors>> /\ UNCHANGED sinkVars
Released(g) == IF g > 0 THEN SetVolume(g, g, FALSE) ELSE SetVolume(g, audio.preMute, TRUE)
DragVolume == ~audio.mute /\ \E g \in 0 .. 1 : SetVolume(g, audio.preMute, FALSE) \/ Released(g)
ToggleMute == SetVolume(IF audio.mute /\ audio.gain = 0 THEN audio.preMute ELSE audio.gain,
                        audio.preMute, ~audio.mute)

\* rescale_video looks up the caps filter that the video pad adds, and panics
\* without it.  Prudent users wait for the video.
RescaleVideo ==
    /\ pipe # NoPipe /\ (Prudent => "video" \in pipe.elems)
    /\ ui' = IF "video" \in pipe.elems THEN "idle" ELSE "panic"
    /\ UNCHANGED previewVars /\ UNCHANGED sinkVars

\* Files reach load_video through a dialog or the list of recent files.
MediaTask(path) == Ready([k |-> "recent", path |-> path])
DialogTask == Blocked([k |-> "pick"])
PollMedia(i) ==
    LET f == tasks[i].fut
    IN /\ \/ f.k = "recent" /\ Polls(i, "done", [f EXCEPT !.k = "media"])
          \/ f.k = "picked" /\ Polls(i, "done", [f EXCEPT !.k = "media"])
          \/ f.k = "cancelled" /\ Polls(i, "done", NoFn)
       /\ UNCHANGED previewVars /\ UNCHANGED sinkVars
AnswerPick(i) ==
    /\ tasks[i].fut.k = "pick"
    /\ (\E path \in Media : Wakes(i, [k |-> "picked", path |-> path])) \/ Wakes(i, [k |-> "cancelled"])
    /\ UNCHANGED previewVars /\ UNCHANGED sinkVars
RunMedia == Head(fns).fut.k = "media" /\ RunsFn(<<>>) /\ LoadVideo(Head(fns).fut.path)

-----------------------------------------------------------------------------
\* The preview never shows other settings, another mode or another volume than
\* the application does, whichever way they were changed and whenever the media
\* was loaded.  (The volume is not carried over to media loaded later.)
SinkFollowsApp ==
    pipe # NoPipe /\ call = NoCall =>
        /\ sink.settings = settings /\ sink.mode = mode
        /\ pipe.volume # Untouched =>
               pipe.volume = [gain |-> audio.gain, mute |-> audio.mute \/ audio.gain = 0]

\* The recent files name no file twice, stay within their limit, and the media
\* that is loaded comes first.
RecentFilesOrdered ==
    /\ Len(recent) <= RecentLimit
    /\ \A i, j \in DOMAIN recent : recent[i] = recent[j] => i = j
    /\ pipe # NoPipe => Len(recent) > 0 /\ recent[1] = pipe.path

\* A pipeline that reaches its end is paused or closed by a frame that the end
\* itself asks for, without the user moving.
EosPauses == (pipe # NoPipe /\ pipe.eos) ~> (pipe = NoPipe \/ ~pipe.eos)

\* "let caps_filter = pipeline.by_name("caps_filter").unwrap()": the interface's
\* thread never panics on an element it looks up.
NoPanic == ui # "panic"
=============================================================================
