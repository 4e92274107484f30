------------------------------ MODULE EguiSink ------------------------------
(* The preview's sink (gui/src/gst_utils/egui_sink.rs).  A streaming thread  *)
(* brings frames; the interface's thread sets the settings and the preview   *)
(* mode.  Whoever changed something redraws the texture, which holds the     *)
(* texture, the last frame and the mode under their mutexes all along, and   *)
(* the settings while the effect runs.                                       *)
EXTENDS Integers

CONSTANTS Versions,    \* effect settings; 0 is the default
          Frames       \* the pictures of a video

Modes == {"Enabled", "Disabled", "SplitScreen"}
NoFrame == 0
NoCall == [k |-> "nocall", pc |-> "nocall"]

\* 0 stands for the default settings, which a session starts with.
ASSUME VersionsAssumption == Versions \subseteq Nat /\ 0 \in Versions

VARIABLES sink,        \* the fields of the EguiSink in the pipeline
          stream,      \* what the streaming thread does in show_frame
          call         \* the set_property call of the interface's thread, if it is in one

sinkVars == <<sink, stream, call>>

\* Mutant of NewSink: a new sink starts with the default settings.
NewSinkDefault(settings, mode) ==
    [last |-> NoFrame, settings |-> 0, mode |-> mode, holder |-> "none",
     tex |-> [f |-> NoFrame, s |-> 0, m |-> mode], failed |-> FALSE]

\* A sink as create_preview_pipeline builds it.
NewSink(settings, mode) ==
    [last |-> NoFrame, settings |-> settings, mode |-> mode, holder |-> "none",
     tex |-> [f |-> NoFrame, s |-> settings, m |-> mode], failed |-> FALSE]

\* show_frame: a frame other than the last one takes its place.
ShowFrame(f) ==
    /\ stream = "idle" /\ sink.holder = "none"
    /\ IF f # sink.last
       THEN sink' = [sink EXCEPT !.last = f] /\ stream' = "update"
       ELSE UNCHANGED <<sink, stream>>
    /\ UNCHANGED call

\* The interface's thread calls set_property; nothing else runs on it until the
\* call returns.
CallSettings(v) == call' = [k |-> "settings", settings |-> v, pc |-> "write"]
CallPreviewMode(m) == call' = [k |-> "mode", mode |-> m, pc |-> "write"]
\* (Mutant of SetSettings: the texture is not drawn again.)
SetSettingsOnly == /\ call.k = "settings" /\ call.pc = "write"
                   /\ sink' = [sink EXCEPT !.settings = call.settings]
                   /\ call' = NoCall /\ UNCHANGED stream
SetSettings == /\ call.k = "settings" /\ call.pc = "write"
               /\ sink' = [sink EXCEPT !.settings = call.settings]
               /\ call' = [call EXCEPT !.pc = "update"] /\ UNCHANGED stream
SetPreviewMode == /\ call.k = "mode" /\ call.pc = "write" /\ sink.holder = "none"
                  /\ sink' = [sink EXCEPT !.mode = call.mode]
                  /\ call' = [call EXCEPT !.pc = "update"] /\ UNCHANGED stream

\* update_texture: without a frame there is nothing to draw.
Lock(who) == sink.holder = "none" /\ sink' = [sink EXCEPT !.holder = who]
Nothing == sink.holder = "none" /\ sink.last = NoFrame /\ UNCHANGED sink
Draws == sink' = [sink EXCEPT !.holder = "none", !.failed = FALSE,
                              !.tex = [f |-> sink.last, s |-> sink.settings, m |-> sink.mode]]
\* The effect or the plane's data can fail: the texture stays as it was.
FailsToDraw == sink' = [sink EXCEPT !.holder = "none", !.failed = TRUE]

UiUpdate == \/ call.pc = "update" /\ sink.last # NoFrame /\ Lock("ui")
               /\ call' = [call EXCEPT !.pc = "draw"] /\ UNCHANGED stream
            \/ call.pc = "update" /\ Nothing /\ call' = NoCall /\ UNCHANGED stream
            \/ call.pc = "draw" /\ Draws /\ call' = NoCall /\ UNCHANGED stream
StreamUpdate == \/ stream = "update" /\ Lock("stream") /\ stream' = "draw" /\ UNCHANGED call
                \/ stream = "draw" /\ Draws /\ stream' = "idle" /\ UNCHANGED call

\* What the texture shows once nobody is drawing: the last frame, drawn in the
\* mode and, where the effect is drawn, with the settings that were set last.
TextureCurrent ==
    /\ stream = "idle" /\ call = NoCall /\ ~sink.failed
    /\ sink.last # NoFrame
    => /\ sink.tex.f = sink.last /\ sink.tex.m = sink.mode
       /\ sink.mode = "Disabled" \/ sink.tex.s = sink.settings
=============================================================================
