---------------------------- MODULE MCRenderJob ----------------------------
(* Instances of RenderJob for TLC. *)
EXTENDS RenderJob

AllControls == {"pause", "resume", "close"}
AllInputs == {"video", "audio", "broken"}
=============================================================================
