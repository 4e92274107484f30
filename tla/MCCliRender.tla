---------------------------- MODULE MCCliRender ----------------------------
(* Instances of CliRender for TLC. *)
EXTENDS CliRender

CONSTANTS s1, s2

TwoStreamers == {s1, s2}
OneStreamer == {s1}
AnyOutput == BOOLEAN
Terminal == {TRUE}
AnyInput == {"video", "broken"}
BrokenInput == {"broken"}
=============================================================================
