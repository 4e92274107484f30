---------------------------- MODULE MCGpuEffect ----------------------------
(* An instance of GpuEffect for TLC.                                       *)
EXTENDS GpuEffect

Everything == [luma_filter |-> "notch", filter_type |-> "butterworth", chroma_lowpass_in |-> "full",
  chroma_lowpass_out |-> "light", demodulation |-> "box", tape_delay |-> 4, stages |-> Optional]

\* One setting changed at a time, and two kinds of filter where blocks are used.
Variants ==
  {[Everything EXCEPT !.luma_filter = m] : m \in {"none", "box"}} \cup
  {[Everything EXCEPT !.chroma_lowpass_in = m] : m \in {"none", "light"}} \cup
  {[Everything EXCEPT !.chroma_lowpass_out = m] : m \in {"none", "full"}} \cup
  {[Everything EXCEPT !.demodulation = m, !.filter_type = t] :
     m \in {"box", "notch", "one_line", "two_line"}, t \in {"constant_k", "butterworth"}} \cup
  {[Everything EXCEPT !.tape_delay = 65]}

\* One or two of the stages that share scratch planes or uniforms; or all but one.
Sharing == {"snow", "head_switching", "tracking_noise", "chroma_noise", "chroma_phase_error",
  "chroma_delay", "vhs_edge_wave", "chroma_vert_blend"}
Few == {[Everything EXCEPT !.stages = {a, b}, !.chroma_lowpass_in = "none"] : a, b \in Sharing}
Most == {[Everything EXCEPT !.stages = Optional \ {a}] : a \in Optional}

Ask(effect, field, height, output, fast_math, block_filter) ==
  [effect |-> effect, field |-> field, height |-> height, output |-> output,
   fast_math |-> fast_math, block_filter |-> block_filter]

MCSettings ==
  {Ask(e, "both", 2, "yiq", TRUE, "on") : e \in Few} \cup
  {Ask(e, "both", 2, "yiq", FALSE, "off") : e \in Most} \cup
  {Ask(e, "interleaved_lower", 3, "yiq", TRUE, "fielded") : e \in Variants} \cup
  {Ask(Everything, f, h, "yiq", TRUE, "fielded") : f \in YiqField, h \in 1 .. 2} \cup
  {Ask([Everything EXCEPT !.demodulation = "one_line"], "both", h, "rgba8", TRUE, b) :
     h \in 1 .. 2, b \in {"off", "on"}}

\* Snow in both fields; or in the second one only, where it does not fit.
MCDraws == {
  [events |-> [at \in {0, 1} |-> {"snow", "tracking_noise"}], oversized |-> {}],
  [events |-> [at \in {0, 1} |-> IF at = 1 THEN {"snow", "tracking_noise"} ELSE {}],
   oversized |-> {"tracking_snow"}] }
=============================================================================
