----------------------------- MODULE CpuEffect -----------------------------
(***************************************************************************)
(* The effect on one field, as the CPU computes it: which stages run, in   *)
(* which order, on which planes, with which seeds. It is the reference the *)
(* GPU's commands are compared with (module GpuEffect).                    *)
(*                                                                         *)
(* Arithmetic is abstracted: a signal is a term, the name of the operation *)
(* and its operands, so that two signals are equal when the same           *)
(* operations were applied to the same operands in the same order.         *)
(***************************************************************************)
EXTENDS Naturals, Sequences

-----------------------------------------------------------------------------
(* Signals                                                                 *)

Input(plane, image) == <<"input", plane, image>>
Scrap == <<"scrap">>                       \* whatever an operation left behind

\* What each stage's random numbers are drawn from: its tag and the field's
\* number. Rows of controls and streams of snow are known by their seed.
Seed(tag, v) == <<tag, v.frame>>

Filter(c, x) == <<"filter", c, x>>
Shift(rows, x) == <<"shift", rows, x>>
Noise(rows, x) == <<"noise", rows, x>>
Speckles(rows, x) == <<"speckles", rows, x>>
Modulate(frame, y, i, q) == <<"modulate", frame, y, i, q>>
Separate(mode, modulated) == <<"separate", mode, modulated>>
Demodulate(plane, frame, y, modulated) == <<"demodulate", plane, frame, y, modulated>>
Rotate(plane, angle, i, q) == <<"rotate", plane, angle, i, q>>
Delay(by, x) == <<"delay", by, x>>
Lose(rows, x) == <<"lose", rows, x>>
Blend(x) == <<"blend", x>>

\* A filter: its transfer function, what it starts from and by how much its
\* output is moved to the left.
Coeffs(tf, initial, delay) == [tf |-> tf, initial |-> initial, delay |-> delay]

-----------------------------------------------------------------------------
(* Settings and fields                                                     *)

\* Stages a setting switches off. A VHS stage needs the VHS settings, and the
\* sharpening of the tape its speed too.
Optional == {"composite_sharpening", "composite_noise", "snow", "head_switching", "tracking_noise",
  "luma_smear", "ringing", "luma_noise", "chroma_noise", "chroma_phase_error", "chroma_phase_noise",
  "chroma_delay", "vhs_edge_wave", "vhs_tape", "chroma_loss", "vhs_sharpen", "chroma_vert_blend"}

Effect == [luma_filter : {"none", "notch", "box"}, filter_type : {"constant_k", "butterworth"},
  chroma_lowpass_in : {"none", "light", "full"}, chroma_lowpass_out : {"none", "light", "full"},
  demodulation : {"box", "notch", "one_line", "two_line"}, tape_delay : Nat, stages : SUBSET Optional]

Enabled(e, stage) ==
  /\ stage \in Optional => stage \in e.stages
  /\ stage = "vhs_sharpen" => "vhs_tape" \in e.stages

YiqField == {"both", "upper", "lower", "interleaved_upper", "interleaved_lower"}

ActualRows(field, height) ==
  CASE field = "upper" -> (height + 1) \div 2
    [] field = "lower" -> height \div 2
    [] OTHER -> height

ImageRows(field, height) ==
  IF field = "lower" /\ height = 1 THEN 1 ELSE ActualRows(field, height)

\* The rows of one field: at is their place in the frame (0 if first), number
\* what the stages take for the frame's number.
View(at, field, height, frame_num, number) ==
  [at |-> at, image |-> <<frame_num, at>>, field |-> field, rows |-> ImageRows(field, height),
   height |-> height, frame |-> number]

\* The fields of a frame and their numbers: the field stored first gets the
\* even one. split_at_row gives no view for a field without rows.
CpuViews(field, height, frame_num) ==
  LET Fields(upper_at, lower_at) ==
        {View(upper_at, "upper", height, frame_num, 2 * frame_num + upper_at),
         View(lower_at, "lower", height, frame_num, 2 * frame_num + lower_at)}
      HasRows(v) == ActualRows(v.field, height) > 0
  IN CASE field = "interleaved_upper" -> {v \in Fields(0, 1) : HasRows(v)}
       [] field = "interleaved_lower" -> {v \in Fields(1, 0) : HasRows(v)}
       [] OTHER -> {View(0, field, height, frame_num, frame_num)}

-----------------------------------------------------------------------------
(* The stages: each one takes the planes y, i, q and the scratch plane s   *)

LumaFilter(e, b) ==
  CASE e.luma_filter = "none" -> b
    [] e.luma_filter = "box" -> [b EXCEPT !.y = Separate("luma_box", @)]
    [] e.luma_filter = "notch" -> [b EXCEPT !.y = Filter(Coeffs("notch", "first", 0), @)]

ChromaLowpass(mode, b) ==
  CASE mode = "none" -> b
    [] mode = "light" -> [b EXCEPT !.i = Filter(Coeffs("light", "zero", 1), @),
                                   !.q = Filter(Coeffs("light", "zero", 1), @)]
    [] mode = "full" -> [b EXCEPT !.i = Filter(Coeffs("full_i", "zero", 2), @),
                                  !.q = Filter(Coeffs("full_q", "zero", 4), @)]

ChromaIntoLuma(v, b) == [b EXCEPT !.y = Modulate(v.frame, @, b.i, b.q)]

FilterY(c, b) == [b EXCEPT !.y = Filter(c, @)]

\* A row at the head switch is shifted into the scratch plane first.
HeadSwitching(v, b) == [b EXCEPT !.y = Shift(Seed("head_switching", v), @), !.s = Scrap]

\* Speckles are there only if the random numbers drew some (events).
SpeckleY(rows, events, b) == IF events THEN [b EXCEPT !.y = Speckles(rows, @)] ELSE b

\* Each row is shifted, then noise is added, then snow. The scratch plane
\* holds the shifts.
TrackingNoise(v, events, b) ==
  LET rows == Seed("tracking_noise", v)
  IN SpeckleY(Seed("tracking_snow", v), events,
       [b EXCEPT !.y = Noise(rows, Shift(rows, @)), !.s = Scrap])

\* The modulated signal is kept in the scratch plane; comb filters need two lines.
LumaIntoChroma(e, v, b) ==
  LET comb == e.demodulation \in {"one_line", "two_line"}
      mode == IF v.rows = 1 /\ comb THEN "notch" ELSE e.demodulation
      modulated == b.y
      y == IF mode = "notch" THEN Filter(Coeffs("notch", "zero", 0), b.y)
                             ELSE Separate(mode, modulated)
  IN [y |-> y, s |-> modulated,
      i |-> Demodulate("i", v.frame, y, modulated), q |-> Demodulate("q", v.frame, y, modulated)]

ChromaNoise(v, b) == [b EXCEPT !.i = Noise(Seed("chroma_noise_i", v), @),
                               !.q = Noise(Seed("chroma_noise_q", v), @)]

RotateChroma(angle, b) == [b EXCEPT !.i = Rotate("i", angle, b.i, b.q),
                                    !.q = Rotate("q", angle, b.i, b.q)]

ChromaDelay(b) == [b EXCEPT !.i = Delay("scaled", @), !.q = Delay("scaled", @)]

\* The shifts, which the scratch plane holds, are the same for the three planes.
VhsEdgeWave(v, b) ==
  LET rows == Seed("vhs_edge_wave", v)
  IN [y |-> Shift(rows, b.y), i |-> Shift(rows, b.i), q |-> Shift(rows, b.q), s |-> Scrap]

VhsTape(e, b) == [b EXCEPT !.y = Filter(Coeffs("tape_luma_again", "zero", 0),
                                     Filter(Coeffs("tape_luma", "zero", 0), @)),
                        !.i = Filter(Coeffs("tape_chroma", "zero", e.tape_delay), @),
                        !.q = Filter(Coeffs("tape_chroma", "zero", e.tape_delay), @)]

ChromaLoss(v, b) == [b EXCEPT !.i = Lose(Seed("chroma_loss", v), @),
                              !.q = Lose(Seed("chroma_loss", v), @)]

\* Decided by the height of the image, not of the field. The scratch plane
\* holds the line above.
ChromaVertBlend(v, b) ==
  IF v.height < 2 THEN b ELSE [b EXCEPT !.i = Blend(@), !.q = Blend(@), !.s = Scrap]

CpuStages == <<
  "luma_filter", "chroma_lowpass_in", "chroma_into_luma", "composite_sharpening", "composite_noise",
  "snow", "head_switching", "tracking_noise", "luma_into_chroma", "luma_smear", "ringing",
  "luma_noise", "chroma_noise", "chroma_phase_error", "chroma_phase_noise", "chroma_delay",
  "vhs_edge_wave", "vhs_tape", "chroma_loss", "vhs_sharpen", "chroma_vert_blend", "chroma_lowpass_out" >>

\* `events': the stages whose random numbers draw snow in this field.
CpuStage(e, v, events, stage, b) ==
  IF ~Enabled(e, stage) THEN b ELSE
  CASE stage = "luma_filter" -> LumaFilter(e, b)
    [] stage = "chroma_lowpass_in" -> ChromaLowpass(e.chroma_lowpass_in, b)
    [] stage = "chroma_into_luma" -> ChromaIntoLuma(v, b)
    [] stage = "composite_sharpening" -> FilterY(Coeffs("sharpening", "zero", 0), b)
    [] stage = "composite_noise" -> [b EXCEPT !.y = Noise(Seed("composite_noise", v), @)]
    [] stage = "snow" -> SpeckleY(Seed("snow", v), "snow" \in events, b)
    [] stage = "head_switching" -> HeadSwitching(v, b)
    [] stage = "tracking_noise" -> TrackingNoise(v, "tracking_noise" \in events, b)
    [] stage = "luma_into_chroma" -> LumaIntoChroma(e, v, b)
    [] stage = "luma_smear" -> FilterY(Coeffs("smear", "zero", 0), b)
    [] stage = "ringing" -> FilterY(Coeffs("ringing", "first", 1), b)
    [] stage = "luma_noise" -> [b EXCEPT !.y = Noise(Seed("luma_noise", v), @)]
    [] stage = "chroma_noise" -> ChromaNoise(v, b)
    [] stage = "chroma_phase_error" -> RotateChroma(<<"error">>, b)
    [] stage = "chroma_phase_noise" -> RotateChroma(Seed("chroma_phase_noise", v), b)
    [] stage = "chroma_delay" -> ChromaDelay(b)
    [] stage = "vhs_edge_wave" -> VhsEdgeWave(v, b)
    [] stage = "vhs_tape" -> VhsTape(e, b)
    [] stage = "chroma_loss" -> ChromaLoss(v, b)
    [] stage = "vhs_sharpen" -> FilterY(Coeffs("vhs_sharpen", "zero", 0), b)
    [] stage = "chroma_vert_blend" -> ChromaVertBlend(v, b)
    [] stage = "chroma_lowpass_out" -> ChromaLowpass(e.chroma_lowpass_out, b)

\* The planes of a field after the effect.
CpuEffectOnField(e, v, events) ==
  LET input == [y |-> Input("y", v.image), i |-> Input("i", v.image), q |-> Input("q", v.image), s |-> Scrap]
      after[n \in 0 .. Len(CpuStages)] ==
        IF n = 0 THEN input ELSE CpuStage(e, v, events, CpuStages[n], after[n - 1])
      b == after[Len(CpuStages)]
  IN <<b.y, b.i, b.q>>

=============================================================================
