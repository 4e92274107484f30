----------------------------- MODULE GpuEffect -----------------------------
(***************************************************************************)
(* The effect as the WGPU backend runs it (gpu/wgpu_backend.rs): the host  *)
(* encodes the stages of each field as commands on shared buffers, submits *)
(* them, and the device executes what was submitted while the host goes    *)
(* on. Compared with the CPU's planes (module CpuEffect).                  *)
(*                                                                         *)
(* wgpu itself is modelled by what the backend relies on: a queue executes *)
(* submissions in order, and the buffers written with write_buffer are     *)
(* written when the next submission starts, not when it is encoded.        *)
(***************************************************************************)
EXTENDS CpuEffect, FiniteSets

CONSTANTS
  Settings,      \* what a caller asks for, see SettingType
  Draws,         \* what the random numbers of a frame give, see DrawType
  LastFrame      \* number of the last frame of a clip that starts with frame 0

SettingType == [effect : Effect, field : YiqField, height : Nat \ {0}, output : {"yiq", "rgba8"},
  fast_math : BOOLEAN, block_filter : {"off", "fielded", "on"}]

\* events: the stages that draw snow in the field at each place;
\* oversized: the controls that exceed what a storage binding may hold.
DrawType == [events : [{0, 1} -> SUBSET {"snow", "tracking_noise"}],
  oversized : SUBSET STRING]

ASSUME SettingsAssumption == Settings \subseteq SettingType
ASSUME DrawsAssumption == Draws \subseteq DrawType
ASSUME LastFrameAssumption == LastFrame \in Nat

VARIABLES
  setting, draw, frame_num,  \* the call under way
  status,
  todo,                      \* its views that are still to be submitted
  uploaded,                  \* places for which the runner has a frame
  staged,                    \* writes that wait for the next submission
  queue,                     \* submitted commands
  planes,                    \* buffers of the runner's two frames
  data,                      \* data_cache: control buffers, shared by both frames
  params                     \* params_ring_buffer: uniforms, shared by both frames

host == <<setting, draw, frame_num, status, todo, uploaded>>
device == <<planes, data, params>>
vars == <<host, staged, queue, device>>

-----------------------------------------------------------------------------
(* Buffers and commands                                                    *)

Planes == {"y", "i", "q"}
ScratchOf == [y |-> "sy", i |-> "si", q |-> "sq"]
StagingOf == [y |-> "out_y", i |-> "out_i", q |-> "out_q"]
BufferNames == Planes \cup {ScratchOf[p] : p \in Planes} \cup {StagingOf[p] : p \in Planes}

MainGroup == <<"y", "i", "q">>
IPassGroup == <<"i", "y", "q">>
QPassGroup == <<"q", "y", "i">>
ChromaLossGroup == <<"i", "q", "y">>

RingSize == 8
BLOCK_FILTER_SIZE == 64

Copy(from, to) == [op |-> "copy", from |-> from, to |-> to]
CopyToScratch(p) == Copy(p, ScratchOf[p])

\* A filter of the planes in DOMAIN coeffs. Coefficients have buffers of their own.
FilterPass(entry, coeffs) == [op |-> "filter", entry |-> entry, coeffs |-> coeffs]

\* A pass that reads the base uniforms, or a slot of its own with `set' changed.
NothingNew == <<>>
Pass(entry, group) == [op |-> "pass", entry |-> entry, group |-> group]
PassWith(set, entry, group) == [op |-> "pass_with", set |-> set, entry |-> entry, group |-> group]

\* Passes that read one control buffer; empty controls give no pass.
DataPasses(entries, group, rows) ==
  [op |-> "data", entries |-> entries, group |-> group, rows |-> rows, empty |-> FALSE]
SnowPass(rows, drawn) ==
  [op |-> "data", entries |-> <<"snow">>, group |-> MainGroup, rows |-> rows, empty |-> ~drawn]

When(condition, steps) == IF condition THEN steps ELSE <<>>

CopiesToScratch(ps) ==
  When("y" \in ps, <<CopyToScratch("y")>>) \o When("i" \in ps, <<CopyToScratch("i")>>)
    \o When("q" \in ps, <<CopyToScratch("q")>>)
CopyAllToScratch == CopiesToScratch(Planes)

-----------------------------------------------------------------------------
(* Filters                                                                 *)

\* The block filter needs second-order filters: a constant-k low-pass is longer.
TypedFilters == {"light", "full_i", "full_q", "tape_luma", "tape_chroma", "vhs_sharpen"}

BlockFilterForFrame(s, v) ==
  \/ s.block_filter = "on"
  \/ s.block_filter = "fielded" /\ v.field # "both"

FitsBlocks(e, c) ==
  /\ c.tf \in TypedFilters => e.filter_type = "butterworth"
  /\ c.delay <= BLOCK_FILTER_SIZE

\* Commands for one dispatch over the planes in DOMAIN coeffs. A block filter
\* reads copies in the scratch planes.
FilterPlanes(s, v, coeffs) ==
  IF BlockFilterForFrame(s, v) /\ \A p \in DOMAIN coeffs : FitsBlocks(s.effect, coeffs[p])
  THEN CopiesToScratch(DOMAIN coeffs) \o <<FilterPass("block_filter", coeffs)>>
  ELSE <<FilterPass("filter_plane", coeffs)>>

FilterLuma(s, v, c) == FilterPlanes(s, v, [y |-> c])

FilterSeparately(s, v, i_coeffs, q_coeffs) ==
  FilterPlanes(s, v, [i |-> i_coeffs]) \o FilterPlanes(s, v, [q |-> q_coeffs])

\* dispatch_filter_planes: the same filter for both planes.
FilterChroma(s, v, c) ==
  IF s.fast_math THEN FilterPlanes(s, v, [i |-> c, q |-> c]) ELSE FilterSeparately(s, v, c, c)

\* Different filters for the planes share a dispatch only as blocks.
LowpassSteps(s, v, mode) ==
  LET i_coeffs == Coeffs("full_i", "zero", 2)
      q_coeffs == Coeffs("full_q", "zero", 4)
      together == FilterPlanes(s, v, [i |-> i_coeffs, q |-> q_coeffs])
  IN CASE mode = "none" -> <<>>
       [] mode = "light" -> FilterChroma(s, v, Coeffs("light", "zero", 1))
       [] mode = "full" -> IF together[Len(together)].entry = "block_filter" THEN together
                           ELSE FilterSeparately(s, v, i_coeffs, q_coeffs)

-----------------------------------------------------------------------------
(* encode_effect                                                           *)

LumaFilterSteps(s, v) ==
  CASE s.effect.luma_filter = "none" -> <<>>
    [] s.effect.luma_filter = "notch" -> FilterLuma(s, v, Coeffs("notch", "first", 0))
    [] s.effect.luma_filter = "box" -> <<Pass("luma_box", MainGroup)>>

HeadSteps(v) ==
  << CopyToScratch("y"), DataPasses(<<"shift_y">>, MainGroup, Seed("head_switching", v)) >>

TrackingSteps(v, drawn) ==
  << CopyToScratch("y"), DataPasses(<<"shift_y", "noise">>, MainGroup, Seed("tracking_noise", v)),
     SnowPass(Seed("tracking_snow", v), drawn) >>

DemodulationMode(s, v) ==
  IF v.rows = 1 /\ s.effect.demodulation \in {"one_line", "two_line"}
  THEN "notch" ELSE s.effect.demodulation

DemodulateEntry == [box |-> "demodulate_box", notch |-> "demodulate_notch",
  one_line |-> "demodulate_one_line", two_line |-> "demodulate_two_line"]

\* Mutant: the modulated signal is copied after the notch filter.
DemodulationStepsLateCopy(s, v) ==
  LET mode == DemodulationMode(s, v)
  IN When(mode = "notch", FilterLuma(s, v, Coeffs("notch", "zero", 0)))
     \o <<CopyToScratch("y"), Pass(DemodulateEntry[mode], MainGroup)>>

DemodulationSteps(s, v) ==
  LET mode == DemodulationMode(s, v)
  IN <<CopyToScratch("y")>>
     \o When(mode = "notch", FilterLuma(s, v, Coeffs("notch", "zero", 0)))
     \o <<Pass(DemodulateEntry[mode], MainGroup)>>

ChromaNoiseSteps(v) ==
  << DataPasses(<<"noise">>, IPassGroup, Seed("chroma_noise_i", v)),
     DataPasses(<<"noise">>, QPassGroup, Seed("chroma_noise_q", v)) >>

ChromaDelaySteps ==
  << CopyToScratch("i"), CopyToScratch("q"),
     PassWith([delay |-> "scaled"], "chroma_delay", MainGroup) >>

TapeSteps(s, v) ==
  FilterLuma(s, v, Coeffs("tape_luma", "zero", 0))
    \o FilterChroma(s, v, Coeffs("tape_chroma", "zero", s.effect.tape_delay))
    \o FilterLuma(s, v, Coeffs("tape_luma_again", "zero", 0))

EffectSteps(s, v, events) ==
  LET On(stage, steps) == When(Enabled(s.effect, stage), steps)
      Rows(stage, entry) == On(stage, <<DataPasses(<<entry>>, MainGroup, Seed(stage, v))>>)
  IN LumaFilterSteps(s, v)
     \o LowpassSteps(s, v, s.effect.chroma_lowpass_in)
     \o <<Pass("chroma_into_luma", MainGroup)>>
     \o On("composite_sharpening", FilterLuma(s, v, Coeffs("sharpening", "zero", 0)))
     \o Rows("composite_noise", "noise")
     \o On("snow", <<SnowPass(Seed("snow", v), "snow" \in events)>>)
     \o On("head_switching", HeadSteps(v))
     \o On("tracking_noise", TrackingSteps(v, "tracking_noise" \in events))
     \o DemodulationSteps(s, v)
     \o On("luma_smear", FilterLuma(s, v, Coeffs("smear", "zero", 0)))
     \o On("ringing", FilterLuma(s, v, Coeffs("ringing", "first", 1)))
     \o Rows("luma_noise", "noise")
     \o On("chroma_noise", ChromaNoiseSteps(v))
     \o On("chroma_phase_error", <<PassWith([angle |-> <<"error">>], "chroma_phase", MainGroup)>>)
     \o Rows("chroma_phase_noise", "phase")
     \o On("chroma_delay", ChromaDelaySteps)
     \o On("vhs_edge_wave", CopyAllToScratch
          \o <<DataPasses(<<"shift_all">>, MainGroup, Seed("vhs_edge_wave", v))>>)
     \o On("vhs_tape", TapeSteps(s, v))
     \o Rows("chroma_loss", "loss")
     \o On("vhs_sharpen", FilterLuma(s, v, Coeffs("vhs_sharpen", "zero", 0)))
     \o On("chroma_vert_blend", When(v.height >= 2,
          <<PassWith(NothingNew, "chroma_vert_blend", ChromaLossGroup)>>))
     \o LowpassSteps(s, v, s.effect.chroma_lowpass_out)

-----------------------------------------------------------------------------
(* From steps to commands: slots are taken and written                     *)

WriteData(slot, rows) == [op |-> "write_data", slot |-> slot, rows |-> rows]
WriteParams(slot, values) == [op |-> "write_params", slot |-> slot, values |-> values]
WritePlane(at, p, signal) == [op |-> "write_plane", at |-> at, plane |-> p, signal |-> signal]

\* A copy and a filter on a field.
CopyCommand(at, from, to) == [op |-> "copy", at |-> at, from |-> from, to |-> to]
FilterCommand(at, entry, coeffs) == [op |-> "filter", at |-> at, entry |-> entry, coeffs |-> coeffs]

\* A dispatch on a field: its bind groups, and what it was encoded to read
\* (`rows', for the property only).
Dispatch(at, entry, group, uniform, slot, rows) ==
  [op |-> "dispatch", at |-> at, entry |-> entry, group |-> group, uniform |-> uniform,
   slot |-> slot, rows |-> rows]

\* Mutants: every dispatch of data uses the same slot; or takes uniforms of its own.
EncodeDataSameSlot(acc, at, step, oversized) ==
  IF step.empty THEN acc
  ELSE [acc EXCEPT
          !.writes = Append(@, WriteData(1, step.rows)),
          !.commands = @ \o [n \in DOMAIN step.entries |->
             Dispatch(at, step.entries[n], step.group, 1, 1, step.rows)]]
EncodeDataOwnUniforms(acc, at, step, oversized) ==
  IF step.empty THEN acc
  ELSE [acc EXCEPT
          !.data_index = @ + 1, !.ring_idx = @ + 1,
          !.writes = @ \o <<WriteParams(acc.ring_idx, acc.values), WriteData(acc.data_index, step.rows)>>,
          !.commands = @ \o [n \in DOMAIN step.entries |->
             Dispatch(at, step.entries[n], step.group, acc.ring_idx, acc.data_index, step.rows)]]

\* dispatch_shared_data. The index is taken before the capacity is looked at;
\* after an error nothing more is uploaded or dispatched.
EncodeData(acc, at, step, oversized) ==
  LET slot == acc.data_index
      advanced == [acc EXCEPT !.data_index = @ + 1]
  IN IF step.empty \/ acc.pending_error THEN acc
     ELSE IF step.rows[1] \in oversized THEN [advanced EXCEPT !.pending_error = TRUE]
     ELSE [advanced EXCEPT
             !.writes = Append(@, WriteData(slot, step.rows)),
             !.commands = @ \o [n \in DOMAIN step.entries |->
                Dispatch(at, step.entries[n], step.group, 1, slot, step.rows)]]

\* get_params_bind_group: the next slot of the ring (TypeOK says that there is
\* one). The structure keeps what earlier stages have set in it.
EncodeUniform(acc, set) ==
  LET values == [f \in DOMAIN acc.values |-> IF f \in DOMAIN set THEN set[f] ELSE acc.values[f]]
  IN [acc EXCEPT !.ring_idx = @ + 1, !.values = values,
                 !.writes = Append(@, WriteParams(acc.ring_idx, values))]

EncodeStep(acc, at, step, oversized) ==
  LET Command(a, c) == [a EXCEPT !.commands = Append(@, c)]
  IN CASE step.op = "copy" -> Command(acc, CopyCommand(at, step.from, step.to))
       [] step.op = "filter" -> Command(acc, FilterCommand(at, step.entry, step.coeffs))
       [] step.op = "pass" -> Command(acc, Dispatch(at, step.entry, step.group, 1, 0, <<>>))
       [] step.op = "pass_with" ->
            Command(EncodeUniform(acc, step.set),
                    Dispatch(at, step.entry, step.group, acc.ring_idx, 0, <<>>))
       [] step.op = "data" -> EncodeData(acc, at, step, oversized)

\* The steps one after the other, from what has been encoded before.
Encode(acc, at, steps, oversized) ==
  LET after[n \in 0 .. Len(steps)] ==
        IF n = 0 THEN acc ELSE EncodeStep(after[n - 1], at, steps[n], oversized)
  IN after[Len(steps)]

EncodeEffect(s, v, d) ==
  LET start == [writes |-> <<>>, commands |-> <<>>, data_index |-> 1, ring_idx |-> 1,
                values |-> [frame |-> v.frame, angle |-> <<"none">>, delay |-> "unscaled"],
                pending_error |-> FALSE]
  IN Encode(EncodeUniform(start, NothingNew), v.at, EffectSteps(s, v, d.events[v.at]), d.oversized)

-----------------------------------------------------------------------------
(* The runner                                                              *)

\* The runner's views, the first one submitted first (NtscEffectRunner::apply_effect).
GpuViews(s, n) ==
  LET Half(at, field) == When(ActualRows(field, s.height) > 0,
                              <<View(at, field, s.height, n, 2 * n + at)>>)
      Halves(first, second) == Half(0, first) \o Half(1, second)
  IN CASE s.field = "interleaved_upper" -> Halves("upper", "lower")
       [] s.field = "interleaved_lower" -> Halves("lower", "upper")
       [] OTHER -> <<View(0, s.field, s.height, n, n)>>

Download(at) ==
  << CopyCommand(at, "y", "out_y"), CopyCommand(at, "i", "out_i"), CopyCommand(at, "q", "out_q") >>
RgbaDownload(at) ==
  << Dispatch(at, "yiq_to_rgba8", MainGroup, 0, 0, <<>>), CopyCommand(at, "sy", "out_y") >>

\* A frame without a second field is downloaded by the submission of its effect.
Combined == setting.output = "yiq" /\ \A n \in DOMAIN GpuViews(setting, frame_num) :
                                        GpuViews(setting, frame_num)[n].at = 0

InputOf(v) == [y |-> Input("y", v.image), i |-> Input("i", v.image), q |-> Input("q", v.image)]

\* upload_into stages the planes of a frame the runner has already.
Upload(v) ==
  IF v.at \in uploaded
  THEN << WritePlane(v.at, "y", InputOf(v).y), WritePlane(v.at, "i", InputOf(v).i),
          WritePlane(v.at, "q", InputOf(v).q) >>
  ELSE <<>>

\* upload_frame creates the buffers with the planes in them.
CreateFrame(v) ==
  /\ uploaded' = uploaded \cup {v.at}
  /\ planes' = IF v.at \in uploaded THEN planes
               ELSE [planes EXCEPT ![v.at] =
                      [b \in BufferNames |-> IF b \in Planes THEN InputOf(v)[b] ELSE Scrap]]

Init ==
  /\ setting \in {s \in Settings : s.output = "rgba8" => s.field = "both"}
  /\ draw \in Draws
  /\ frame_num = 0
  /\ status = "encoding"
  /\ todo = GpuViews(setting, 0)
  /\ uploaded = {}
  /\ staged = <<>>
  /\ queue = <<>>
  /\ planes = [at \in {0, 1} |-> [b \in BufferNames |-> Scrap]]
  /\ data = <<>>
  /\ params = [slot \in 1 .. RingSize |-> <<>>]

\* apply_effect, or apply_effect_and_enqueue_download. What is staged goes first.
SubmitEffect ==
  /\ status = "encoding"
  /\ todo # <<>>
  /\ LET v == Head(todo)
         encoded == EncodeEffect(setting, v, draw)
     IN /\ ~encoded.pending_error
        /\ CreateFrame(v)
        /\ queue' = queue \o staged \o Upload(v) \o encoded.writes \o encoded.commands
                          \o When(Combined, Download(v.at))
  /\ staged' = <<>>
  /\ todo' = Tail(todo)
  /\ status' = IF Combined THEN "waiting" ELSE status
  /\ UNCHANGED <<setting, draw, frame_num, data, params>>

\* encode_effect returns nothing to submit, and the call fails; its writes stay
\* staged, and an earlier field's commands go on.
FailEncoding ==
  /\ status = "encoding"
  /\ todo # <<>>
  /\ LET v == Head(todo)
         encoded == EncodeEffect(setting, v, draw)
     IN /\ encoded.pending_error
        /\ CreateFrame(v)
        /\ staged' = staged \o Upload(v) \o encoded.writes
  /\ status' = "failed"
  /\ UNCHANGED <<setting, draw, frame_num, todo, queue, data, params>>

\* enqueue_downloads and enqueue_rgba8_downloads: one submission for all fields.
SubmitDownloads ==
  /\ status = "encoding"
  /\ todo = <<>>
  /\ LET Readback(v) == IF setting.output = "yiq" THEN Download(v.at) ELSE RgbaDownload(v.at)
         views == GpuViews(setting, frame_num)
     IN queue' = queue \o staged \o Readback(views[1])
                       \o When(Len(views) > 1, Readback(views[2]))
  /\ staged' = <<>>
  /\ status' = "waiting"
  /\ UNCHANGED <<setting, draw, frame_num, todo, uploaded, device>>

\* The poll returns when everything submitted has been executed.
Finish ==
  /\ status = "waiting"
  /\ queue = <<>>
  /\ status' = "done"
  /\ UNCHANGED <<setting, draw, frame_num, todo, uploaded, staged, queue, device>>

\* The next frame of the clip, with the same settings. After a failed call the
\* device may still be busy.
NextFrame ==
  /\ status \in {"done", "failed"}
  /\ frame_num < LastFrame
  /\ frame_num' = frame_num + 1
  /\ draw' \in Draws
  /\ todo' = GpuViews(setting, frame_num + 1)
  /\ status' = "encoding"
  /\ UNCHANGED <<setting, uploaded, staged, queue, device>>

-----------------------------------------------------------------------------
(* The device                                                              *)

Step(command) == queue # <<>> /\ command = Head(queue).op /\ queue' = Tail(queue)

ExecuteWriteData ==
  /\ Step("write_data")
  /\ LET c == Head(queue)
     IN data' = IF c.slot <= Len(data) THEN [data EXCEPT ![c.slot] = c.rows] ELSE Append(data, c.rows)
  /\ UNCHANGED <<host, staged, planes, params>>

ExecuteWriteParams ==
  /\ Step("write_params")
  /\ params' = [params EXCEPT ![Head(queue).slot] = Head(queue).values]
  /\ UNCHANGED <<host, staged, planes, data>>

ExecuteWritePlane ==
  /\ Step("write_plane")
  /\ planes' = [planes EXCEPT ![Head(queue).at][Head(queue).plane] = Head(queue).signal]
  /\ UNCHANGED <<host, staged, data, params>>

ExecuteCopy ==
  /\ Step("copy")
  /\ LET c == Head(queue) IN planes' = [planes EXCEPT ![c.at][c.to] = planes[c.at][c.from]]
  /\ UNCHANGED <<host, staged, data, params>>

\* filter_plane.wgsl works in place, block_filter_production.wgsl from the scratch planes.
FilterShader(c, b) ==
  LET source(p) == IF c.entry = "block_filter" THEN b[ScratchOf[p]] ELSE b[p]
  IN [n \in DOMAIN b |-> IF n \in DOMAIN c.coeffs THEN Filter(c.coeffs[n], source(n)) ELSE b[n]]

ExecuteFilter ==
  /\ Step("filter")
  /\ LET c == Head(queue) IN planes' = [planes EXCEPT ![c.at] = FilterShader(c, @)]
  /\ UNCHANGED <<host, staged, data, params>>

\* shift_y takes the pixels it moves from the scratch plane and leaves others.
Shifted(rows, scratch, plane) ==
  IF scratch = plane THEN Shift(rows, plane) ELSE <<"torn", rows, scratch, plane>>

\* The shaders: each takes the buffers b of a frame, the uniforms u and the
\* rows of its control buffer.
DemodulateShader(mode, u, b) ==
  LET y == IF mode = "notch" THEN b.y ELSE Separate(mode, b.sy)
  IN [b EXCEPT !.y = y, !.i = Demodulate("i", u.frame, y, b.sy),
                        !.q = Demodulate("q", u.frame, y, b.sy)]

Shader(c, u, rows, b) ==
  LET first == c.group[1]
      second == c.group[2]
      Rotated(angle) == [b EXCEPT !.i = Rotate("i", angle, b.i, b.q), !.q = Rotate("q", angle, b.i, b.q)]
  IN CASE c.entry = "luma_box" -> [b EXCEPT !.y = Separate("luma_box", @)]
       [] c.entry = "chroma_into_luma" -> [b EXCEPT !.y = Modulate(u.frame, @, b.i, b.q)]
       [] c.entry = "noise" -> [b EXCEPT ![first] = Noise(rows, @)]
       [] c.entry = "snow" -> [b EXCEPT !.y = Speckles(rows, @)]
       [] c.entry = "shift_y" -> [b EXCEPT !.y = Shifted(rows, b.sy, @)]
       [] c.entry = "shift_all" -> [b EXCEPT !.y = Shift(rows, b.sy), !.i = Shift(rows, b.si),
                                             !.q = Shift(rows, b.sq)]
       [] c.entry = "chroma_phase" -> IF u.angle = <<"none">> THEN b ELSE Rotated(u.angle)
       [] c.entry = "phase" -> Rotated(rows)
       [] c.entry = "chroma_delay" -> [b EXCEPT !.i = Delay(u.delay, b.si), !.q = Delay(u.delay, b.sq)]
       [] c.entry = "loss" -> [b EXCEPT !.i = Lose(rows, @), !.q = Lose(rows, @)]
       [] c.entry = "chroma_vert_blend" -> [b EXCEPT ![first] = Blend(@), ![second] = Blend(@)]
       [] c.entry = "yiq_to_rgba8" -> [b EXCEPT !.sy = <<"rgba8", b.y, b.i, b.q>>]
       [] c.entry = "demodulate_box" -> DemodulateShader("box", u, b)
       [] c.entry = "demodulate_notch" -> DemodulateShader("notch", u, b)
       [] c.entry = "demodulate_one_line" -> DemodulateShader("one_line", u, b)
       [] c.entry = "demodulate_two_line" -> DemodulateShader("two_line", u, b)

RowsRead(c) == IF c.slot \in DOMAIN data THEN data[c.slot] ELSE <<>>

ExecuteDispatch ==
  /\ Step("dispatch")
  /\ LET c == Head(queue)
         u == IF c.uniform \in DOMAIN params THEN params[c.uniform] ELSE <<>>
     IN planes' = [planes EXCEPT ![c.at] = Shader(c, u, RowsRead(c), @)]
  /\ UNCHANGED <<host, staged, data, params>>

Host == SubmitEffect \/ FailEncoding \/ SubmitDownloads \/ Finish \/ NextFrame

Device ==
  \/ ExecuteWriteData
  \/ ExecuteWriteParams
  \/ ExecuteWritePlane
  \/ ExecuteCopy
  \/ ExecuteFilter
  \/ ExecuteDispatch

Next == Host \/ Device

Spec == Init /\ [][Next]_vars

-----------------------------------------------------------------------------
(* Properties                                                              *)

\* The calls, the places and the slots that the variables name exist; no
\* command uses a frame that was not uploaded or a uniform outside the ring.
TypeOK ==
  /\ setting \in Settings /\ draw \in Draws /\ frame_num \in 0 .. LastFrame
  /\ status \in {"encoding", "waiting", "done", "failed"}
  /\ uploaded \subseteq {0, 1}
  /\ \A n \in DOMAIN todo : todo[n].at \in {0, 1}
  /\ DOMAIN planes = {0, 1} /\ \A at \in {0, 1} : DOMAIN planes[at] = BufferNames
  /\ DOMAIN params = 1 .. RingSize
  /\ \A n \in DOMAIN queue : queue[n].op = "dispatch" =>
        queue[n].at \in uploaded /\ queue[n].uniform \in 0 .. RingSize

\* A call that succeeds delivers the planes the CPU computes for the same
\* fields, settings and random numbers: the same stages, filters, seeds and
\* frame numbers in the same order, whatever the scratch planes are shared by,
\* whether filters run by rows or by blocks, and whatever an earlier frame
\* left in the buffers (ntsc.rs apply_effect_cpu_to_all_fields).
DeliveredMatchesCpu ==
  status = "done" =>
    \A v \in CpuViews(setting.field, setting.height, frame_num) :
      LET expected == CpuEffectOnField(setting.effect, v, draw.events[v.at])
          b == planes[v.at]
      IN IF setting.output = "yiq" THEN <<b.out_y, b.out_i, b.out_q>> = expected
         ELSE b.out_y = <<"rgba8", expected[1], expected[2], expected[3]>>

\* A dispatch reads the control rows it was encoded for, although the slots of
\* data_cache are written again by the next field and the next frame while the
\* device lags behind (dispatch_shared_data).
DispatchReadsItsData ==
  queue # <<>> /\ Head(queue).op = "dispatch" => RowsRead(Head(queue)) = Head(queue).rows

=============================================================================
