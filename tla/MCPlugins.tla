------------------------------- MODULE MCPlugins ------------------------------
(* Sessions about every setting, from each host to the next; presets of older  *)
(* releases, of ntscQT and damaged ones; and frames whose sizes, layers and    *)
(* rectangles have odd edges, in every field.                                  *)
EXTENDS Plugins

NoFile == Preset(Broken, Failed)
NoProject == 62

\* Settings of a user who changed them all.
Unusual == [n \in Names |->
    LET d == Named[n]
    IN IF d.kind = "menu" THEN Last(d.options) ELSE IF Default[n] = d.lo THEN d.hi ELSE d.lo]

\* A preset of a release that knew the settings below a number.
OldRelease(number) ==
    Preset(Json(Restrict(ToJson(Unusual).keys, {n \in Names : Named[n].id < number} \cup {"version"})),
           Parsed([n \in Names |-> IF Named[n].id < number THEN Unusual[n] ELSE Legacy[n]]))

\* A preset of this release where a key has another value; `look' if it can be read.
Damaged(key, value, look) == Preset(Json((key :> value) @@ ToJson(Unusual).keys), look)

DamagedFiles(d) ==
    {Damaged(d.name, IF IsFlag(d) THEN Number(1) ELSE Flag(1), Failed),
     Damaged(d.name, Text, Parsed([Unusual EXCEPT ![d.name] = Legacy[d.name]])),
     Damaged("version", Number(2), Failed)}
    \cup IF d.kind = "menu" THEN {Damaged(d.name, Number(6), Failed)}
         ELSE IF IsFlag(d) \/ d.id = 36 THEN {}
         ELSE {Damaged(d.name, Number(d.hi + 1), Parsed([Unusual EXCEPT ![d.name] = d.hi]))}

\* A preset of ntscQT with everything on.
QtLook == [Default EXCEPT
    !.use_field = 1, !.filter_type = 0, !.input_luma_filter = 1, !.chroma_lowpass_in = 2,
    !.composite_preemphasis = 1500000, !.video_scanline_phase_shift = 3,
    !.video_scanline_phase_shift_offset = 1, !.chroma_demodulation = 0, !.luma_smear = 0,
    !.head_switching_height = 6, !.head_switching_offset = 0,
    !.head_switching_horizontal_shift = 6000000, !.head_switching_start_mid_line = 0,
    !.tracking_noise = 0, !.composite_noise_intensity = 40000, !.composite_noise_frequency = 100000,
    !.composite_noise_detail = 3, !.ringing_frequency = 700000, !.ringing_power = 6000000,
    !.ringing_scale = 400000, !.luma_noise = 0, !.chroma_noise_frequency = 200000,
    !.chroma_noise_intensity = 100000, !.chroma_noise_detail = 1, !.snow_intensity = 0,
    !.chroma_phase_noise_intensity = 25000, !.chroma_delay_horizontal = 3000000,
    !.chroma_delay_vertical = 2, !.vhs_tape_speed = 3, !.vhs_chroma_loss = 400,
    !.vhs_sharpen = 1500000, !.vhs_edge_wave = 1000000, !.vhs_edge_wave_speed = 10000000,
    !.vhs_edge_wave_frequency = 125000, !.vhs_edge_wave_detail = 3, !.chroma_lowpass_out = 1,
    !.scale_settings = 0]
QtKeys == [k \in QtFlags |-> Flag(1)] @@ [k \in QtNumbers \cup QtRinging(TRUE) |-> Number(
    CASE k = "_composite_preemphasis" -> 1500000 [] k = "_video_scanline_phase_shift" -> 270
      [] k = "_video_scanline_phase_shift_offset" -> 1 [] k = "_video_noise" -> 2000
      [] k = "_video_chroma_noise" -> 4096 [] k = "_video_chroma_phase_noise" -> 5
      [] k = "_color_bleed_horiz" -> 3000000 [] k = "_color_bleed_vert" -> 2
      [] k = "_output_vhs_tape_speed" -> 2 [] k = "_video_chroma_loss" -> 40
      [] k = "_vhs_out_sharpen" -> 1500000 [] k = "_vhs_edge_wave" -> 2000000
      [] k = "_ringing_power" -> 4000000 [] k = "_ringing_shift" -> 600000)]
Qt == Preset(Json(QtKeys), Parsed(QtLook))

Session(hosts, focus, file, project, number) ==
    [hosts |-> hosts, focus |-> focus, file |-> file, project |-> project, acts |-> number,
     use_field |-> 4, picture |-> NoPicture]

PresetSessions ==
    {Session(hs, n, NoFile, NoProject, 3) :
        hs \in {<<"gui", "ofx">>, <<"ofx", "ae">>, <<"ae", "gui">>}, n \in Names}
    \cup UNION {{Session(<<"ae">>, n, f, 32, 1) : f \in DamagedFiles(Named[n])} : n \in Names}
    \cup {Session(<<h>>, "use_field", f, NoProject, 2) :
             h \in {"gui", "ofx", "ae"}, f \in {OldRelease(32), OldRelease(52), Qt}}

-----------------------------------------------------------------------------
Layer(row, column, height, width) == [row |-> row, column |-> column, height |-> height, width |-> width]
Progressive == [interlaced |-> FALSE]
Interlaced == {[interlaced |-> TRUE, tff |-> t, onefield |-> o] : t, o \in BOOLEAN}

Full(h, pad, src_flip, dst_flip) ==
    [w |-> 2, h |-> h, pad |-> pad, layer |-> Layer(0, 0, h, 2), rect |-> Rect(0, 0, h, 2),
     src_flip |-> src_flip, dst_flip |-> dst_flip, scan |-> Progressive]

Render(h, picture, use_field, number) ==
    [Session(<<h>>, "use_field", NoFile, NoProject, number) EXCEPT !.picture = picture, !.use_field = use_field]

Split == [Full(4, 0, FALSE, FALSE) EXCEPT !.rect = Rect(1, 1, 4, 2)]
Tall == [Full(9, 0, FALSE, FALSE) EXCEPT !.w = 1, !.layer.width = 1, !.rect.right = 1]

\* Layers above, below and taller than the frame, on odd and even rows.
Layers == {Layer(1, 1, 3, 1), Layer(2, 0, 4, 2), Layer(0, 0, 6, 3), Layer(3, 0, 2, 2)}

RenderSessions ==
    {Render("gui", Full(h, 0, FALSE, FALSE), u, 0) : h \in {1, 2, 5}, u \in 0..5}
    \cup {Render("gui", Split, u, 0) : u \in 0..5}
    \cup {Render("gui", [Full(h, 0, FALSE, FALSE) EXCEPT !.scan = i], 3, 0) : h \in {3, 4}, i \in Interlaced}
    \cup {Render("gui", Tall, 3, 0)}
    \cup {Render("ofx", Full(h, 1, TRUE, TRUE), u, 0) : h \in {3, 4}, u \in 0..5}
    \cup {Render("ae", [Full(5, 1, flip, ~flip) EXCEPT !.layer = l], u, 0) :
             l \in Layers, flip \in BOOLEAN, u \in 0..5}
    \cup {Render("gui", Full(2, 0, FALSE, FALSE), 4, 1), Render("ofx", Full(2, 0, TRUE, TRUE), 4, 1)}

MCSessions == PresetSessions \cup RenderSessions
=============================================================================
