------------------------------ MODULE Settings ------------------------------
(* The settings of the effect (ntscrs/src/settings): the list that the hosts *)
(* make their controls from, the defaults, and the preset files. A setting's *)
(* value is an integer: an option's number, a whole number, 0 or 1, or the   *)
(* millionths of a percentage or of a float.                                 *)
EXTENDS Integers, Sequences, SequencesExt, Functions

Descriptor(id, name, group, kind, lo, hi, log, options) ==
    [id |-> id, name |-> name, group |-> group, kind |-> kind, lo |-> lo, hi |-> hi,
     log |-> log, options |-> options]

\* group: the setting of the enclosing group, or "". Options in the menu's order.
Menu(id, name, group, options) == Descriptor(id, name, group, "menu", 0, 0, FALSE, options)
Percentage(id, name, group, log) == Descriptor(id, name, group, "percent", 0, 1000000, log, <<>>)
IntRange(id, name, group, lo, hi) == Descriptor(id, name, group, "int", lo, hi, FALSE, <<>>)
FloatRange(id, name, group, lo, hi, log) == Descriptor(id, name, group, "float", lo, hi, log, <<>>)
Check(id, name, group) == Descriptor(id, name, group, "bool", 0, 1, FALSE, <<>>)
Group(id, name, group) == Descriptor(id, name, group, "group", 0, 1, FALSE, <<>>)

-----------------------------------------------------------------------------
(* The list, depth first: a group comes before its settings                  *)

SignalIn == <<
    IntRange(36, "random_seed", "", -2147483647 - 1, 2147483647),
    Menu(30, "use_field", "", <<0, 1, 2, 4, 5, 3>>),
    Menu(46, "filter_type", "", <<0, 1>>),
    Menu(38, "input_luma_filter", "", <<2, 1, 0>>),
    Menu(0, "chroma_lowpass_in", "", <<2, 1, 0>>),
    FloatRange(1, "composite_preemphasis", "", -1000000, 2000000, FALSE) >>

Composite == <<
    Group(52, "composite_noise", ""),
    Percentage(4, "composite_noise_intensity", "composite_noise", TRUE),
    FloatRange(53, "composite_noise_frequency", "composite_noise", 0, 1000000, FALSE),
    IntRange(54, "composite_noise_detail", "composite_noise", 1, 5),
    FloatRange(6, "snow_intensity", "", 0, 100000000, TRUE),
    Percentage(34, "snow_anisotropy", "", FALSE),
    Menu(2, "video_scanline_phase_shift", "", <<0, 1, 2, 3>>),
    IntRange(3, "video_scanline_phase_shift_offset", "", 0, 3),
    Menu(33, "chroma_demodulation", "", <<0, 1, 2, 3>>),
    FloatRange(45, "luma_smear", "", 0, 1000000, FALSE) >>

HeadSwitching == <<
    Group(11, "head_switching", ""),
    IntRange(12, "head_switching_height", "head_switching", 0, 24),
    IntRange(13, "head_switching_offset", "head_switching", 0, 24),
    FloatRange(14, "head_switching_horizontal_shift", "head_switching", -100000000, 100000000, FALSE),
    Group(49, "head_switching_start_mid_line", "head_switching"),
    Percentage(50, "head_switching_mid_line_position", "head_switching_start_mid_line", FALSE),
    Percentage(51, "head_switching_mid_line_jitter", "head_switching_start_mid_line", TRUE) >>

TrackingNoise == <<
    Group(15, "tracking_noise", ""),
    IntRange(16, "tracking_noise_height", "tracking_noise", 0, 120),
    FloatRange(17, "tracking_noise_wave_intensity", "tracking_noise", -50000000, 50000000, FALSE),
    FloatRange(18, "tracking_noise_snow_intensity", "tracking_noise", 0, 1000000, TRUE),
    Percentage(35, "tracking_noise_snow_anisotropy", "tracking_noise", FALSE),
    Percentage(31, "tracking_noise_noise_intensity", "tracking_noise", TRUE) >>

RingingAndNoise == <<
    Group(19, "ringing", ""),
    Percentage(20, "ringing_frequency", "ringing", FALSE),
    FloatRange(21, "ringing_power", "ringing", 1000000, 10000000, FALSE),
    FloatRange(22, "ringing_scale", "ringing", 0, 10000000, FALSE),
    Group(55, "luma_noise", ""),
    Percentage(57, "luma_noise_intensity", "luma_noise", TRUE),
    FloatRange(56, "luma_noise_frequency", "luma_noise", 0, 1000000, FALSE),
    IntRange(58, "luma_noise_detail", "luma_noise", 1, 5),
    Group(42, "chroma_noise", ""),
    Percentage(5, "chroma_noise_intensity", "chroma_noise", TRUE),
    FloatRange(43, "chroma_noise_frequency", "chroma_noise", 0, 500000, FALSE),
    IntRange(44, "chroma_noise_detail", "chroma_noise", 1, 5),
    Percentage(37, "chroma_phase_error", "", FALSE),
    Percentage(7, "chroma_phase_noise_intensity", "", TRUE),
    FloatRange(8, "chroma_delay_horizontal", "", -40000000, 40000000, FALSE),
    IntRange(9, "chroma_delay_vertical", "", -20, 20) >>

Vhs == <<
    Group(23, "vhs_settings", ""),
    Menu(24, "vhs_tape_speed", "vhs_settings", <<1, 2, 3, 0>>),
    Percentage(26, "vhs_chroma_loss", "vhs_settings", TRUE),
    Group(47, "vhs_sharpen_enabled", "vhs_settings"),
    FloatRange(27, "vhs_sharpen", "vhs_sharpen_enabled", 0, 5000000, FALSE),
    FloatRange(48, "vhs_sharpen_frequency", "vhs_sharpen_enabled", 500000, 4000000, FALSE),
    Group(39, "vhs_edge_wave_enabled", "vhs_settings"),
    FloatRange(28, "vhs_edge_wave", "vhs_edge_wave_enabled", 0, 20000000, FALSE),
    FloatRange(29, "vhs_edge_wave_speed", "vhs_edge_wave_enabled", 0, 10000000, FALSE),
    FloatRange(40, "vhs_edge_wave_frequency", "vhs_edge_wave_enabled", 0, 500000, FALSE),
    IntRange(41, "vhs_edge_wave_detail", "vhs_edge_wave_enabled", 1, 5) >>

SignalOut == <<
    Check(25, "vhs_chroma_vert_blend", ""),
    Menu(10, "chroma_lowpass_out", "", <<2, 1, 0>>),
    Group(61, "scale_settings", ""),
    FloatRange(32, "bandwidth_scale", "scale_settings", 125000, 8000000, FALSE),
    FloatRange(59, "vertical_scale", "scale_settings", 125000, 8800000, FALSE),
    Check(60, "scale_with_video_size", "scale_settings") >>

Descriptors ==
    SignalIn \o Composite \o HeadSwitching \o TrackingNoise \o RingingAndNoise \o Vhs \o SignalOut

AllDescriptors == Range(Descriptors)
Names == {d.name : d \in AllDescriptors}
Named == [n \in Names |-> CHOOSE d \in AllDescriptors : d.name = n]

\* The groups that enclose a setting, at most two deep.
Enclosing == [n \in Names |->
    LET Of(m) == IF m = "" THEN {} ELSE {Named[m].group} \ {""}
    IN Of(n) \cup UNION {Of(m) : m \in Of(n)}]

OptionValues(d) == Range(d.options)
Within(d, v) == IF d.kind = "menu" THEN v \in OptionValues(d) ELSE v \in d.lo..d.hi
Clamp(d, v) == IF v < d.lo THEN d.lo ELSE IF v > d.hi THEN d.hi ELSE v

-----------------------------------------------------------------------------
(* Values of all settings                                                    *)

\* A value of its control for every setting.
InRange(settings) ==
    /\ settings = [n \in Names |-> settings[n]]
    /\ \A n \in Names : Within(Named[n], settings[n])

Default == [
    random_seed |-> 0, use_field |-> 4, filter_type |-> 1, input_luma_filter |-> 2,
    chroma_lowpass_in |-> 2, composite_preemphasis |-> 1000000,
    composite_noise |-> 1, composite_noise_intensity |-> 50000,
    composite_noise_frequency |-> 500000, composite_noise_detail |-> 1,
    snow_intensity |-> 250, snow_anisotropy |-> 500000,
    video_scanline_phase_shift |-> 2, video_scanline_phase_shift_offset |-> 0,
    chroma_demodulation |-> 1, luma_smear |-> 500000,
    head_switching |-> 1, head_switching_height |-> 8, head_switching_offset |-> 3,
    head_switching_horizontal_shift |-> 72000000, head_switching_start_mid_line |-> 1,
    head_switching_mid_line_position |-> 950000, head_switching_mid_line_jitter |-> 30000,
    tracking_noise |-> 1, tracking_noise_height |-> 12, tracking_noise_wave_intensity |-> 15000000,
    tracking_noise_snow_intensity |-> 25000, tracking_noise_snow_anisotropy |-> 250000,
    tracking_noise_noise_intensity |-> 250000,
    ringing |-> 1, ringing_frequency |-> 450000, ringing_power |-> 4000000, ringing_scale |-> 4000000,
    luma_noise |-> 1, luma_noise_intensity |-> 10000, luma_noise_frequency |-> 500000,
    luma_noise_detail |-> 1,
    chroma_noise |-> 1, chroma_noise_intensity |-> 100000, chroma_noise_frequency |-> 50000,
    chroma_noise_detail |-> 2,
    chroma_phase_error |-> 0, chroma_phase_noise_intensity |-> 1000,
    chroma_delay_horizontal |-> 0, chroma_delay_vertical |-> 0,
    vhs_settings |-> 1, vhs_tape_speed |-> 2, vhs_chroma_loss |-> 25,
    vhs_sharpen_enabled |-> 1, vhs_sharpen |-> 250000, vhs_sharpen_frequency |-> 1000000,
    vhs_edge_wave_enabled |-> 1, vhs_edge_wave |-> 500000, vhs_edge_wave_speed |-> 4000000,
    vhs_edge_wave_frequency |-> 50000, vhs_edge_wave_detail |-> 2,
    vhs_chroma_vert_blend |-> 1, chroma_lowpass_out |-> 2,
    scale_settings |-> 1, bandwidth_scale |-> 1000000, vertical_scale |-> 1000000,
    scale_with_video_size |-> 0 ]

\* What a setting that an old preset does not know is left at.
Legacy == [Default EXCEPT
    !.filter_type = 0, !.luma_smear = 0, !.head_switching_start_mid_line = 0,
    !.composite_noise_frequency = 250000, !.luma_noise = 0, !.chroma_noise_detail = 1,
    !.vhs_edge_wave_detail = 1]

\* What the list and the tables above are written to satisfy: a setting has its
\* own name and number; it has a range or options, which its values lie in; a
\* group is one of the settings, in at most one group itself; no setting is
\* named like a key that tells the formats of presets apart.
IsGroup(n) == n \in Names /\ Named[n].kind = "group"

ASSUME DescriptorsAssumption ==
    /\ \A d, e \in AllDescriptors : (d.name = e.name \/ d.id = e.id) => d = e
    /\ \A d \in AllDescriptors :
          /\ d.id \in Nat /\ d.lo \in Int /\ d.hi \in Int /\ d.lo <= d.hi
          /\ d.kind \in {"bool", "group"} => d.lo = 0 /\ d.hi = 1
          /\ d.kind = "int" => ~d.log
          /\ d.kind = "menu" => DOMAIN d.options = 1..Len(d.options) /\ OptionValues(d) \subseteq Nat
          /\ Within(d, Default[d.name]) /\ Within(d, Legacy[d.name])
          /\ d.group = "" \/ IsGroup(d.group)
    /\ \A n \in Names : IsGroup(n) => \/ Named[n].group = ""
                                     \/ Named[Named[n].group].group = ""
    /\ {"", "version", "_composite_preemphasis"} \cap Names = {}
    /\ "use_field" \in Names /\ Named["use_field"].kind = "menu"
    /\ OptionValues(Named["use_field"]) = 0..5

-----------------------------------------------------------------------------
(* Preset files: Broken, or the keys of an object with their values. The     *)
(* number of a key of a float is in millionths; text is what no setting has. *)

Number(n) == [type |-> "number", n |-> n]
Flag(n) == [type |-> "bool", n |-> n]
Text == [type |-> "text", n |-> 0]
Broken == [json |-> FALSE]
Json(keys) == [json |-> TRUE, keys |-> keys]

IsFlag(d) == d.kind \in {"bool", "group"}
JsonType(d) == IF IsFlag(d) THEN "bool" ELSE "number"

ToJson(settings) ==
    LET Value(k) == IF k = "version" THEN Number(1)
                    ELSE [type |-> JsonType(Named[k]), n |-> settings[k]]
    IN Json([k \in Names \cup {"version"} |-> Value(k)])

Failed == [ok |-> FALSE]
Parsed(settings) == [ok |-> TRUE, settings |-> settings]

\* Keys whose value is text, a list, an object or null are as good as missing.
Known(keys) == Restrict(keys, {k \in DOMAIN keys : keys[k].type # "text"})

\* Whether each key has a value of its type, if it has one.
Typed(keys, type) == \A k \in DOMAIN keys \cap DOMAIN type : keys[k].type = type[k]

TypeOf == [n \in Names |-> JsonType(Named[n])]

\* A number out of its range is clamped, an option that does not exist is an error.
OptionsExist(keys) ==
    \A n \in DOMAIN keys \cap Names :
        Named[n].kind = "menu" => keys[n].n \in OptionValues(Named[n])

\* Mutant of ReadSetting: the number is taken as it is.
ReadUnclamped(keys, n) == keys[n].n

ReadSetting(keys, n) ==
    LET d == Named[n] IN IF d.kind = "menu" \/ IsFlag(d) THEN keys[n].n ELSE Clamp(d, keys[n].n)

ReadVersion1(keys) ==
    IF ~Typed(keys, TypeOf) \/ ~OptionsExist(keys) THEN Failed
    ELSE Parsed([n \in Names |-> IF n \in DOMAIN keys THEN ReadSetting(keys, n) ELSE Legacy[n]])

\* Presets of ntscQT. A number out of its range is kept as it is.
QtFlags == {"_composite_in_chroma_lowpass", "_vhs_head_switching", "_enable_ringing2", "_emulating_vhs",
            "_vhs_chroma_vert_blend", "_composite_out_chroma_lowpass", "_composite_out_chroma_lowpass_lite"}
QtNumbers == {"_composite_preemphasis", "_video_scanline_phase_shift", "_video_scanline_phase_shift_offset",
              "_video_noise", "_video_chroma_noise", "_video_chroma_phase_noise", "_color_bleed_horiz",
              "_color_bleed_vert", "_output_vhs_tape_speed", "_video_chroma_loss", "_vhs_out_sharpen",
              "_vhs_edge_wave"}
QtRinging(second) == IF second THEN {"_ringing_power", "_ringing_shift"} ELSE {"_ringing"}

Share(n) == IF n < 0 THEN 0 ELSE IF n > 1000000 THEN 1000000 ELSE n

QtSettings(Is(_), N(_)) ==
    LET Lowpass(full, light) == IF ~full THEN 0 ELSE IF light THEN 1 ELSE 2
        One(b) == IF b THEN 1 ELSE 0
        second == Is("_enable_ringing2")
        speed == N("_output_vhs_tape_speed")
    IN [Default EXCEPT
        !.use_field = 1, !.filter_type = 0, !.input_luma_filter = 1,
        !.chroma_lowpass_in = Lowpass(Is("_composite_in_chroma_lowpass"), FALSE),
        !.chroma_demodulation = 0, !.luma_smear = 0,
        !.composite_preemphasis = N("_composite_preemphasis"),
        !.video_scanline_phase_shift =
            LET degrees == N("_video_scanline_phase_shift")
            IN IF degrees \in {90, 180, 270} THEN degrees \div 90 ELSE 0,
        !.video_scanline_phase_shift_offset = N("_video_scanline_phase_shift_offset"),
        !.head_switching = One(Is("_vhs_head_switching")), !.head_switching_height = 6,
        !.head_switching_offset = 0, !.head_switching_horizontal_shift = 6000000,
        !.head_switching_start_mid_line = 0,
        !.tracking_noise = 0,
        !.composite_noise_frequency = 100000, !.composite_noise_intensity = 20 * N("_video_noise"),
        !.composite_noise_detail = 3,
        !.ringing_frequency = IF second THEN Share((3 * N("_ringing_shift")) \div 4 + 250000)
                                        ELSE N("_ringing") \div 3,
        !.ringing_power = IF second THEN 6000000 ELSE 5000000,
        !.ringing_scale = IF second THEN N("_ringing_power") \div 10 ELSE 2000000,
        !.luma_noise = 0,
        !.chroma_noise_frequency = 200000, !.chroma_noise_detail = 1,
        !.chroma_noise_intensity = (N("_video_chroma_noise") * 3125) \div 128,
        !.snow_intensity = 0,
        !.chroma_phase_noise_intensity = 5000 * N("_video_chroma_phase_noise"),
        !.chroma_delay_horizontal = N("_color_bleed_horiz"),
        !.chroma_delay_vertical = N("_color_bleed_vert"),
        !.vhs_settings = One(Is("_emulating_vhs")),
        !.vhs_tape_speed = IF speed \in {1, 2} THEN speed + 1 ELSE 1,
        !.vhs_chroma_loss = 10 * N("_video_chroma_loss"),
        !.vhs_sharpen = N("_vhs_out_sharpen"),
        !.vhs_edge_wave = N("_vhs_edge_wave") \div 2, !.vhs_edge_wave_speed = 10000000,
        !.vhs_edge_wave_frequency = 125000, !.vhs_edge_wave_detail = 3,
        !.vhs_chroma_vert_blend = One(Is("_vhs_chroma_vert_blend")),
        !.chroma_lowpass_out = Lowpass(Is("_composite_out_chroma_lowpass"),
                                       Is("_composite_out_chroma_lowpass_lite")),
        !.scale_settings = 0]

FromNtscQt(keys) ==
    LET Is(k) == k \in DOMAIN keys /\ keys[k].n = 1
        N(k) == IF k \in DOMAIN keys THEN keys[k].n ELSE 0
        numbers == QtNumbers \cup QtRinging(Is("_enable_ringing2"))
    IN IF Typed(keys, [k \in QtFlags |-> "bool"] @@ [k \in numbers |-> "number"])
       THEN Parsed(QtSettings(Is, N)) ELSE Failed

\* What tells ntscQT's files apart.
OfQt(file) == file.json /\ "_composite_preemphasis" \in DOMAIN Known(file.keys)

FromJson(file) ==
    IF ~file.json THEN Failed
    ELSE LET keys == Known(file.keys)
         IN IF "_composite_preemphasis" \in DOMAIN keys THEN FromNtscQt(keys)
            ELSE IF "version" \in DOMAIN keys /\ keys["version"] = Number(1) THEN ReadVersion1(keys)
            ELSE Failed
=============================================================================
