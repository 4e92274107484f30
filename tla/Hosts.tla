-------------------------------- MODULE Hosts -------------------------------
(* The effect's settings in its three hosts, and the presets that go from    *)
(* one to another. The application (gui/src/app/main.rs) keeps the settings  *)
(* themselves. A plugin's settings are parameters of its host: OpenFX hosts  *)
(* keep them by name (openfx-plugin/src/lib.rs), After Effects by number, on *)
(* the scales of its sliders (ae-plugin/src/lib.rs).                         *)
EXTENDS Settings

CONSTANT Sessions       \* what the users of a behaviour are about, see HostsInit

VARIABLES session,
          params,       \* of each of the session's hosts
          disabled,     \* the controls each of them shows disabled
          stale,        \* the hosts that have not told the effect of a change yet
          disk,         \* the preset file: its contents, and the settings it stands for
          saving,       \* the settings the application writes when a place is chosen for them
          intended,     \* the settings the users mean each host to have
          acts

hostVars == <<session, params, disabled, stale, disk, saving, intended, acts>>

HostsOf(s) == Range(s.hosts)
Preset(json, look) == [json |-> json, look |-> look]

-----------------------------------------------------------------------------
(* Parameters of an OpenFX host: a menu's is the position of its option      *)

Position(d, v) == CHOOSE i \in DOMAIN d.options : d.options[i] = v

OfxParam(d, v) == IF d.kind = "menu" THEN Position(d, v) - 1 ELSE v

\* Mutant of OfxValue: the option's number is the position.
OfxPosition(d, p) == p

OfxValue(d, p) == IF d.kind = "menu" THEN d.options[p + 1] ELSE p

-----------------------------------------------------------------------------
(* Parameters of After Effects: menus count from one, sliders have a scale   *)

AeId(d) == d.id + 1
ByAeId == [id \in {AeId(d) : d \in AllDescriptors} |-> CHOOSE d \in AllDescriptors : AeId(d) = id]

\* What was done to a number before it went on a slider: put on a logarithmic
\* curve, and multiplied by 100. A slider of whole numbers may stand half way.
LogScale(d) == IF d.log THEN {"log"} ELSE {}
PercentScale(d) == IF d.kind = "percent" THEN {"percent"} ELSE {}
Slider(scale, n, half) == [scale |-> scale, n |-> n, half |-> half]

AeParam(d, v) ==
    IF d.kind = "menu" THEN Slider({}, Position(d, v), FALSE)
    ELSE Slider(LogScale(d) \cup PercentScale(d), v, FALSE)

\* What the effect reads off a slider that it takes for another one.
Distorted == -2147483647

\* A number half way is rounded away from zero.
Rounded(p) == IF p.half /\ p.n >= 0 THEN p.n + 1 ELSE p.n

AeValue(d, p) ==
    IF d.kind = "menu" THEN d.options[p.n]
    ELSE IF p.scale = LogScale(d) \cup PercentScale(d) THEN Rounded(p) ELSE Distorted

-----------------------------------------------------------------------------
\* The settings a host renders with.
SettingsOf(h) ==
    [n \in Names |->
        LET d == Named[n]
        IN CASE h = "gui" -> params[h][n]
             [] h = "ofx" -> OfxValue(d, params[h][n])
             [] h = "ae" -> AeValue(d, params[h][AeId(d)])]

\* A host's parameters for these settings.
Params(h, settings) ==
    CASE h = "gui" -> settings
      [] h = "ofx" -> [n \in Names |-> OfxParam(Named[n], settings[n])]
      [] h = "ae" -> [id \in DOMAIN ByAeId |-> AeParam(ByAeId[id], settings[ByAeId[id].name])]

\* The effect the settings make, which has no settings of a group switched off.
Effective(settings) ==
    LET InEffect(n) == \A g \in Enclosing[n] : settings[g] = 1
    IN Restrict(settings, {n \in Names : InEffect(n)})

\* Mutant of Disabled: a group inside a group switched off enables its settings.
DisabledByOwnGroup(settings) == {n \in Names : Named[n].group # "" /\ settings[Named[n].group] = 0}

\* The controls that update_controls_disabled disables: all those inside a
\* group that is switched off or is disabled itself.
Disabled(settings) ==
    LET Off == {n \in Names : Named[n].kind = "group" /\ settings[n] = 0}
        Inside(groups) == {n \in Names : Named[n].group \in groups}
    IN Inside(Off) \cup Inside(Inside(Off))

-----------------------------------------------------------------------------
\* A session has hosts, a setting that the first one's user changes, with the
\* groups it is in, a number of things to do, and what it starts from: a preset
\* file, the field to use, and for After Effects a project of a release that
\* knew the settings below a number. The controls have been shown once.
Opened(h, s) ==
    [n \in Names |->
        IF n = "use_field" THEN s.use_field
        ELSE IF h = "ae" /\ Named[n].id >= s.project THEN Legacy[n]
        ELSE Default[n]]

\* Numbers are whole, a preset's flags are 0 or 1. The presets of ntscQT that
\* sessions are about have numbers in their ranges: those are taken as they are.
JsonValue(v) == v.n \in Int /\ (v.type = "bool" => v.n \in {0, 1})

ASSUME SessionsAssumption ==
    \A s \in Sessions :
        /\ s.hosts \in Seq({"gui", "ofx", "ae"}) \ {<<>>}
        /\ s.focus \in Names /\ s.use_field \in 0..5
        /\ s.file.json.json =>
              \A k \in DOMAIN s.file.json.keys : JsonValue(s.file.json.keys[k])
        /\ OfQt(s.file.json) =>
              LET read == FromJson(s.file.json) IN read.ok => InRange(read.settings)

HostsInit ==
    /\ session \in Sessions
    /\ params = [h \in HostsOf(session) |-> Params(h, Opened(h, session))]
    /\ intended = [h \in HostsOf(session) |-> Opened(h, session)]
    /\ disabled = [h \in HostsOf(session) |-> Disabled(Opened(h, session))]
    /\ stale = {}
    /\ disk = session.file
    /\ saving = Failed
    /\ acts = session.acts

Act ==
    /\ acts > 0
    /\ acts' = acts - 1
    /\ UNCHANGED session

Focus == {session.focus} \cup Enclosing[session.focus]

ValuesOf(d) ==
    CASE d.kind = "menu" -> OptionValues(d)
      [] d.kind \in {"bool", "group"} -> {0, 1}
      [] OTHER -> {d.lo, d.hi, (d.lo + d.hi) \div 2}

\* How a host's control can be left.
Controls(h, d) ==
    CASE h = "gui" -> ValuesOf(d)
      [] h = "ofx" -> {OfxParam(d, v) : v \in ValuesOf(d)}
      [] h = "ae" -> {AeParam(d, v) : v \in ValuesOf(d)} \cup
                     (IF d.kind = "int" THEN {Slider({}, v, TRUE) : v \in ValuesOf(d) \ {d.hi}} ELSE {})

\* A user changes a control.
Change(h, n, p) ==
    /\ Act
    /\ n \notin disabled[h]
    /\ LET d == Named[n]
           value == CASE h = "gui" -> p [] h = "ofx" -> OfxValue(d, p) [] h = "ae" -> AeValue(d, p)
       IN /\ params' = [params EXCEPT ![h][IF h = "ae" THEN AeId(d) ELSE n] = p]
          /\ intended' = [intended EXCEPT ![h][n] = value]
    /\ stale' = stale \cup {h}
    /\ UNCHANGED <<disabled, disk, saving>>

\* The host tells the effect, which updates the controls; the application does
\* so in its next frame.
Notified(h) ==
    /\ h \in stale
    /\ disabled' = [disabled EXCEPT ![h] = Disabled(SettingsOf(h))]
    /\ stale' = stale \ {h}
    /\ UNCHANGED <<session, params, disk, saving, intended, acts>>

\* The plugins' file dialogs block their host, which has no other step meanwhile.
Save(h) ==
    /\ h # "gui" /\ Act
    /\ disk' = Preset(ToJson(SettingsOf(h)), Parsed(intended[h]))
    /\ UNCHANGED <<params, disabled, stale, saving, intended>>

\* The application keeps the settings of the click while its dialog is open.
SaveTo ==
    /\ "gui" \in HostsOf(session) /\ ~saving.ok /\ Act
    /\ saving' = Parsed(SettingsOf("gui"))
    /\ UNCHANGED <<params, disabled, stale, disk, intended>>

SaveChosen ==
    /\ saving.ok
    /\ disk' = Preset(ToJson(saving.settings), saving)
    /\ saving' = Failed
    /\ UNCHANGED <<session, params, disabled, stale, intended, acts>>

\* A preset that cannot be read leaves the settings as they are.
Load(h) ==
    /\ Act
    /\ LET loaded == FromJson(disk.json)
       IN params' = IF loaded.ok THEN [params EXCEPT ![h] = Params(h, loaded.settings)] ELSE params
    /\ intended' = IF disk.look.ok THEN [intended EXCEPT ![h] = disk.look.settings] ELSE intended
    /\ stale' = stale \cup {h}
    /\ UNCHANGED <<disabled, disk, saving>>

HostsNext ==
    \/ \E n \in Focus : \E p \in Controls(Head(session.hosts), Named[n]) :
          Change(Head(session.hosts), n, p)
    \/ \E h \in HostsOf(session) : Notified(h) \/ Save(h) \/ Load(h)
    \/ SaveTo
    \/ SaveChosen

-----------------------------------------------------------------------------
\* A host renders with the settings its user means it to have: those of the
\* preset loaded last, which may come from another host or an older release,
\* with the controls changed since. The parameters go through the list of
\* options, the sliders' scales, the names and numbers of the settings, and
\* the ranges; a preset that cannot be read changes nothing.
LooksKept == \A h \in HostsOf(session) : SettingsOf(h) = intended[h]

\* Once the effect was told of a change, a control is disabled exactly if what
\* it sets has no part in the effect that is rendered (SettingsBlock to Option,
\* on the one hand, update_controls_disabled on the other).
ControlsFollowGroups ==
    \A h \in HostsOf(session) \ stale :
        Names \ disabled[h] = DOMAIN Effective(SettingsOf(h))
=============================================================================
