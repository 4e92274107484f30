---------------------------- MODULE PluginsProofs ---------------------------
(* Proofs about the effect in its hosts. First, settings are kept through    *)
(* parameters, controls and presets, and controls show what has an effect.   *)
(* Then, a rendered frame is what it is to look like: which rows of the      *)
(* picture the views hold, which samples are read for them, what each chunk  *)
(* of each pass does to a sample or a pixel, and what all passes do.         *)
EXTENDS Plugins, RowLoopProofs, SequenceTheorems

-----------------------------------------------------------------------------
(* The list of settings                                                      *)

\* A setting is known by its name.
LEMMA NamedIs ==
  ASSUME NEW n \in Names
  PROVE  Named[n] \in AllDescriptors /\ Named[n].name = n
  <1>1. \E d \in AllDescriptors : d.name = n  BY DEF Names
  <1>2. Named[n] = CHOOSE d \in AllDescriptors : d.name = n  BY DEF Named
  <1> QED  BY <1>1, <1>2

\* A descriptor is the one of its own name.
LEMMA NamedOf ==
  ASSUME NEW d \in AllDescriptors
  PROVE  d.name \in Names /\ Named[d.name] = d
  <1>1. d.name \in Names  BY DEF Names
  <1> QED  BY <1>1, NamedIs, DescriptorsAssumption

\* What is known of a setting's descriptor.
LEMMA Described ==
  ASSUME NEW n \in Names
  PROVE  LET d == Named[n]
         IN /\ d.id \in Nat /\ d.lo \in Int /\ d.hi \in Int /\ d.lo <= d.hi
            /\ d.kind \in {"bool", "group"} => d.lo = 0 /\ d.hi = 1
            /\ d.kind = "int" => ~d.log
            /\ d.kind = "menu" => DOMAIN d.options = 1..Len(d.options) /\ OptionValues(d) \subseteq Nat
            /\ Within(d, Default[n]) /\ Within(d, Legacy[n])
            /\ d.group = "" \/ IsGroup(d.group)
  <1>1. Named[n] \in AllDescriptors /\ Named[n].name = n  BY NamedIs
  <1> QED  BY <1>1, DescriptorsAssumption

\* A setting is known by its number in After Effects, too.
LEMMA ByAeIdIs ==
  ASSUME NEW n \in Names
  PROVE  AeId(Named[n]) \in DOMAIN ByAeId /\ ByAeId[AeId(Named[n])] = Named[n]
  <1> DEFINE d == Named[n]
             id == AeId(d)
  <1>1. d \in AllDescriptors  BY NamedIs
  <1>2. DOMAIN ByAeId = {AeId(e) : e \in AllDescriptors}
        /\ \A i \in DOMAIN ByAeId : ByAeId[i] = CHOOSE e \in AllDescriptors : AeId(e) = i
    BY DEF ByAeId
  <1>3. id \in DOMAIN ByAeId  BY <1>1, <1>2
  <1>4. ByAeId[id] \in AllDescriptors /\ AeId(ByAeId[id]) = id
    <2>1. \E e \in AllDescriptors : AeId(e) = id  BY <1>1
    <2>2. ByAeId[id] = CHOOSE e \in AllDescriptors : AeId(e) = id  BY <1>2, <1>3
    <2> QED  BY <2>1, <2>2
  <1>5. \A e \in AllDescriptors : e.id \in Nat  BY DescriptorsAssumption
  <1>6. ByAeId[id].id = d.id  BY <1>1, <1>4, <1>5 DEF AeId
  <1> QED  BY <1>1, <1>3, <1>4, <1>6, DescriptorsAssumption

\* Two settings have two numbers in After Effects.
LEMMA AeIdsApart ==
  ASSUME NEW n \in Names, NEW m \in Names, AeId(Named[n]) = AeId(Named[m])
  PROVE  n = m
  <1>1. Named[n] = Named[m]  BY ByAeIdIs
  <1> QED  BY <1>1, NamedIs

\* Every number of a parameter is that of a setting.
LEMMA AeIdOfSetting ==
  ASSUME NEW id \in DOMAIN ByAeId
  PROVE  \E n \in Names : id = AeId(Named[n])
  <1>1. PICK d \in AllDescriptors : id = AeId(d)  BY DEF ByAeId
  <1> QED  BY <1>1, NamedOf

-----------------------------------------------------------------------------
(* Parameters                                                                *)

HostKinds == {"gui", "ofx", "ae"}

\* What a host takes a parameter for, and all of them.
ValueOf(h, d, p) == CASE h = "gui" -> p [] h = "ofx" -> OfxValue(d, p) [] h = "ae" -> AeValue(d, p)
ParamOf(h, d, v) == CASE h = "gui" -> v [] h = "ofx" -> OfxParam(d, v) [] h = "ae" -> AeParam(d, v)
Key(h, n) == IF h = "ae" THEN AeId(Named[n]) ELSE n
Keys(h) == IF h = "ae" THEN DOMAIN ByAeId ELSE Names
Read(h, p) == [n \in Names |-> ValueOf(h, Named[n], p[Key(h, n)])]

\* The settings a host renders with are those read off its parameters.
LEMMA SettingsRead ==
  ASSUME NEW h \in HostKinds
  PROVE  SettingsOf(h) = Read(h, params[h])
  <1>1. CASE h = "gui"  BY <1>1 DEF SettingsOf, Read, ValueOf, Key
  <1>2. CASE h = "ofx"  BY <1>2 DEF SettingsOf, Read, ValueOf, Key
  <1>3. CASE h = "ae"  BY <1>3 DEF SettingsOf, Read, ValueOf, Key
  <1> QED  BY <1>1, <1>2, <1>3 DEF HostKinds

\* A menu's position and a slider's scale are undone when they are read.
LEMMA PositionIs ==
  ASSUME NEW d, d.kind = "menu", DOMAIN d.options = 1..Len(d.options),
         NEW v \in OptionValues(d)
  PROVE  Position(d, v) \in Int /\ d.options[Position(d, v)] = v
  <1>1. PICK i \in DOMAIN d.options : d.options[i] = v  BY DEF OptionValues, Range
  <1>2. Position(d, v) \in DOMAIN d.options /\ d.options[Position(d, v)] = v
    BY <1>1 DEF Position
  <1> QED  BY <1>2

\* What a slider is made of: one that stands at a whole number,
LEMMA WholeSlider ==
  ASSUME NEW scale, NEW n
  PROVE  /\ Slider(scale, n, FALSE).scale = scale /\ Slider(scale, n, FALSE).n = n
         /\ ~Slider(scale, n, FALSE).half
  BY Zenon DEF Slider

\* and one that stands half way.
LEMMA HalfSlider ==
  ASSUME NEW scale, NEW n
  PROVE  /\ Slider(scale, n, TRUE).scale = scale /\ Slider(scale, n, TRUE).n = n
         /\ Slider(scale, n, TRUE).half
  BY Zenon DEF Slider

\* A value in its range is read off the parameter it was written to, in each host.
LEMMA ParamReadsBack ==
  ASSUME NEW h \in HostKinds, NEW n \in Names, NEW v, Within(Named[n], v)
  PROVE  ValueOf(h, Named[n], ParamOf(h, Named[n], v)) = v
  <1> DEFINE d == Named[n]
  <1>1. d.kind = "menu" => DOMAIN d.options = 1..Len(d.options)  BY Described
  <1>2. d.kind = "menu" => v \in OptionValues(d)  BY DEF Within
  <1>3. d.kind = "menu" => Position(d, v) \in Int /\ d.options[Position(d, v)] = v
    BY <1>1, <1>2, PositionIs
  <1>4. CASE h = "gui"  BY <1>4 DEF ValueOf, ParamOf
  <1>5. CASE h = "ofx"
    <2>1. ValueOf(h, d, ParamOf(h, d, v)) = OfxValue(d, OfxParam(d, v))  BY <1>5 DEF ValueOf, ParamOf
    <2>2. CASE d.kind = "menu"
      <3> HIDE DEF d
      <3>1. OfxValue(d, OfxParam(d, v)) = d.options[Position(d, v) - 1 + 1]
        BY <2>2 DEF OfxValue, OfxParam
      <3>2. Position(d, v) - 1 + 1 = Position(d, v)  BY <1>3, <2>2
      <3> QED  BY <1>3, <2>1, <2>2, <3>1, <3>2 DEF d
    <2>3. CASE d.kind # "menu"  BY <2>1, <2>3 DEF OfxValue, OfxParam
    <2> QED  BY <2>2, <2>3
  <1>6. CASE h = "ae"
    <2>1. ValueOf(h, d, ParamOf(h, d, v)) = AeValue(d, AeParam(d, v))  BY <1>6 DEF ValueOf, ParamOf
    <2> HIDE DEF d
    <2>2. CASE d.kind = "menu"
      <3>1. Slider({}, Position(d, v), FALSE).n = Position(d, v)  BY Zenon, WholeSlider
      <3>2. AeParam(d, v) = Slider({}, Position(d, v), FALSE)  BY <2>2 DEF AeParam
      <3>3. AeValue(d, AeParam(d, v)) = d.options[Position(d, v)]
        BY <2>2, <3>1, <3>2 DEF AeValue
      <3> QED  BY <1>3, <2>1, <2>2, <3>3 DEF d
    <2>3. CASE d.kind # "menu"
      <3> DEFINE scale == LogScale(d) \cup PercentScale(d)
                 p == Slider(scale, v, FALSE)
      <3> HIDE DEF scale
      <3>1. p.scale = scale /\ p.n = v /\ ~p.half  BY Zenon, WholeSlider
      <3> HIDE DEF p
      <3>2. AeParam(d, v) = p  BY <2>3 DEF AeParam, p, scale
      <3>3. AeValue(d, p) = Rounded(p)  BY <2>3, <3>1 DEF AeValue, scale
      <3>4. Rounded(p) = v  BY <3>1 DEF Rounded
      <3> QED  BY <2>1, <3>2, <3>3, <3>4 DEF d
    <2> QED  BY <2>2, <2>3
  <1> QED  BY <1>4, <1>5, <1>6 DEF HostKinds

\* A host reads the settings it was given back from its parameters.
LEMMA ReadsBack ==
  ASSUME NEW h \in HostKinds, NEW s, InRange(s)
  PROVE  Read(h, Params(h, s)) = s
  <1>1. ASSUME NEW n \in Names  PROVE Params(h, s)[Key(h, n)] = ParamOf(h, Named[n], s[n])
    <2>1. CASE h = "gui"  BY <2>1, <1>1 DEF Params, Key, ParamOf
    <2>2. CASE h = "ofx"  BY <2>2, <1>1 DEF Params, Key, ParamOf
    <2>3. CASE h = "ae"
      <3>1. Params(h, s) = [id \in DOMAIN ByAeId |-> AeParam(ByAeId[id], s[ByAeId[id].name])]
        BY <2>3 DEF Params
      <3>2. Key(h, n) = AeId(Named[n]) /\ ParamOf(h, Named[n], s[n]) = AeParam(Named[n], s[n])
        BY <2>3 DEF Key, ParamOf
      <3> QED  BY <3>1, <3>2, <1>1, ByAeIdIs, NamedIs
    <2> QED  BY <2>1, <2>2, <2>3 DEF HostKinds
  <1>2. ASSUME NEW n \in Names  PROVE ValueOf(h, Named[n], Params(h, s)[Key(h, n)]) = s[n]
    <2>1. Within(Named[n], s[n])  BY <1>2 DEF InRange
    <2> QED  BY <2>1, <1>1, <1>2, ParamReadsBack
  <1>3. Read(h, Params(h, s)) = [n \in Names |-> s[n]]  BY <1>2 DEF Read
  <1> QED  BY <1>3 DEF InRange

\* Parameters are there for all settings.
HasKeys(h, p) == p = [k \in Keys(h) |-> p[k]]

\* Settings are written to parameters that are all there.
LEMMA ParamsHaveKeys ==
  ASSUME NEW h \in HostKinds, NEW s, InRange(s)
  PROVE  HasKeys(h, Params(h, s))
  <1>1. CASE h = "gui"  BY <1>1 DEF Params, HasKeys, Keys, InRange
  <1>2. CASE h = "ofx"  BY <1>2 DEF Params, HasKeys, Keys
  <1>3. CASE h = "ae"  BY <1>3 DEF Params, HasKeys, Keys
  <1> QED  BY <1>1, <1>2, <1>3 DEF HostKinds

\* A control sets its own parameter and no other one.
LEMMA ReadsChange ==
  ASSUME NEW h \in HostKinds, NEW p, HasKeys(h, p), NEW n \in Names, NEW q
  PROVE  /\ HasKeys(h, [p EXCEPT ![Key(h, n)] = q])
         /\ Read(h, [p EXCEPT ![Key(h, n)] = q]) = [Read(h, p) EXCEPT ![n] = ValueOf(h, Named[n], q)]
  <1> DEFINE changed == [p EXCEPT ![Key(h, n)] = q]
  <1>1. DOMAIN p = Keys(h)  BY DEF HasKeys
  <1>2. \A m \in Names : Key(h, m) \in Keys(h)  BY ByAeIdIs DEF Key, Keys
  <1>3. \A m \in Names : Key(h, m) = Key(h, n) => m = n  BY AeIdsApart DEF Key
  <1>4. \A m \in Names : changed[Key(h, m)] = IF m = n THEN q ELSE p[Key(h, m)]
    BY <1>1, <1>2, <1>3
  <1>5. HasKeys(h, changed)  BY <1>1 DEF HasKeys
  <1> HIDE DEF changed
  <1>6. Read(h, changed) = [Read(h, p) EXCEPT ![n] = ValueOf(h, Named[n], q)]
    BY <1>4 DEF Read
  <1> QED  BY <1>5, <1>6 DEF changed

-----------------------------------------------------------------------------
(* What a control can be left at                                             *)

\* The middle of a range lies in it.
LEMMA HalfWay ==
  ASSUME NEW a \in Int, NEW b \in Int, a <= b
  PROVE  (a + b) \div 2 \in a..b
OBVIOUS

\* The values a control is set to are in its range.
LEMMA ValuesWithin ==
  ASSUME NEW n \in Names, NEW v \in ValuesOf(Named[n])
  PROVE  Within(Named[n], v)
  <1> DEFINE d == Named[n]
  <1>1. /\ d.lo \in Int /\ d.hi \in Int /\ d.lo <= d.hi
        /\ d.kind \in {"bool", "group"} => d.lo = 0 /\ d.hi = 1
    BY Described
  <1>2. v \in ValuesOf(d)  OBVIOUS
  <1> HIDE DEF d
  <1>3. ASSUME d.kind = "menu"  PROVE Within(d, v)
    BY <1>2, <1>3 DEF ValuesOf, Within
  <1>4. ASSUME d.kind \in {"bool", "group"}  PROVE Within(d, v)
    <2>1. v \in {0, 1}  BY <1>2, <1>4 DEF ValuesOf
    <2> QED  BY <2>1, <1>1, <1>4 DEF Within
  <1>5. ASSUME d.kind \notin {"menu", "bool", "group"}  PROVE Within(d, v)
    <2>1. v \in {d.lo, d.hi, (d.lo + d.hi) \div 2}  BY <1>2, <1>5 DEF ValuesOf
    <2>2. v \in d.lo..d.hi  BY <2>1, <1>1, HalfWay
    <2> QED  BY <2>2, <1>5 DEF Within
  <1>6. Within(d, v)  BY <1>3, <1>4, <1>5
  <1> QED  BY <1>6 DEF d

\* However a control is left, the effect gets a value of its setting.
LEMMA ControlWithin ==
  ASSUME NEW h \in HostKinds, NEW n \in Names, NEW q \in Controls(h, Named[n])
  PROVE  Within(Named[n], ValueOf(h, Named[n], q))
  <1> DEFINE d == Named[n]
  <1>1. ASSUME NEW v \in ValuesOf(d), q = ParamOf(h, d, v)  PROVE Within(d, ValueOf(h, d, q))
    <2>1. Within(d, v)  BY <1>1, ValuesWithin
    <2>2. ValueOf(h, d, q) = v  BY <2>1, <1>1, ParamReadsBack
    <2> QED  BY <2>1, <2>2
  <1>2. CASE h = "gui"
    <2>1. q \in ValuesOf(d) /\ q = ParamOf(h, d, q)  BY <1>2 DEF Controls, ParamOf
    <2> QED  BY <2>1, <1>1
  <1>3. CASE h = "ofx"
    <2>1. PICK v \in ValuesOf(d) : q = OfxParam(d, v)  BY <1>3 DEF Controls
    <2>2. q = ParamOf(h, d, v)  BY <2>1, <1>3 DEF ParamOf
    <2> QED  BY <2>2, <1>1
  <1>4. CASE h = "ae"
    <2>1. \/ \E v \in ValuesOf(d) : q = AeParam(d, v)
          \/ d.kind = "int" /\ \E v \in ValuesOf(d) \ {d.hi} : q = Slider({}, v, TRUE)
      <3> HIDE DEF d
      <3>1. Controls(h, Named[n]) = {AeParam(d, v) : v \in ValuesOf(d)} \cup
               (IF d.kind = "int" THEN {Slider({}, v, TRUE) : v \in ValuesOf(d) \ {d.hi}} ELSE {})
        BY <1>4 DEF Controls, d
      <3> DEFINE Ends == {Slider({}, v, TRUE) : v \in ValuesOf(d) \ {d.hi}}
                 Whole == {AeParam(d, v) : v \in ValuesOf(d)}
      <3>2. q \in Whole \/ (d.kind = "int" /\ q \in Ends)
        <4> HIDE DEF Ends, Whole
        <4>1. Controls(h, Named[n]) = Whole \cup (IF d.kind = "int" THEN Ends ELSE {})
          BY <3>1 DEF Ends, Whole
        <4> QED  BY <4>1
      <3> QED  BY Zenon, <3>2
    <2>2. CASE \E v \in ValuesOf(d) : q = AeParam(d, v)
      <3>1. PICK v \in ValuesOf(d) : q = AeParam(d, v)  BY <2>2
      <3>2. q = ParamOf(h, d, v)  BY <3>1, <1>4 DEF ParamOf
      <3> QED  BY <3>1, <3>2, <1>1
    <2>3. CASE d.kind = "int" /\ \E v \in ValuesOf(d) \ {d.hi} : q = Slider({}, v, TRUE)
      <3>1. PICK v \in ValuesOf(d) \ {d.hi} : q = Slider({}, v, TRUE)  BY <2>3
      <3>2. Within(d, v) /\ v # d.hi  BY <3>1, ValuesWithin
      <3>3. d.lo \in Int /\ d.hi \in Int /\ ~d.log  BY <2>3, Described
      <3>4. ValueOf(h, d, q) = AeValue(d, q)  BY <1>4 DEF ValueOf
      <3>5. q.scale = {} /\ q.n = v /\ q.half  BY Zenon, <3>1, HalfSlider
      <3> HIDE DEF d
      <3>6. d.kind = "int"  BY <2>3
      <3>7. LogScale(d) \cup PercentScale(d) = {}  BY <3>3, <3>6 DEF LogScale, PercentScale
      <3>8. AeValue(d, q) = Rounded(q)  BY <3>5, <3>6, <3>7 DEF AeValue
      <3>9. v \in d.lo..d.hi  BY <3>2, <3>6 DEF Within
      <3>10. Rounded(q) \in d.lo..d.hi
        <4>1. Rounded(q) = IF v >= 0 THEN v + 1 ELSE v  BY <3>5 DEF Rounded
        <4> QED  BY <4>1, <3>2, <3>3, <3>9
      <3> QED  BY <3>4, <3>6, <3>8, <3>10 DEF Within, d
    <2> QED  BY <2>1, <2>2, <2>3
  <1> QED  BY <1>2, <1>3, <1>4 DEF HostKinds

-----------------------------------------------------------------------------
(* Preset files                                                              *)

\* What a reader returns, what a preset file has, and what its JSON has.
LEMMA ParsedIs ==
  ASSUME NEW s
  PROVE  Parsed(s).ok /\ Parsed(s).settings = s /\ ~Failed.ok
  <1>1. Parsed(s).ok /\ ~Failed.ok  BY Zenon DEF Parsed, Failed
  <1>2. Parsed(s).settings = s  BY Zenon DEF Parsed
  <1> QED  BY <1>1, <1>2

\* A preset file has its contents and what they stand for.
LEMMA PresetIs ==
  ASSUME NEW json, NEW look
  PROVE  Preset(json, look).json = json /\ Preset(json, look).look = look
BY Zenon DEF Preset

\* An object of JSON has its keys.
LEMMA JsonIs ==
  ASSUME NEW keys
  PROVE  Json(keys).json /\ Json(keys).keys = keys
  <1>1. Json(keys).json  BY Zenon DEF Json
  <1>2. Json(keys).keys = keys  BY Zenon DEF Json
  <1> QED  BY <1>1, <1>2

\* A value in its range is a number, and 0 or 1 for a flag.
LEMMA WithinIsInt ==
  ASSUME NEW n \in Names, NEW v, Within(Named[n], v)
  PROVE  v \in Int /\ (IsFlag(Named[n]) => v \in {0, 1})
  <1> DEFINE d == Named[n]
  <1>1. /\ d.lo \in Int /\ d.hi \in Int
        /\ d.kind \in {"bool", "group"} => d.lo = 0 /\ d.hi = 1
        /\ d.kind = "menu" => OptionValues(d) \subseteq Nat
    BY Described
  <1>2. Within(d, v)  OBVIOUS
  <1> HIDE DEF d
  <1>3. v \in Int /\ (IsFlag(d) => v \in {0, 1})
    <2>1. CASE d.kind = "menu"
      <3>1. v \in OptionValues(d)  BY <2>1, <1>2 DEF Within
      <3> QED  BY <3>1, <2>1, <1>1 DEF IsFlag
    <2>2. CASE d.kind # "menu"
      <3>1. v \in d.lo..d.hi  BY <2>2, <1>2 DEF Within
      <3> QED  BY <3>1, <1>1 DEF IsFlag
    <2> QED  BY <2>1, <2>2
  <1> QED  BY <1>3 DEF d

\* A number is clamped to its range.
LEMMA ClampWithin ==
  ASSUME NEW n \in Names, NEW v \in Int, Named[n].kind # "menu"
  PROVE  /\ Within(Named[n], Clamp(Named[n], v))
         /\ Within(Named[n], v) => Clamp(Named[n], v) = v
  <1> DEFINE d == Named[n]
  <1>1. d.lo \in Int /\ d.hi \in Int /\ d.lo <= d.hi  BY Described
  <1>2. d.kind # "menu"  OBVIOUS
  <1> HIDE DEF d
  <1>3. Clamp(d, v) \in d.lo..d.hi /\ (v \in d.lo..d.hi => Clamp(d, v) = v)  BY <1>1 DEF Clamp
  <1>4. Within(d, Clamp(d, v)) /\ (Within(d, v) => Clamp(d, v) = v)  BY <1>2, <1>3 DEF Within
  <1> QED  BY <1>4 DEF d

\* What a preset's key says of a setting, if it is of the setting's type and an
\* option that exists.
Says(keys, n) ==
    /\ JsonValue(keys[n])
    /\ keys[n].type = JsonType(Named[n])
    /\ Named[n].kind = "menu" => keys[n].n \in OptionValues(Named[n])

\* A key of the right type is read as a value in the range: the key's, if that one is.
LEMMA ReadSettingWithin ==
  ASSUME NEW keys, NEW n \in Names, Says(keys, n)
  PROVE  /\ Within(Named[n], ReadSetting(keys, n))
         /\ Within(Named[n], keys[n].n) => ReadSetting(keys, n) = keys[n].n
  <1>1. CASE Named[n].kind = "menu"
    <2>1. ReadSetting(keys, n) = keys[n].n  BY <1>1 DEF ReadSetting
    <2> QED  BY <2>1, <1>1 DEF Says, Within
  <1>2. CASE IsFlag(Named[n])
    <2>1. ReadSetting(keys, n) = keys[n].n  BY <1>2 DEF ReadSetting
    <2>2. keys[n].type = "bool" /\ JsonValue(keys[n])  BY <1>2 DEF Says, JsonType
    <2>3. keys[n].n \in {0, 1}  BY <2>2 DEF JsonValue
    <2>4. Named[n].kind \in {"bool", "group"}  BY <1>2 DEF IsFlag
    <2>5. Named[n].lo = 0 /\ Named[n].hi = 1  BY <2>4, Described
    <2> QED  BY <2>1, <2>3, <2>4, <2>5 DEF Within
  <1>3. CASE Named[n].kind # "menu" /\ ~IsFlag(Named[n])
    <2>1. ReadSetting(keys, n) = Clamp(Named[n], keys[n].n)  BY <1>3 DEF ReadSetting
    <2>2. keys[n].n \in Int  BY DEF Says, JsonValue
    <2> QED  BY <2>1, <2>2, <1>3, ClampWithin
  <1> QED  BY <1>1, <1>2, <1>3

\* A preset of this program is read as settings in their ranges, or not at all.
LEMMA ReadVersion1InRange ==
  ASSUME NEW keys, \A k \in DOMAIN keys : JsonValue(keys[k])
  PROVE  \/ ReadVersion1(keys) = Failed
         \/ \E s : InRange(s) /\ ReadVersion1(keys) = Parsed(s)
  <1> DEFINE s == [n \in Names |-> IF n \in DOMAIN keys THEN ReadSetting(keys, n) ELSE Legacy[n]]
  <1>1. CASE ~Typed(keys, TypeOf) \/ ~OptionsExist(keys)  BY <1>1 DEF ReadVersion1
  <1>2. CASE Typed(keys, TypeOf) /\ OptionsExist(keys)
    <2>1. ReadVersion1(keys) = Parsed(s)  BY <1>2 DEF ReadVersion1
    <2>2. ASSUME NEW n \in Names  PROVE Within(Named[n], s[n])
      <3>1. CASE n \in DOMAIN keys
        <4>1. keys[n].type = JsonType(Named[n])  BY <1>2, <2>2, <3>1 DEF Typed, TypeOf
        <4>2. Says(keys, n)  BY <1>2, <2>2, <3>1, <4>1 DEF Says, OptionsExist
        <4> QED  BY <4>2, <2>2, <3>1, ReadSettingWithin
      <3>2. CASE n \notin DOMAIN keys  BY <2>2, <3>2, Described
      <3> QED  BY <3>1, <3>2
    <2>3. s = [n \in Names |-> s[n]]  OBVIOUS
    <2> HIDE DEF s
    <2>4. InRange(s)  BY <2>2, <2>3 DEF InRange
    <2> QED  BY <2>1, <2>4
  <1> QED  BY <1>1, <1>2

\* A preset says settings that lie in their ranges, or cannot be read.
LoadsInRange(json) ==
    \/ FromJson(json) = Failed
    \/ \E s : InRange(s) /\ FromJson(json) = Parsed(s)

\* A preset of this program, of any release, is refused or read into the ranges.
LEMMA PresetLoadsInRange ==
  ASSUME NEW json, json.json => \A k \in DOMAIN json.keys : JsonValue(json.keys[k]), ~OfQt(json)
  PROVE  LoadsInRange(json)
  <1>1. CASE ~json.json  BY <1>1 DEF LoadsInRange, FromJson
  <1>2. CASE json.json
    <2> DEFINE keys == Known(json.keys)
    <2>1. DOMAIN keys \subseteq DOMAIN json.keys /\ \A k \in DOMAIN keys : keys[k] = json.keys[k]
      BY DEF Known, Restrict
    <2>2. \A k \in DOMAIN keys : JsonValue(keys[k])  BY <1>2, <2>1
    <2>3. "_composite_preemphasis" \notin DOMAIN keys  BY <1>2 DEF OfQt
    <2>4. FromJson(json) = Failed \/ FromJson(json) = ReadVersion1(keys)
      BY <1>2, <2>3 DEF FromJson
    <2> HIDE DEF keys
    <2>5. \/ ReadVersion1(keys) = Failed
          \/ \E s : InRange(s) /\ ReadVersion1(keys) = Parsed(s)
      BY <2>2, ReadVersion1InRange
    <2> QED  BY <2>4, <2>5 DEF LoadsInRange
  <1> QED  BY <1>1, <1>2

\* So is one of ntscQT whose numbers are in their ranges.
LEMMA QtLoads ==
  ASSUME NEW file, OfQt(file), FromJson(file).ok => InRange(FromJson(file).settings)
  PROVE  LoadsInRange(file)
  <1>1. FromJson(file) = FromNtscQt(Known(file.keys))  BY DEF OfQt, FromJson
  <1>2. PICK s : FromNtscQt(Known(file.keys)) \in {Failed, Parsed(s)}
    BY Zenon DEF FromNtscQt
  <1>3. CASE FromJson(file) = Failed  BY <1>3 DEF LoadsInRange
  <1>4. CASE FromJson(file) = Parsed(s)
    <2>1. FromJson(file).ok /\ FromJson(file).settings = s  BY <1>4, ParsedIs
    <2> QED  BY <2>1, <1>4 DEF LoadsInRange
  <1> QED  BY <1>1, <1>2, <1>3, <1>4

\* The settings written to a preset are those that are read from it.
LEMMA JsonRoundTrip ==
  ASSUME NEW s, InRange(s)
  PROVE  FromJson(ToJson(s)) = Parsed(s)
  <1> DEFINE Value(k) == IF k = "version" THEN Number(1)
                         ELSE [type |-> JsonType(Named[k]), n |-> s[k]]
             keys == [k \in Names \cup {"version"} |-> Value(k)]
             known == Known(keys)
  <1>1. "version" \notin Names /\ "_composite_preemphasis" \notin Names  BY DescriptorsAssumption
  <1>2. ToJson(s) = Json(keys)  BY DEF ToJson
  <1>3. Number(1).type = "number" /\ Number(1).n = 1  BY DEF Number
  <1>4. ASSUME NEW n \in Names
        PROVE  keys[n].type = JsonType(Named[n]) /\ keys[n].n = s[n] /\ keys[n].type \in {"bool", "number"}
    BY <1>1, <1>4 DEF JsonType
  <1>5. keys["version"] = Number(1) /\ DOMAIN keys = Names \cup {"version"}  OBVIOUS
  <1> HIDE DEF keys
  <1>6. /\ DOMAIN known = Names \cup {"version"}
        /\ \A k \in DOMAIN known : known[k] = keys[k]
    <2>1. \A k \in DOMAIN keys : keys[k].type # "text"
      <3>1. keys["version"].type # "text"  BY <1>3, <1>5
      <3> QED  BY <3>1, <1>4, <1>5
    <2> QED  BY <2>1, <1>5 DEF Known, Restrict
  <1> HIDE DEF known
  <1>7. ASSUME NEW n \in Names  PROVE Says(known, n) /\ known[n].n = s[n]
    <2>1. known[n] = keys[n]  BY <1>6, <1>7
    <2>2. Within(Named[n], s[n])  BY <1>7 DEF InRange
    <2>3. CASE Named[n].kind = "menu"
      <3>1. s[n] \in OptionValues(Named[n])  BY <2>2, <2>3 DEF Within
      <3>2. s[n] \in Int  BY <2>2, <1>7, WithinIsInt
      <3>3. JsonType(Named[n]) = "number"  BY <2>3 DEF JsonType, IsFlag
      <3>4. JsonValue(keys[n])  BY <3>2, <3>3, <1>4, <1>7 DEF JsonValue
      <3> QED  BY <2>1, <3>1, <3>4, <1>4, <1>7 DEF Says
    <2>4. CASE Named[n].kind # "menu"
      <3>3. s[n] \in Int /\ (JsonType(Named[n]) = "bool" => s[n] \in {0, 1})
        BY <2>2, <1>7, WithinIsInt DEF JsonType
      <3>4. JsonValue(keys[n])  BY <3>3, <1>4, <1>7 DEF JsonValue
      <3> QED  BY <2>1, <2>4, <3>4, <1>4, <1>7 DEF Says
    <2> QED  BY <2>3, <2>4
  <1>8. FromJson(ToJson(s)) = ReadVersion1(known)
    <2>1. ToJson(s).json /\ ToJson(s).keys = keys  BY <1>2, JsonIs
    <2>2. known["version"] = Number(1) /\ "version" \in DOMAIN known  BY <1>5, <1>6
    <2>3. "_composite_preemphasis" \notin DOMAIN known  BY <1>1, <1>6
    <2> QED  BY <2>1, <2>2, <2>3 DEF FromJson, known
  <1>9. Typed(known, TypeOf)
    <2>1. DOMAIN TypeOf = Names /\ \A n \in Names : TypeOf[n] = JsonType(Named[n])  BY DEF TypeOf
    <2> QED  BY <2>1, <1>7 DEF Typed, Says
  <1>10. OptionsExist(known)  BY <1>7 DEF OptionsExist, Says
  <1>11. ReadVersion1(known) = Parsed([n \in Names |-> s[n]])
    <2>1. ASSUME NEW n \in Names  PROVE ReadSetting(known, n) = s[n]
      <3>1. Within(Named[n], s[n])  BY <2>1 DEF InRange
      <3> QED  BY <3>1, <2>1, <1>7, ReadSettingWithin
    <2>2. [n \in Names |-> IF n \in DOMAIN known THEN ReadSetting(known, n) ELSE Legacy[n]]
          = [n \in Names |-> s[n]]
      BY <2>1, <1>6
    <2> QED  BY <2>2, <1>9, <1>10 DEF ReadVersion1
  <1>12. [n \in Names |-> s[n]] = s  BY DEF InRange
  <1> QED  BY <1>8, <1>11, <1>12

-----------------------------------------------------------------------------
(* Groups                                                                    *)

\* A setting is in its group and in the group around that one, and in no more.
LEMMA EnclosingIs ==
  ASSUME NEW n \in Names
  PROVE  LET g == Named[n].group
             outer == Named[g].group
         IN /\ g = "" => Enclosing[n] = {}
            /\ g # "" => IsGroup(g) /\ (outer = "" \/ IsGroup(outer))
            /\ g # "" /\ outer = "" => Enclosing[n] = {g}
            /\ g # "" /\ outer # "" => Enclosing[n] = {g, outer}
  <1> DEFINE Of(m) == IF m = "" THEN {} ELSE {Named[m].group} \ {""}
             g == Named[n].group
             outer == Named[g].group
  <1>1. n # ""  BY DescriptorsAssumption
  <1>2. g = "" \/ IsGroup(g)  BY Described
  <1>3. g # "" => g \in Names  BY <1>2 DEF IsGroup
  <1>4. g # "" => outer = "" \/ IsGroup(outer)  BY <1>3, Described
  <1>5. Enclosing[n] = Of(n) \cup UNION {Of(m) : m \in Of(n)}  BY DEF Enclosing
  <1>6. Of(n) = {g} \ {""}  BY <1>1
  <1>7. g # "" => Of(g) = {outer} \ {""}  OBVIOUS
  <1> HIDE DEF Of, g, outer
  <1>8. g = "" => Enclosing[n] = {}
    <2>1. ASSUME g = ""  PROVE Of(n) = {}  BY <2>1, <1>6
    <2>2. ASSUME Of(n) = {}  PROVE Enclosing[n] = {}  BY <2>2, <1>5
    <2> QED  BY <2>1, <2>2
  <1>9. g # "" => Enclosing[n] = {g} \cup Of(g)  BY <1>5, <1>6
  <1>10. g # "" /\ outer = "" => Enclosing[n] = {g}  BY <1>7, <1>9
  <1>11. g # "" /\ outer # "" => Enclosing[n] = {g, outer}  BY <1>7, <1>9
  <1> QED  BY <1>2, <1>4, <1>8, <1>10, <1>11 DEF g, outer

\* A group is switched on or off.
LEMMA GroupIsOnOrOff ==
  ASSUME NEW s, InRange(s), NEW g, IsGroup(g)
  PROVE  s[g] \in {0, 1}
  <1>1. g \in Names /\ Named[g].kind = "group"  BY DEF IsGroup
  <1>2. Within(Named[g], s[g])  BY <1>1 DEF InRange
  <1>3. IsFlag(Named[g])  BY <1>1 DEF IsFlag
  <1> QED  BY <1>1, <1>2, <1>3, WithinIsInt

\* The two walks over the groups, one down from a group that is switched off,
\* one up from a setting, come to the same.
LEMMA DisabledAreIneffective ==
  ASSUME NEW s, InRange(s)
  PROVE  Names \ Disabled(s) = DOMAIN Effective(s)
  <1> DEFINE Off == {n \in Names : Named[n].kind = "group" /\ s[n] = 0}
             Inside(groups) == {n \in Names : Named[n].group \in groups}
  <1>1. Disabled(s) = Inside(Off) \cup Inside(Inside(Off))  BY DEF Disabled
  <1>2. \A g : g \in Off <=> IsGroup(g) /\ s[g] = 0  BY DEF IsGroup
  <1>3. DOMAIN Effective(s) = {n \in Names : \A g \in Enclosing[n] : s[g] = 1}
    BY DEF Effective, Restrict
  <1>4. "" \notin Names  BY DescriptorsAssumption
  <1>5. ASSUME NEW n \in Names
        PROVE  n \in Disabled(s) <=> \E g \in Enclosing[n] : s[g] # 1
    <2> DEFINE g == Named[n].group
               outer == Named[g].group
    <2>1. n \in Disabled(s) <=> g \in Off \/ (g \in Names /\ outer \in Off)  BY <1>1, <1>5
    <2>2. CASE g = ""
      <3>1. Enclosing[n] = {}  BY <2>2, <1>5, EnclosingIs
      <3> QED  BY <2>1, <2>2, <3>1, <1>4
    <2>3. CASE g # "" /\ outer = ""
      <3>1. Enclosing[n] = {g} /\ IsGroup(g)  BY <2>3, <1>5, EnclosingIs
      <3>2. s[g] \in {0, 1}  BY <3>1, GroupIsOnOrOff
      <3>3. (\E e \in Enclosing[n] : s[e] # 1) <=> s[g] = 0  BY <3>1, <3>2
      <3>4. outer \notin Off  BY <2>3, <1>2, <1>4 DEF IsGroup
      <3>5. g \in Off <=> s[g] = 0  BY <3>1, <1>2
      <3> HIDE DEF Off, Inside, g, outer
      <3> QED  BY <2>1, <3>3, <3>4, <3>5
    <2>4. CASE g # "" /\ outer # ""
      <3>1. Enclosing[n] = {g, outer} /\ IsGroup(g) /\ IsGroup(outer)
        BY <2>4, <1>5, EnclosingIs
      <3>2. s[g] \in {0, 1} /\ s[outer] \in {0, 1} /\ g \in Names
        BY <3>1, GroupIsOnOrOff DEF IsGroup
      <3>3. (\E e \in Enclosing[n] : s[e] # 1) <=> s[g] = 0 \/ s[outer] = 0  BY <3>1, <3>2
      <3>4. (g \in Off <=> s[g] = 0) /\ (outer \in Off <=> s[outer] = 0)  BY <3>1, <1>2
      <3> HIDE DEF Off, Inside, g, outer
      <3> QED  BY <2>1, <3>2, <3>3, <3>4
    <2> QED  BY <2>2, <2>3, <2>4
  <1> QED  BY <1>3, <1>5

-----------------------------------------------------------------------------
(* The settings of a session                                                 *)

\* The settings that files stand for are those that the program reads.
FilesSayWhatIsRead == \A s \in Sessions : s.file.look = FromJson(s.file.json)

HostsAre ==
    /\ session \in Sessions
    /\ HostsOf(session) \subseteq HostKinds /\ Head(session.hosts) \in HostsOf(session)

ParamsRead ==
    /\ params = [h \in HostsOf(session) |-> params[h]]
    /\ \A h \in HostsOf(session) : HasKeys(h, params[h]) /\ InRange(Read(h, params[h]))

ControlsShow ==
    /\ disabled = [h \in HostsOf(session) |-> disabled[h]]
    /\ \A h \in HostsOf(session) \ stale : disabled[h] = Disabled(Read(h, params[h]))

FileRead ==
    /\ LoadsInRange(disk.json)
    /\ saving = Failed \/ \E s : InRange(s) /\ saving = Parsed(s)

HostInv == HostsAre /\ ParamsRead /\ ControlsShow /\ FileRead

\* The settings are what the users mean them to be.
KeptInv ==
    /\ intended = [h \in HostsOf(session) |-> Read(h, params[h])]
    /\ disk.look = FromJson(disk.json)

\* What HostInv is about.
settingVars == <<session, params, disabled, stale, disk, saving>>

\* What a host opens with is in its ranges.
LEMMA OpenedInRange ==
  ASSUME NEW h, NEW s \in Sessions
  PROVE  InRange(Opened(h, s))
  <1>1. ASSUME NEW n \in Names  PROVE Within(Named[n], Opened(h, s)[n])
    <2>1. CASE n = "use_field"
      <3>1. Opened(h, s)[n] = s.use_field  BY <1>1, <2>1 DEF Opened
      <3>2. s.use_field \in 0..5  BY SessionsAssumption
      <3> QED  BY <2>1, <3>1, <3>2, DescriptorsAssumption DEF Within
    <2>2. CASE n # "use_field"
      <3>1. Opened(h, s)[n] \in {Legacy[n], Default[n]}  BY <1>1, <2>2 DEF Opened
      <3> QED  BY <3>1, <1>1, Described
    <2> QED  BY <2>1, <2>2
  <1>2. Opened(h, s) = [n \in Names |-> Opened(h, s)[n]]  BY DEF Opened
  <1> QED  BY <1>1, <1>2 DEF InRange

\* The hosts of a session are those there are, and the first is one of them.
LEMMA HostsOfSession ==
  ASSUME NEW s \in Sessions
  PROVE  HostsOf(s) \subseteq HostKinds /\ Head(s.hosts) \in HostsOf(s)
  <1>1. s.hosts \in Seq({"gui", "ofx", "ae"}) /\ s.hosts # <<>>  BY SessionsAssumption
  <1>2. HostKinds = {"gui", "ofx", "ae"}  BY DEF HostKinds
  <1>3. s.hosts \in Seq(HostKinds)  BY <1>1, <1>2
  <1>4. HostsOf(s) = {s.hosts[i] : i \in DOMAIN s.hosts}  BY DEF HostsOf, Range
  <1>5. 1 \in DOMAIN s.hosts /\ Head(s.hosts) = s.hosts[1]  BY <1>1, <1>3
  <1>6. \A i \in DOMAIN s.hosts : s.hosts[i] \in HostKinds  BY <1>3
  <1> QED  BY <1>4, <1>5, <1>6

\* The invariant of the hosts, in the initial states.
LEMMA HostInvAtStart ==
  ASSUME HostsInit
  PROVE  HostInv
  <1>1. /\ session \in Sessions /\ stale = {} /\ disk = session.file /\ saving = Failed
        /\ params = [h \in HostsOf(session) |-> Params(h, Opened(h, session))]
        /\ disabled = [h \in HostsOf(session) |-> Disabled(Opened(h, session))]
    BY DEF HostsInit
  <1>2. HostsAre  BY <1>1, HostsOfSession DEF HostsAre
  <1>3. ASSUME NEW h \in HostsOf(session)
        PROVE  /\ HasKeys(h, params[h]) /\ InRange(Opened(h, session))
               /\ Read(h, params[h]) = Opened(h, session)
    <2>1. h \in HostKinds  BY <1>2, <1>3 DEF HostsAre
    <2>2. InRange(Opened(h, session))  BY <1>1, OpenedInRange
    <2>3. params[h] = Params(h, Opened(h, session))  BY <1>1, <1>3
    <2> QED  BY <2>1, <2>2, <2>3, ReadsBack, ParamsHaveKeys
  <1>4. ParamsRead  BY <1>1, <1>3 DEF ParamsRead
  <1>5. ControlsShow  BY <1>1, <1>3 DEF ControlsShow
  <1>6. FileRead
    <2>1. disk.json.json => \A k \in DOMAIN disk.json.keys : JsonValue(disk.json.keys[k])
      BY <1>1, SessionsAssumption
    <2>2. ASSUME OfQt(disk.json)  PROVE LoadsInRange(disk.json)
      <3>1. FromJson(disk.json).ok => InRange(FromJson(disk.json).settings)
        BY <1>1, <2>2, SessionsAssumption
      <3> QED  BY <2>2, <3>1, QtLoads
    <2>3. LoadsInRange(disk.json)  BY <2>1, <2>2, PresetLoadsInRange
    <2> QED  BY <2>3, <1>1 DEF FileRead
  <1> QED  BY <1>2, <1>4, <1>5, <1>6 DEF HostInv

\* The controls of a session's user are those of settings.
LEMMA FocusIsSettings ==
  ASSUME HostsAre
  PROVE  Focus \subseteq Names
  <1>1. session.focus \in Names  BY SessionsAssumption DEF HostsAre
  <1>2. Enclosing[session.focus] \subseteq Names
    <2> DEFINE g == Named[session.focus].group
               outer == Named[g].group
    <2>1. CASE g = ""
      <3>1. Enclosing[session.focus] = {}  BY <2>1, <1>1, EnclosingIs
      <3> QED  BY <3>1
    <2>2. CASE g # "" /\ outer = ""
      <3>1. Enclosing[session.focus] = {g} /\ IsGroup(g)  BY <2>2, <1>1, EnclosingIs
      <3> QED  BY <3>1 DEF IsGroup
    <2>3. CASE g # "" /\ outer # ""
      <3>1. Enclosing[session.focus] = {g, outer} /\ IsGroup(g) /\ IsGroup(outer)
        BY <2>3, <1>1, EnclosingIs
      <3> QED  BY <3>1 DEF IsGroup
    <2> QED  BY <2>1, <2>2, <2>3
  <1> QED  BY <1>1, <1>2 DEF Focus

\* What a step does to one host's parameters: the host reads s from now on.
Reads(h, s) ==
    /\ params' = [params EXCEPT ![h] = params'[h]]
    /\ HasKeys(h, params'[h]) /\ Read(h, params'[h]) = s

\* Parameters that are set are read as what they were set to, and the others as before.
LEMMA ParamsReadKept ==
  ASSUME HostsAre, ParamsRead, NEW h \in HostsOf(session), NEW s, InRange(s), Reads(h, s),
         session' = session
  PROVE  ParamsRead'
  <1>1. params = [g \in HostsOf(session) |-> params[g]]  BY DEF ParamsRead
  <1>2. params' = [params EXCEPT ![h] = params'[h]]  BY DEF Reads
  <1>3. HasKeys(h, params'[h]) /\ Read(h, params'[h]) = s  BY DEF Reads
  <1>4. ASSUME NEW g \in HostsOf(session), g # h  PROVE params'[g] = params[g]
    BY <1>1, <1>2, <1>4
  <1>5. \A g \in HostsOf(session) : HasKeys(g, params'[g]) /\ InRange(Read(g, params'[g]))
    BY <1>3, <1>4 DEF ParamsRead
  <1>6. params' = [g \in HostsOf(session) |-> params'[g]]  BY <1>1, <1>2
  <1> QED  BY <1>5, <1>6 DEF ParamsRead

\* A host that was not told of a change is stale, the others show what they did.
LEMMA ControlsShowKept ==
  ASSUME HostsAre, ParamsRead, ControlsShow, NEW h \in HostsOf(session), NEW s, Reads(h, s),
         session' = session, disabled' = disabled, stale' = stale \cup {h}
  PROVE  ControlsShow'
  <1>1. params = [g \in HostsOf(session) |-> params[g]]  BY DEF ParamsRead
  <1>2. params' = [params EXCEPT ![h] = params'[h]]  BY DEF Reads
  <1>3. ASSUME NEW g \in HostsOf(session) \ stale'  PROVE disabled'[g] = Disabled(Read(g, params'[g]))
    <2>1. g # h /\ g \in HostsOf(session) \ stale  BY <1>3
    <2>2. params'[g] = params[g]  BY <2>1, <1>1, <1>2
    <2> QED  BY <2>1, <2>2 DEF ControlsShow
  <1> QED  BY <1>3 DEF ControlsShow

\* A changed control is read as its new value, and changes no other setting.
LEMMA ChangeReads ==
  ASSUME HostsAre, ParamsRead, NEW n \in Focus, NEW h \in HostsOf(session),
         NEW q \in Controls(h, Named[n]), Change(h, n, q)
  PROVE  /\ Reads(h, [Read(h, params[h]) EXCEPT ![n] = ValueOf(h, Named[n], q)])
         /\ InRange([Read(h, params[h]) EXCEPT ![n] = ValueOf(h, Named[n], q)])
         /\ intended' = [intended EXCEPT ![h][n] = ValueOf(h, Named[n], q)]
  <1> DEFINE old == Read(h, params[h])
             new == [old EXCEPT ![n] = ValueOf(h, Named[n], q)]
  <1>1. h \in HostKinds /\ n \in Names  BY FocusIsSettings DEF HostsAre
  <1>2. params' = [params EXCEPT ![h][Key(h, n)] = q]  BY DEF Change, Key
  <1>3. HasKeys(h, params[h]) /\ InRange(old)  BY DEF ParamsRead
  <1>4. DOMAIN params = HostsOf(session)
    <2>1. params = [g \in HostsOf(session) |-> params[g]]  BY DEF ParamsRead
    <2> QED  BY <2>1
  <1>5. params'[h] = [params[h] EXCEPT ![Key(h, n)] = q]  BY <1>2, <1>4
  <1>6. HasKeys(h, params'[h]) /\ Read(h, params'[h]) = new  BY <1>1, <1>3, <1>5, ReadsChange
  <1>7. params' = [params EXCEPT ![h] = params'[h]]  BY <1>2, <1>4
  <1>8. Reads(h, new)  BY <1>6, <1>7 DEF Reads
  <1>9. InRange(new)
    <2>1. Within(Named[n], ValueOf(h, Named[n], q))  BY <1>1, ControlWithin
    <2>2. \A m \in Names : new[m] = IF m = n THEN ValueOf(h, Named[n], q) ELSE old[m]
      BY DEF Read
    <2>3. new = [m \in Names |-> new[m]]  BY DEF Read
    <2> HIDE DEF new, old
    <2>4. \A m \in Names : Within(Named[m], new[m])  BY <2>1, <2>2, <1>3 DEF InRange
    <2> QED  BY <2>3, <2>4 DEF InRange
  <1>10. intended' = [intended EXCEPT ![h][n] = ValueOf(h, Named[n], q)]  BY DEF Change, ValueOf
  <1> QED  BY <1>8, <1>9, <1>10

\* A preset that is loaded is read off the parameters as it was read from the file.
LEMMA LoadReads ==
  ASSUME HostsAre, ParamsRead, FileRead, NEW h \in HostsOf(session), Load(h)
  PROVE  \/ /\ FromJson(disk.json) = Failed
            /\ params' = params
         \/ \E s : InRange(s) /\ FromJson(disk.json) = Parsed(s) /\ Reads(h, s)
  <1>1. h \in HostKinds  BY DEF HostsAre
  <1>2. CASE FromJson(disk.json) = Failed
    <2>1. ~FromJson(disk.json).ok  BY <1>2, ParsedIs
    <2>2. params' = params  BY <2>1 DEF Load
    <2> QED  BY <1>2, <2>2
  <1>3. CASE \E s : InRange(s) /\ FromJson(disk.json) = Parsed(s)
    <2>1. PICK s : InRange(s) /\ FromJson(disk.json) = Parsed(s)  BY <1>3
    <2>2. FromJson(disk.json).ok /\ FromJson(disk.json).settings = s  BY <2>1, ParsedIs
    <2>3. params' = [params EXCEPT ![h] = Params(h, s)]  BY <2>2 DEF Load
    <2>4. params = [g \in HostsOf(session) |-> params[g]]  BY DEF ParamsRead
    <2>5. params'[h] = Params(h, s)  BY <2>3, <2>4
    <2>6. Reads(h, s)  BY <1>1, <2>1, <2>3, <2>5, ReadsBack, ParamsHaveKeys DEF Reads
    <2> QED  BY <2>1, <2>6
  <1> QED  BY <1>2, <1>3 DEF FileRead, LoadsInRange

\* A preset that a host writes can be loaded.
LEMMA WrittenLoads ==
  ASSUME NEW s, InRange(s)
  PROVE  LoadsInRange(ToJson(s))
BY JsonRoundTrip DEF LoadsInRange

\* The invariant of the hosts holds after every step of theirs.
LEMMA HostInvKept ==
  ASSUME HostInv, HostsNext
  PROVE  HostInv'
  <1>1. HostsAre /\ ParamsRead /\ ControlsShow /\ FileRead  BY DEF HostInv
  <1>2. ASSUME NEW n \in Focus, NEW q \in Controls(Head(session.hosts), Named[n]),
               Change(Head(session.hosts), n, q)
        PROVE  HostInv'
    <2> DEFINE h == Head(session.hosts)
               s == [Read(h, params[h]) EXCEPT ![n] = ValueOf(h, Named[n], q)]
    <2>1. h \in HostsOf(session)  BY <1>1 DEF HostsAre
    <2>2. session' = session /\ stale' = stale \cup {h} /\ disabled' = disabled
          /\ disk' = disk /\ saving' = saving
      BY <1>2 DEF Change, Act
    <2>3. Reads(h, s) /\ InRange(s)  BY <1>1, <1>2, <2>1, ChangeReads
    <2> HIDE DEF s, h
    <2>4. ParamsRead' /\ ControlsShow'  BY <1>1, <2>1, <2>2, <2>3, ParamsReadKept, ControlsShowKept
    <2>5. HostsAre' /\ FileRead'  BY <1>1, <2>2 DEF HostsAre, FileRead
    <2> QED  BY <2>4, <2>5 DEF HostInv
  <1>3. ASSUME NEW h \in HostsOf(session), Notified(h)  PROVE HostInv'
    <2>1. /\ session' = session /\ params' = params /\ disk' = disk /\ saving' = saving
          /\ stale' = stale \ {h}
          /\ disabled' = [disabled EXCEPT ![h] = Disabled(SettingsOf(h))]
      BY <1>3 DEF Notified
    <2>2. SettingsOf(h) = Read(h, params[h])  BY <1>1, SettingsRead DEF HostsAre
    <2>3. disabled = [g \in HostsOf(session) |-> disabled[g]]  BY <1>1 DEF ControlsShow
    <2>4. \A g \in HostsOf(session) :
             disabled'[g] = IF g = h THEN Disabled(Read(h, params[h])) ELSE disabled[g]
      BY <2>1, <2>2, <2>3
    <2>5. disabled' = [g \in HostsOf(session) |-> disabled'[g]]  BY <2>1, <2>3
    <2>6. ControlsShow'
      <3>1. \A g \in HostsOf(session) \ stale : disabled[g] = Disabled(Read(g, params[g]))
        BY <1>1 DEF ControlsShow
      <3>2. \A g \in HostsOf(session) \ stale' : disabled'[g] = Disabled(Read(g, params[g]))
        BY <2>1, <2>4, <3>1
      <3> QED  BY <2>1, <2>5, <3>2 DEF ControlsShow
    <2>7. HostsAre' /\ ParamsRead' /\ FileRead'  BY <1>1, <2>1 DEF HostsAre, ParamsRead, FileRead
    <2> QED  BY <2>6, <2>7 DEF HostInv
  <1>4. ASSUME UNCHANGED <<session, params, disabled, stale>>, FileRead'  PROVE HostInv'
    BY <1>1, <1>4 DEF HostInv, HostsAre, ParamsRead, ControlsShow
  <1>5. ASSUME NEW h \in HostsOf(session), Save(h)  PROVE HostInv'
    <2>1. /\ UNCHANGED <<session, params, disabled, stale>> /\ saving' = saving
          /\ disk' = Preset(ToJson(SettingsOf(h)), Parsed(intended[h]))
      BY <1>5 DEF Save, Act
    <2>2. SettingsOf(h) = Read(h, params[h])  BY <1>1, SettingsRead DEF HostsAre
    <2>3. LoadsInRange(ToJson(SettingsOf(h)))  BY <1>1, <2>2, WrittenLoads DEF ParamsRead
    <2>4. LoadsInRange(disk'.json)  BY <2>1, <2>3, PresetIs
    <2>5. FileRead'  BY <1>1, <2>1, <2>4 DEF FileRead
    <2> QED  BY <2>1, <2>5, <1>4
  <1>6. ASSUME NEW h \in HostsOf(session), Load(h)  PROVE HostInv'
    <2>1. session' = session /\ stale' = stale \cup {h} /\ disabled' = disabled
          /\ disk' = disk /\ saving' = saving
      BY <1>6 DEF Load, Act
    <2>2. HostsAre' /\ FileRead'  BY <1>1, <2>1 DEF HostsAre, FileRead
    <2>3. CASE params' = params
      <3>1. ParamsRead' /\ ControlsShow'  BY <1>1, <2>1, <2>3 DEF ParamsRead, ControlsShow
      <3> QED  BY <2>2, <3>1 DEF HostInv
    <2>4. CASE \E s : InRange(s) /\ Reads(h, s)
      <3>1. PICK s : InRange(s) /\ Reads(h, s)  BY <2>4
      <3>2. ParamsRead' /\ ControlsShow'  BY <1>1, <2>1, <3>1, ParamsReadKept, ControlsShowKept
      <3> QED  BY <2>2, <3>2 DEF HostInv
    <2> QED  BY <2>3, <2>4, <1>1, <1>6, LoadReads
  <1>7. ASSUME SaveTo  PROVE HostInv'
    <2>1. /\ UNCHANGED <<session, params, disabled, stale>> /\ disk' = disk
          /\ saving' = Parsed(SettingsOf("gui")) /\ "gui" \in HostsOf(session)
      BY <1>7 DEF SaveTo, Act
    <2>2. "gui" \in HostKinds  BY DEF HostKinds
    <2>3. SettingsOf("gui") = Read("gui", params["gui"])  BY <2>2, SettingsRead
    <2>4. InRange(SettingsOf("gui"))  BY <1>1, <2>1, <2>3 DEF ParamsRead
    <2>5. FileRead'  BY <1>1, <2>1, <2>4 DEF FileRead
    <2> QED  BY <2>1, <2>5, <1>4
  <1>8. ASSUME SaveChosen  PROVE HostInv'
    <2>1. /\ UNCHANGED <<session, params, disabled, stale>> /\ saving.ok /\ saving' = Failed
          /\ disk' = Preset(ToJson(saving.settings), saving)
      BY <1>8 DEF SaveChosen
    <2>2. PICK s : InRange(s) /\ saving = Parsed(s)  BY <1>1, <2>1, ParsedIs DEF FileRead
    <2>3. saving.settings = s  BY <2>2, ParsedIs
    <2>4. LoadsInRange(disk'.json)  BY <2>1, <2>2, <2>3, PresetIs, WrittenLoads
    <2>5. FileRead'  BY <2>1, <2>4 DEF FileRead
    <2> QED  BY <2>1, <2>5, <1>4
  <1> QED  BY <1>2, <1>3, <1>5, <1>6, <1>7, <1>8 DEF HostsNext

\* Nothing of a session's settings changes.
LEMMA HostInvStutter ==
  ASSUME HostInv, UNCHANGED settingVars
  PROVE  HostInv'
  <1>1. UNCHANGED <<session, params, disabled, stale, disk, saving>>  BY DEF settingVars
  <1> QED  BY <1>1 DEF HostInv, HostsAre, ParamsRead, ControlsShow, FileRead

\* What users mean is what is read, in the initial states;
LEMMA KeptAtStart ==
  ASSUME FilesSayWhatIsRead, HostInv, HostsInit
  PROVE  KeptInv
  <1>1. /\ session \in Sessions /\ disk = session.file
        /\ params = [h \in HostsOf(session) |-> Params(h, Opened(h, session))]
        /\ intended = [h \in HostsOf(session) |-> Opened(h, session)]
    BY DEF HostsInit
  <1>2. ASSUME NEW h \in HostsOf(session)  PROVE Read(h, params[h]) = Opened(h, session)
    <2>1. h \in HostKinds  BY <1>2 DEF HostInv, HostsAre
    <2>2. InRange(Opened(h, session))  BY <1>1, OpenedInRange
    <2>3. params[h] = Params(h, Opened(h, session))  BY <1>1, <1>2
    <2> QED  BY <2>1, <2>2, <2>3, ReadsBack
  <1>3. intended = [h \in HostsOf(session) |-> Read(h, params[h])]  BY <1>1, <1>2
  <1>4. disk.look = FromJson(disk.json)  BY <1>1 DEF FilesSayWhatIsRead
  <1> QED  BY <1>3, <1>4 DEF KeptInv

\* after a step that sets both;
LEMMA IntendedFollows ==
  ASSUME HostInv, KeptInv, NEW h \in HostsOf(session), NEW s, Reads(h, s), session' = session,
         intended' = [intended EXCEPT ![h] = s], disk' = disk
  PROVE  KeptInv'
  <1>1. params = [g \in HostsOf(session) |-> params[g]]  BY DEF HostInv, ParamsRead
  <1>2. params' = [params EXCEPT ![h] = params'[h]] /\ Read(h, params'[h]) = s  BY DEF Reads
  <1>3. intended = [g \in HostsOf(session) |-> Read(g, params[g])]  BY DEF KeptInv
  <1>4. ASSUME NEW g \in HostsOf(session)  PROVE intended'[g] = Read(g, params'[g])
    <2>1. CASE g = h  BY <2>1, <1>2, <1>3
    <2>2. CASE g # h
      <3>1. params'[g] = params[g]  BY <2>2, <1>1, <1>2, <1>4
      <3> QED  BY <2>2, <3>1, <1>3, <1>4
    <2> QED  BY <2>1, <2>2
  <1>5. intended' = [g \in HostsOf(session) |-> intended'[g]]  BY <1>3
  <1> QED  BY <1>4, <1>5 DEF KeptInv

\* after every step of the hosts;
LEMMA KeptKept ==
  ASSUME HostInv, KeptInv, HostsNext
  PROVE  KeptInv'
  <1>1. HostsAre /\ ParamsRead /\ FileRead  BY DEF HostInv
  <1>2. /\ intended = [h \in HostsOf(session) |-> Read(h, params[h])]
        /\ disk.look = FromJson(disk.json)
    BY DEF KeptInv
  <1>3. ASSUME NEW n \in Focus, NEW q \in Controls(Head(session.hosts), Named[n]),
               Change(Head(session.hosts), n, q)
        PROVE  KeptInv'
    <2> DEFINE h == Head(session.hosts)
               v == ValueOf(h, Named[n], q)
               s == [Read(h, params[h]) EXCEPT ![n] = v]
    <2>1. h \in HostsOf(session)  BY <1>1 DEF HostsAre
    <2>2. session' = session /\ disk' = disk  BY <1>3 DEF Change, Act
    <2>3. Reads(h, s) /\ intended' = [intended EXCEPT ![h][n] = v]
      BY <1>1, <1>3, <2>1, ChangeReads
    <2>4. intended[h] = Read(h, params[h])  BY <1>2, <2>1
    <2>5. intended' = [intended EXCEPT ![h] = s]
      <3> HIDE DEF v, h
      <3>1. intended' = [intended EXCEPT ![h] = [intended[h] EXCEPT ![n] = v]]  BY <2>3
      <3> QED  BY <3>1, <2>4
    <2> HIDE DEF s, v, h
    <2> QED  BY <2>1, <2>2, <2>3, <2>5, IntendedFollows
  <1>4. ASSUME UNCHANGED <<session, params, intended>>, disk'.look = FromJson(disk'.json)
        PROVE  KeptInv'
    BY <1>2, <1>4 DEF KeptInv
  <1>5. ASSUME NEW h \in HostsOf(session), Notified(h)  PROVE KeptInv'
    BY <1>2, <1>4, <1>5 DEF Notified
  <1>6. ASSUME NEW h \in HostsOf(session), Save(h)  PROVE KeptInv'
    <2>1. /\ UNCHANGED <<session, params, intended>>
          /\ disk' = Preset(ToJson(SettingsOf(h)), Parsed(intended[h]))
      BY <1>6 DEF Save, Act
    <2>2. SettingsOf(h) = Read(h, params[h])  BY <1>1, SettingsRead DEF HostsAre
    <2>3. intended[h] = SettingsOf(h)  BY <1>2, <2>2
    <2>4. FromJson(ToJson(SettingsOf(h))) = Parsed(SettingsOf(h))
      BY <1>1, <2>2, JsonRoundTrip DEF ParamsRead
    <2>5. disk'.look = FromJson(disk'.json)  BY <2>1, <2>3, <2>4, PresetIs
    <2> QED  BY <2>1, <2>5, <1>4
  <1>7. ASSUME NEW h \in HostsOf(session), Load(h)  PROVE KeptInv'
    <2>1. /\ session' = session /\ disk' = disk
          /\ intended' = IF disk.look.ok THEN [intended EXCEPT ![h] = disk.look.settings] ELSE intended
      BY <1>7 DEF Load, Act
    <2>2. CASE FromJson(disk.json) = Failed /\ params' = params
      <3>1. ~disk.look.ok  BY <1>2, <2>2, ParsedIs
      <3>2. intended' = intended  BY <2>1, <3>1
      <3> QED  BY <2>1, <2>2, <3>2, <1>2, <1>4
    <2>3. CASE \E s : FromJson(disk.json) = Parsed(s) /\ Reads(h, s)
      <3>1. PICK s : FromJson(disk.json) = Parsed(s) /\ Reads(h, s)  BY <2>3
      <3>2. disk.look.ok /\ disk.look.settings = s  BY <1>2, <3>1, ParsedIs
      <3>3. intended' = [intended EXCEPT ![h] = s]  BY <2>1, <3>2
      <3> QED  BY <2>1, <3>1, <3>3, IntendedFollows
    <2> QED  BY <2>2, <2>3, <1>1, <1>7, LoadReads
  <1>8. ASSUME SaveTo  PROVE KeptInv'
    BY <1>2, <1>4, <1>8 DEF SaveTo, Act
  <1>9. ASSUME SaveChosen  PROVE KeptInv'
    <2>1. /\ UNCHANGED <<session, params, intended>> /\ saving.ok
          /\ disk' = Preset(ToJson(saving.settings), saving)
      BY <1>9 DEF SaveChosen
    <2>2. PICK s : InRange(s) /\ saving = Parsed(s)  BY <1>1, <2>1, ParsedIs DEF FileRead
    <2>3. saving.settings = s  BY <2>2, ParsedIs
    <2>4. disk'.look = FromJson(disk'.json)  BY <2>1, <2>2, <2>3, PresetIs, JsonRoundTrip
    <2> QED  BY <2>1, <2>4, <1>4
  <1> QED  BY <1>3, <1>5, <1>6, <1>7, <1>8, <1>9 DEF HostsNext

\* and after all others.
LEMMA KeptStutter ==
  ASSUME KeptInv, UNCHANGED <<session, params, disk, intended>>
  PROVE  KeptInv'
BY DEF KeptInv

\* What the two invariants say of the properties.
LEMMA HostInvShows ==
  ASSUME HostInv
  PROVE  /\ ControlsFollowGroups
         /\ \A h \in HostsOf(session) : InRange(SettingsOf(h))
  <1>1. HostsAre /\ ParamsRead /\ ControlsShow  BY DEF HostInv
  <1>2. \A h \in HostsOf(session) : SettingsOf(h) = Read(h, params[h])
    BY <1>1, SettingsRead DEF HostsAre
  <1>3. \A h \in HostsOf(session) : InRange(SettingsOf(h))  BY <1>1, <1>2 DEF ParamsRead
  <1>4. ASSUME NEW h \in HostsOf(session) \ stale
        PROVE  Names \ disabled[h] = DOMAIN Effective(SettingsOf(h))
    <2>1. disabled[h] = Disabled(SettingsOf(h))  BY <1>1, <1>2, <1>4 DEF ControlsShow
    <2> QED  BY <2>1, <1>3, <1>4, DisabledAreIneffective
  <1> QED  BY <1>3, <1>4 DEF ControlsFollowGroups

\* The settings are those meant, in the words of the property.
LEMMA KeptShows ==
  ASSUME HostsAre, KeptInv
  PROVE  LooksKept
  <1>1. \A h \in HostsOf(session) : SettingsOf(h) = Read(h, params[h])
    BY SettingsRead DEF HostsAre
  <1> QED  BY <1>1 DEF LooksKept, KeptInv

-----------------------------------------------------------------------------
(* Rows and columns                                                          *)

\* A place in a buffer is one row's and column's.
LEMMA RowsApart ==
  ASSUME NEW w \in Nat \ {0}, NEW a \in Int, NEW b \in Int, NEW c \in Int,
         b * w <= a * w + c, a * w + c < b * w + w, c \in 0..(w - 1)
  PROVE  a = b
  <1>1. CASE a < b
    <2>1. (b - a) * w = b * w - a * w  OBVIOUS
    <2>2. b - a \in Nat \ {0}  BY <1>1
    <2>3. w <= w * (b - a)  BY <2>2, TimesAtLeast
    <2>4. a * w \in Int /\ b * w \in Int /\ w * (b - a) = (b - a) * w  OBVIOUS
    <2> QED  BY <2>1, <2>3, <2>4
  <1>2. CASE b < a
    <2>1. (a - b) * w = a * w - b * w  OBVIOUS
    <2>2. a - b \in Nat \ {0}  BY <1>2
    <2>3. w <= w * (a - b)  BY <2>2, TimesAtLeast
    <2>4. a * w \in Int /\ b * w \in Int /\ w * (a - b) = (a - b) * w  OBVIOUS
    <2> QED  BY <2>1, <2>3, <2>4
  <1> QED  BY <1>1, <1>2

\* A place that lies so far after a row's first one is in that row.
LEMMA InRow ==
  ASSUME NEW w \in Nat \ {0}, NEW a \in Int, NEW b \in Int, NEW c \in 0..(w - 1),
         NEW left \in Nat, NEW n \in Nat, left + n <= w
  PROVE  (a * w + c) - b * w - left \in 0..(n - 1) <=> a = b /\ c - left \in 0..(n - 1)
  <1>0. a * w \in Int /\ b * w \in Int  OBVIOUS
  <1>1. ASSUME (a * w + c) - b * w - left \in 0..(n - 1)  PROVE a = b
    <2>1. b * w <= a * w + c /\ a * w + c < b * w + w  BY <1>0, <1>1
    <2> QED  BY <2>1, RowsApart
  <1>2. a = b => (a * w + c) - b * w - left = c - left  BY <1>0
  <1> QED  BY <1>1, <1>2

\* A row is one of a pair.
LEMMA Pairs ==
  ASSUME NEW row \in Int
  PROVE  /\ row \div 2 \in Int /\ row % 2 \in {0, 1} /\ row = 2 * (row \div 2) + (row % 2)
         /\ row \in Nat => row \div 2 \in Nat
  OBVIOUS

-----------------------------------------------------------------------------
(* The views of a frame                                                      *)

\* The picture's row that a row of a view is.
ViewRow(field, height, r) ==
    CASE field = "upper" -> 2 * r
      [] field = "lower" -> IF height = 1 THEN 0 ELSE 2 * r + 1
      [] OTHER -> r

\* A list of views of a buffer: they lie apart, and each has rows of its field.
ViewOf(v, field, height) ==
    /\ v.field \in {"upper", "lower", "both"} /\ v.base \in Nat /\ v.rows \in Nat \ {0}
    /\ v.rows = Cpu!ImageRows(v.field, height)
    /\ v.base + v.rows <= Cpu!ImageRows(field, height)
Apart(v, u) == v.base + v.rows <= u.base \/ u.base + u.rows <= v.base

ViewsOf(views, field, height) ==
    /\ Len(views) \in {1, 2} /\ DOMAIN views = 1..Len(views)
    /\ \A i \in 1..Len(views) : ViewOf(views[i], field, height)
    /\ \A i, j \in 1..Len(views) : i # j => Apart(views[i], views[j])

\* What a view is made of.
LEMMA ViewIs ==
  ASSUME NEW field, NEW base, NEW rows
  PROVE  /\ View(field, base, rows).field = field /\ View(field, base, rows).base = base
         /\ View(field, base, rows).rows = rows
  BY DEF View

\* The two fields' rows are a picture's.
LEMMA HalvesOf ==
  ASSUME NEW height \in Nat \ {0}
  PROVE  LET up == Cpu!ActualRows("upper", height)
             low == Cpu!ActualRows("lower", height)
         IN /\ up \in Nat \ {0} /\ low \in Nat /\ up + low = height
            /\ up = (height + 1) \div 2 /\ low = height \div 2
            /\ height = 1 => up = 1 /\ low = 0
            /\ height # 1 => low > 0
            /\ 2 * up \in {height, height + 1} /\ 2 * low \in {height, height - 1}
  <1> DEFINE up == Cpu!ActualRows("upper", height)
             low == Cpu!ActualRows("lower", height)
  <1>1. up = (height + 1) \div 2 /\ low = height \div 2  BY DEF Cpu!ActualRows
  <1>2. /\ height \div 2 \in Nat /\ height % 2 \in {0, 1}
        /\ height = 2 * (height \div 2) + (height % 2)
    BY Pairs
  <1>3. /\ (height + 1) \div 2 \in Nat /\ (height + 1) % 2 \in {0, 1}
        /\ height + 1 = 2 * ((height + 1) \div 2) + ((height + 1) % 2)
    BY Pairs
  <1> HIDE DEF up, low
  <1>4. /\ up \in Nat \ {0} /\ low \in Nat /\ up + low = height
        /\ height = 1 => up = 1 /\ low = 0
        /\ height # 1 => low > 0
        /\ 2 * up \in {height, height + 1} /\ 2 * low \in {height, height - 1}
    BY <1>1, <1>2, <1>3
  <1> QED  BY <1>1, <1>4 DEF up, low

\* The rows of each field's image.
LEMMA ImageRowsIs ==
  ASSUME NEW height \in Nat \ {0}
  PROVE  /\ Cpu!ImageRows("upper", height) = (height + 1) \div 2
         /\ Cpu!ImageRows("lower", height) = IF height = 1 THEN 1 ELSE height \div 2
         /\ Cpu!ImageRows("both", height) = height
         /\ Cpu!ImageRows("interleaved_upper", height) = height
         /\ Cpu!ImageRows("interleaved_lower", height) = height
  BY DEF Cpu!ActualRows, Cpu!ImageRows

\* A list of one and a list of one or none.
LEMMA Joined ==
  ASSUME NEW x, NEW y
  PROVE  <<x>> \o << >> = <<x>> /\ <<x>> \o <<y>> = <<x, y>>
  <1> DEFINE s == <<x>>
             e == <<y>>
             c == s \o e
  <1>1. s \in Seq({x, y}) /\ e \in Seq({x, y}) /\ Len(s) = 1 /\ Len(e) = 1 /\ s[1] = x /\ e[1] = y
    OBVIOUS
  <1>2. s \o << >> = s
    <2> HIDE DEF s
    <2> QED  BY <1>1, ConcatEmptySeq
  <1> HIDE DEF s, e
  <1>3. /\ c \in Seq({x, y}) /\ Len(c) = 2
        /\ \A i \in 1..2 : c[i] = IF i <= 1 THEN s[i] ELSE e[i - 1]
    BY <1>1, ConcatProperties
  <1> HIDE DEF c
  <1>4. c[1] = x /\ c[2] = e[2 - 1]  BY <1>1, <1>3
  <1>5. c = <<x, y>>  BY <1>1, <1>3, <1>4
  <1> QED  BY <1>2, <1>5 DEF s, e, c

\* The views are one or two, by the field.
LEMMA ViewsListed ==
  ASSUME NEW field \in Fields, NEW height \in Nat \ {0}
  PROVE  LET up == Cpu!ActualRows("upper", height)
             low == Cpu!ActualRows("lower", height)
         IN /\ field \in {"upper", "lower", "both"} =>
                   Views(field, height) = <<View(field, 0, Cpu!ImageRows(field, height))>>
            /\ field = "interleaved_upper" /\ height = 1 =>
                   Views(field, height) = <<View("upper", 0, up)>>
            /\ field = "interleaved_upper" /\ height # 1 =>
                   Views(field, height) = <<View("upper", 0, up), View("lower", up, low)>>
            /\ field = "interleaved_lower" /\ height = 1 =>
                   Views(field, height) = <<View("upper", low, up)>>
            /\ field = "interleaved_lower" /\ height # 1 =>
                   Views(field, height) = <<View("upper", low, up), View("lower", 0, low)>>
  <1> DEFINE up == Cpu!ActualRows("upper", height)
             low == Cpu!ActualRows("lower", height)
             Both(a, b) == Present(View("upper", a, up)) \o Present(View("lower", b, low))
  <1>1. /\ up \in Nat \ {0} /\ low \in Nat
        /\ height = 1 => low = 0
        /\ height # 1 => low > 0
    BY HalvesOf
  <1>2. ASSUME field \in {"upper", "lower", "both"}
        PROVE  Views(field, height) = <<View(field, 0, Cpu!ImageRows(field, height))>>
    BY <1>2 DEF Views
  <1>3. ASSUME NEW a, NEW b
        PROVE  /\ height = 1 => Both(a, b) = <<View("upper", a, up)>>
               /\ height # 1 => Both(a, b) = <<View("upper", a, up), View("lower", b, low)>>
    <2> DEFINE x == View("upper", a, up)
               y == View("lower", b, low)
    <2>1. x.rows = up /\ y.rows = low  BY ViewIs
    <2> HIDE DEF x, y
    <2>2. Present(x) = <<x>>  BY <1>1, <2>1 DEF Present
    <2>3. height = 1 => Present(y) = << >>  BY <1>1, <2>1 DEF Present
    <2>4. height # 1 => Present(y) = <<y>>  BY <1>1, <2>1 DEF Present
    <2>5. <<x>> \o << >> = <<x>> /\ <<x>> \o <<y>> = <<x, y>>  BY Joined
    <2> QED  BY <2>2, <2>3, <2>4, <2>5 DEF x, y
  <1>4. ASSUME field = "interleaved_upper"  PROVE Views(field, height) = Both(0, up)
    BY <1>4 DEF Views
  <1>5. ASSUME field = "interleaved_lower"  PROVE Views(field, height) = Both(low, 0)
    BY <1>5 DEF Views
  <1> HIDE DEF up, low, Both
  <1> QED  BY <1>2, <1>3, <1>4, <1>5 DEF up, low

\* A field has a view or two, within its planes and apart from each other.
LEMMA ViewsAre ==
  ASSUME NEW field \in Fields, NEW height \in Nat \ {0}
  PROVE  ViewsOf(Views(field, height), field, height)
  <1> DEFINE up == Cpu!ActualRows("upper", height)
             low == Cpu!ActualRows("lower", height)
             views == Views(field, height)
  <1>1. /\ up \in Nat \ {0} /\ low \in Nat /\ up + low = height
        /\ up = (height + 1) \div 2 /\ low = height \div 2
        /\ height = 1 => up = 1 /\ low = 0
        /\ height # 1 => low > 0
    BY HalvesOf
  <1>2. ASSUME NEW v, views = <<v>>, ViewOf(v, field, height)
        PROVE  ViewsOf(views, field, height)
    BY <1>2 DEF ViewsOf
  <1>3. ASSUME NEW v, NEW u, views = <<v, u>>, ViewOf(v, field, height), ViewOf(u, field, height),
               Apart(v, u)
        PROVE  ViewsOf(views, field, height)
    BY <1>3 DEF ViewsOf, Apart
  <1>4. CASE field \in {"upper", "lower", "both"}
    <2> DEFINE v == View(field, 0, Cpu!ImageRows(field, height))
    <2>1. views = <<v>>  BY <1>4, ViewsListed
    <2>2. v.field = field /\ v.base = 0 /\ v.rows = Cpu!ImageRows(field, height)  BY ViewIs
    <2> HIDE DEF v, views
    <2>3. ViewOf(v, field, height)  BY <1>4, <2>2, ImageRowsIs DEF ViewOf
    <2> QED  BY <2>1, <2>3, <1>2 DEF views
  <1>5. Cpu!ImageRows("upper", height) = up /\ (height # 1 => Cpu!ImageRows("lower", height) = low)
    BY <1>1, ImageRowsIs
  <1>6. ASSUME NEW a, NEW b, a \in {0, low}, b \in {0, up},
               Cpu!ImageRows(field, height) = height, a = 0 <=> b = up,
               height = 1 => views = <<View("upper", a, up)>>,
               height # 1 => views = <<View("upper", a, up), View("lower", b, low)>>
        PROVE  ViewsOf(views, field, height)
    <2> DEFINE v == View("upper", a, up)
               u == View("lower", b, low)
    <2>1. v.field = "upper" /\ v.base = a /\ v.rows = up  BY ViewIs
    <2>2. u.field = "lower" /\ u.base = b /\ u.rows = low  BY ViewIs
    <2>3. height = 1 => views = <<v>>  BY <1>6
    <2>4. height # 1 => views = <<v, u>>  BY <1>6
    <2> HIDE DEF v, u, views, up, low
    <2>5. ViewOf(v, field, height)  BY <2>1, <1>1, <1>5, <1>6 DEF ViewOf
    <2>6. height # 1 => ViewOf(u, field, height) /\ Apart(v, u)
      BY <2>1, <2>2, <1>1, <1>5, <1>6 DEF ViewOf, Apart
    <2> QED  BY <2>3, <2>4, <2>5, <2>6, <1>2, <1>3 DEF views
  <1>7. CASE field = "interleaved_upper"
    <2>1. Cpu!ImageRows(field, height) = height  BY <1>7, ImageRowsIs
    <2>2. /\ height = 1 => views = <<View("upper", 0, up)>>
          /\ height # 1 => views = <<View("upper", 0, up), View("lower", up, low)>>
      BY <1>7, ViewsListed
    <2> HIDE DEF views, up, low
    <2> QED  BY <2>1, <2>2, <1>1, <1>6 DEF views
  <1>8. CASE field = "interleaved_lower"
    <2>1. Cpu!ImageRows(field, height) = height  BY <1>8, ImageRowsIs
    <2>2. /\ height = 1 => views = <<View("upper", low, up)>>
          /\ height # 1 => views = <<View("upper", low, up), View("lower", 0, low)>>
      BY <1>8, ViewsListed
    <2> HIDE DEF views, up, low
    <2> QED  BY <2>1, <2>2, <1>1, <1>6 DEF views
  <1> QED  BY <1>4, <1>7, <1>8 DEF Fields, Cpu!YiqField

\* The rows of the planes that are written to a row of the picture: the row
\* itself if it is of the field, or the rows next to it.
PlaneRow(views, height, q, row) ==
    \E i \in 1..Len(views) : \E r \in 0..(views[i].rows - 1) :
        q = views[i].base + r /\ ViewRow(views[i].field, height, r) = row

\* A row of the picture that a view has.
LEMMA RowInView ==
  ASSUME NEW views, NEW height, NEW i \in 1..Len(views), NEW r \in 0..(views[i].rows - 1),
         NEW q, NEW row, q = views[i].base + r, ViewRow(views[i].field, height, r) = row
  PROVE  PlaneRow(views, height, q, row)
BY DEF PlaneRow

\* A row of the field comes from the one row of the planes that holds it.
LEMMA OwnRowInPlanes ==
  ASSUME NEW field \in Fields, NEW height \in Nat \ {0}, NEW row \in 0..(height - 1),
         OwnRow(field, height, row), NEW p, p.field = field, p.height = height,
         p.rows = Cpu!ImageRows(field, height), p.mode \in {"bob", "skip"},
         p.mode = "skip" /\ field = "lower" => height > 1,
         p.blit.height = height
  PROVE  \E q : PlaneRows(p, row) = {q} /\ PlaneRow(Views(field, height), height, q, row)
  <1> DEFINE up == Cpu!ActualRows("upper", height)
             low == Cpu!ActualRows("lower", height)
             views == Views(field, height)
             nearest == Least(row \div 2, p.rows - 1)
  <1>1. /\ up \in Nat \ {0} /\ low \in Nat /\ up + low = height
        /\ up = (height + 1) \div 2 /\ low = height \div 2
        /\ height = 1 => up = 1 /\ low = 0
        /\ height # 1 => low > 0
        /\ 2 * up \in {height, height + 1} /\ 2 * low \in {height, height - 1}
    BY HalvesOf
  <1>0. /\ row \div 2 \in Nat /\ row % 2 \in {0, 1} /\ row = 2 * (row \div 2) + (row % 2)
    BY Pairs
  <1>2. /\ Cpu!ImageRows("upper", height) = up
        /\ Cpu!ImageRows("lower", height) = IF height = 1 THEN 1 ELSE low
        /\ Cpu!ImageRows("both", height) = height
    BY <1>1, ImageRowsIs
  <1>3. field \in {"upper", "lower", "both"} =>
           views = <<View(field, 0, Cpu!ImageRows(field, height))>>
    BY ViewsListed
  <1> HIDE DEF up, low, views
  <1>4. ASSUME NEW v, views = <<v>>, NEW r \in 0..(v.rows - 1), ViewRow(v.field, height, r) = row
        PROVE  PlaneRow(views, height, v.base + r, row)
    <2>1. 1 \in 1..Len(views) /\ views[1] = v  BY <1>4
    <2> QED  BY <2>1, <1>4, RowInView
  <1>5. CASE field = "both"
    <2> DEFINE v == View(field, 0, Cpu!ImageRows(field, height))
    <2>1. v.field = field /\ v.base = 0 /\ v.rows = height  BY <1>2, <1>5, ViewIs
    <2>2. views = <<v>>  BY <1>3, <1>5
    <2> HIDE DEF v
    <2>3. PlaneRows(p, row) = {row}  BY <1>2, <1>5 DEF PlaneRows, Least
    <2>4. ViewRow(v.field, height, row) = row /\ row \in 0..(v.rows - 1)
      BY <2>1, <1>5 DEF ViewRow
    <2>5. PlaneRow(views, height, v.base + row, row)  BY <2>2, <2>4, <1>4
    <2> QED  BY <2>1, <2>3, <2>5 DEF views
  <1>6. CASE field = "upper" \/ field = "lower"
    <2> DEFINE v == View(field, 0, Cpu!ImageRows(field, height))
    <2>1. v.field = field /\ v.base = 0 /\ v.rows = Cpu!ImageRows(field, height)  BY ViewIs
    <2>2. views = <<v>>  BY <1>3, <1>6
    <2> HIDE DEF v
    <2>3. PlaneRows(p, row) = FieldRows(p, row, nearest)  BY <1>6 DEF PlaneRows
    <2> HIDE DEF nearest
    <2>4. FieldRows(p, row, nearest) = {nearest}
      <3>1. CASE ~OtherFieldsRow(field, row)  BY <3>1 DEF FieldRows
      <3>2. CASE OtherFieldsRow(field, row)
        <4>1. field = "lower" /\ height = 1 /\ row = 0
          BY <3>2, <1>6 DEF OtherFieldsRow, OwnRow
        <4>2. p.mode # "skip"  BY <4>1
        <4> QED  BY <4>1, <4>2, <3>2 DEF FieldRows
      <3> QED  BY <3>1, <3>2
    <2>5. nearest \in 0..(v.rows - 1) /\ ViewRow(field, height, nearest) = row
      <3>1. p.rows = Cpu!ImageRows(field, height)  OBVIOUS
      <3>2. CASE field = "upper"
        <4>1. row % 2 = 0 \/ height = 1  BY <3>2 DEF OwnRow
        <4>2. p.rows = up /\ v.rows = up  BY <3>1, <3>2, <2>1, <1>2
        <4>3. row % 2 = 0  BY <4>1, <1>0
        <4>4. nearest = row \div 2  BY <4>2, <4>3, <1>0, <1>1 DEF nearest, Least
        <4> QED  BY <4>2, <4>3, <4>4, <3>2, <1>0, <1>1 DEF ViewRow
      <3>3. CASE field = "lower" /\ height = 1
        BY <3>1, <3>3, <2>1, <1>1, <1>2 DEF nearest, Least, ViewRow
      <3>4. CASE field = "lower" /\ height # 1
        <4>1. row % 2 = 1  BY <3>4 DEF OwnRow
        <4>2. p.rows = low /\ v.rows = low  BY <3>1, <3>4, <2>1, <1>2
        <4>4. nearest = row \div 2  BY <4>1, <4>2, <1>0, <1>1 DEF nearest, Least
        <4> QED  BY <4>1, <4>2, <4>4, <3>4, <1>0, <1>1 DEF ViewRow
      <3> QED  BY <3>2, <3>3, <3>4, <1>6
    <2>6. PlaneRow(views, height, v.base + nearest, row)  BY <2>1, <2>2, <2>5, <1>4
    <2>7. v.base + nearest = nearest  BY <2>1, <2>5
    <2> QED  BY <2>3, <2>4, <2>6, <2>7 DEF views
  <1>7. ASSUME NEW a \in Nat, NEW b \in Nat,
               field \in {"interleaved_upper", "interleaved_lower"},
               height = 1 => views = <<View("upper", a, up)>>,
               height # 1 => views = <<View("upper", a, up), View("lower", b, low)>>,
               row % 2 = 0 => PlaneRows(p, row) = {a + (row \div 2)},
               row % 2 = 1 => PlaneRows(p, row) = {b + (row \div 2)}
        PROVE  \E q : PlaneRows(p, row) = {q} /\ PlaneRow(views, height, q, row)
    <2> DEFINE v == View("upper", a, up)
               u == View("lower", b, low)
    <2>1. v.field = "upper" /\ v.base = a /\ v.rows = up  BY ViewIs
    <2>2. u.field = "lower" /\ u.base = b /\ u.rows = low  BY ViewIs
    <2>3. /\ height = 1 => views = <<v>>
          /\ height # 1 => views = <<v, u>>
      BY <1>7
    <2> HIDE DEF v, u
    <2>4. 1 \in 1..Len(views) /\ views[1] = v  BY <2>3
    <2>5. ASSUME height # 1  PROVE 2 \in 1..Len(views) /\ views[2] = u
      <3>1. views = <<v, u>>  BY <2>3, <2>5
      <3> QED  BY <3>1
    <2>6. CASE row % 2 = 0
      <3>1. row \div 2 \in 0..(v.rows - 1)  BY <2>1, <2>6, <1>0, <1>1
      <3>2. ViewRow(v.field, height, row \div 2) = row  BY <2>1, <2>6, <1>0 DEF ViewRow
      <3>3. PlaneRow(views, height, a + (row \div 2), row)
        BY <3>1, <3>2, <2>1, <2>4, RowInView
      <3> QED  BY <3>3, <2>6, <1>7
    <2>7. CASE row % 2 = 1
      <3>0. height # 1  BY <2>7, <1>0
      <3>1. row \div 2 \in 0..(u.rows - 1)  BY <2>2, <2>7, <1>0, <1>1
      <3>2. ViewRow(u.field, height, row \div 2) = row  BY <3>0, <2>2, <2>7, <1>0 DEF ViewRow
      <3>3. PlaneRow(views, height, b + (row \div 2), row)
        BY <3>0, <3>1, <3>2, <2>2, <2>5, RowInView
      <3> QED  BY <3>3, <2>7, <1>7
    <2> QED  BY <2>6, <2>7
  <1>8. CASE field = "interleaved_upper"
    <2>1. /\ height = 1 => views = <<View("upper", 0, up)>>
          /\ height # 1 => views = <<View("upper", 0, up), View("lower", up, low)>>
      BY <1>8, ViewsListed DEF views, up, low
    <2>2. PlaneRows(p, row) = {Least((row \div 2) + up * (row % 2), height - 1)}
      BY <1>2, <1>8 DEF PlaneRows
    <2>3. row % 2 = 0 => PlaneRows(p, row) = {0 + (row \div 2)}
      <3> SUFFICES ASSUME row % 2 = 0  PROVE PlaneRows(p, row) = {0 + (row \div 2)}
        OBVIOUS
      <3> DEFINE x == up * (row % 2)
      <3>1. x = 0  BY <1>1
      <3>2. PlaneRows(p, row) = {Least((row \div 2) + x, height - 1)}  BY <2>2
      <3> HIDE DEF x
      <3>3. Least((row \div 2) + x, height - 1) = 0 + (row \div 2)  BY <3>1, <1>0 DEF Least
      <3> QED  BY <3>2, <3>3
    <2>4. row % 2 = 1 => PlaneRows(p, row) = {up + (row \div 2)}
      <3> SUFFICES ASSUME row % 2 = 1  PROVE PlaneRows(p, row) = {up + (row \div 2)}
        OBVIOUS
      <3>1. up * (row % 2) = up  BY <1>1
      <3> QED  BY <3>1, <2>2, <1>0, <1>1 DEF Least
    <2> QED  BY <2>1, <2>3, <2>4, <1>1, <1>7, <1>8 DEF views
  <1>9. CASE field = "interleaved_lower"
    <2>1. /\ height = 1 => views = <<View("upper", low, up)>>
          /\ height # 1 => views = <<View("upper", low, up), View("lower", 0, low)>>
      BY <1>9, ViewsListed DEF views, up, low
    <2> DEFINE image == Cpu!ImageRows("lower", height)
    <2>2. PlaneRows(p, row) = {Least((row \div 2) + image * (1 - (row % 2)), height - 1)}
      BY <1>9 DEF PlaneRows
    <2>5. image = IF height = 1 THEN 1 ELSE low  BY <1>2
    <2> HIDE DEF image
    <2>3. row % 2 = 0 => PlaneRows(p, row) = {low + (row \div 2)}
      <3> SUFFICES ASSUME row % 2 = 0  PROVE PlaneRows(p, row) = {low + (row \div 2)}
        OBVIOUS
      <3> DEFINE x == image * (1 - (row % 2))
      <3>4. 1 - (row % 2) = 1  OBVIOUS
      <3>5. x = image * 1  BY <3>4, Zenon
      <3>6. image * 1 = image  BY <2>5, <1>1
      <3>1. x = image  BY <3>5, <3>6, Zenon
      <3>2. PlaneRows(p, row) = {Least((row \div 2) + x, height - 1)}  BY <2>2
      <3> HIDE DEF x
      <3>3. Least((row \div 2) + x, height - 1) = low + (row \div 2)
        BY <3>1, <2>5, <1>0, <1>1 DEF Least
      <3> QED  BY <3>2, <3>3
    <2>4. row % 2 = 1 => PlaneRows(p, row) = {0 + (row \div 2)}
      <3> SUFFICES ASSUME row % 2 = 1  PROVE PlaneRows(p, row) = {0 + (row \div 2)}
        OBVIOUS
      <3>1. image * (1 - (row % 2)) = 0  BY <2>5, <1>1
      <3> QED  BY <3>1, <2>2, <1>0, <1>1 DEF Least
    <2> QED  BY <2>1, <2>3, <2>4, <1>1, <1>7, <1>9 DEF views
  <1> QED  BY <1>5, <1>6, <1>8, <1>9 DEF Fields, Cpu!YiqField, views

\* The number a view is filtered with is that of its rows.
LEMMA CpuViewIs ==
  ASSUME NEW at, NEW field, NEW height, NEW frame, NEW number
  PROVE  /\ Cpu!View(at, field, height, frame, number).field = field
         /\ Cpu!View(at, field, height, frame, number).frame = number
BY DEF Cpu!View

\* A row is filtered with its number: that of its view.
LEMMA NumberOfView ==
  ASSUME NEW f, f.field \in Fields, f.number \in Nat, NEW height \in Nat \ {0},
         NEW i \in 1..Len(Views(f.field, height)),
         NEW r \in 0..(Views(f.field, height)[i].rows - 1)
  PROVE  NumberOf(Views(f.field, height)[i], f, height)
            = RowNumber(f, ViewRow(Views(f.field, height)[i].field, height, r))
  <1> DEFINE up == Cpu!ActualRows("upper", height)
             low == Cpu!ActualRows("lower", height)
             views == Views(f.field, height)
             cpu == Cpu!CpuViews(f.field, height, f.number)
             N == f.number
  <1>1. /\ up \in Nat \ {0} /\ low \in Nat
        /\ height = 1 => up = 1 /\ low = 0
        /\ height # 1 => low > 0
    BY HalvesOf
  <1>2. ASSUME NEW v, NEW x \in cpu, x.field = v.field, \A y \in cpu : y.field = x.field => y = x
        PROVE  NumberOf(v, f, height) = x.frame
    <2> DEFINE c == CHOOSE y \in cpu : y.field = v.field
    <2>1. c \in cpu /\ c.field = v.field  BY <1>2
    <2>2. c = x  BY <2>1, <1>2
    <2>3. NumberOf(v, f, height) = c.frame  BY DEF NumberOf
    <2> QED  BY <2>2, <2>3
  <1>3. CASE f.field \in {"upper", "lower", "both"}
    <2> DEFINE v == View(f.field, 0, Cpu!ImageRows(f.field, height))
               x == Cpu!View(0, f.field, height, N, N)
    <2>1. views = <<v>> /\ v.field = f.field  BY <1>3, ViewsListed, ViewIs
    <2>2. cpu = {x} /\ x.field = f.field /\ x.frame = N  BY <1>3, CpuViewIs DEF Cpu!CpuViews
    <2> HIDE DEF v, x, cpu
    <2>3. NumberOf(v, f, height) = N  BY <2>1, <2>2, <1>2
    <2>4. \A row : RowNumber(f, row) = N  BY <1>3 DEF RowNumber
    <2>5. i = 1 /\ views[i] = v  BY <2>1
    <2> QED  BY <2>3, <2>4, <2>5
  <1> DEFINE Listed(a, b, x, y, m, n) ==
               /\ m \in Nat /\ n \in Nat
               /\ height = 1 => views = <<View("upper", a, up)>>
               /\ height # 1 => views = <<View("upper", a, up), View("lower", b, low)>>
               /\ x.field = "upper" /\ x.frame = m /\ y.field = "lower" /\ y.frame = n
               /\ x \in cpu /\ (height # 1 => y \in cpu) /\ \A z \in cpu : z \in {x, y}
               /\ \A row \in Nat : /\ row % 2 = 0 => RowNumber(f, row) = m
                                   /\ row % 2 = 1 => RowNumber(f, row) = n
  <1>4. ASSUME NEW a, NEW b, NEW x, NEW y, NEW m, NEW n, Listed(a, b, x, y, m, n)
        PROVE  NumberOf(views[i], f, height) = RowNumber(f, ViewRow(views[i].field, height, r))
    <2> DEFINE v == View("upper", a, up)
               u == View("lower", b, low)
    <2>1. v.field = "upper" /\ v.rows = up /\ u.field = "lower" /\ u.rows = low  BY ViewIs
    <2>2. x.field = "upper" /\ x.frame = m /\ y.field = "lower" /\ y.frame = n  BY <1>4
    <2>3. height = 1 => views = <<v>>  BY <1>4
    <2>4. height # 1 => views = <<v, u>>  BY <1>4
    <2> HIDE DEF v, u, cpu
    <2>6. x \in cpu /\ \A z \in cpu : z.field = "upper" => z = x  BY <1>4, <2>2
    <2>7. height # 1 => y \in cpu  BY <1>4
    <2>8. \A z \in cpu : z.field = "lower" => z = y  BY <1>4, <2>2
    <2>9. CASE views[i] = v
      <3>1. NumberOf(v, f, height) = m  BY <2>1, <2>2, <2>6, <1>2
      <3>2. r \in Nat  BY <1>1, <2>1, <2>9
      <3>3. ViewRow("upper", height, r) \in Nat /\ ViewRow("upper", height, r) % 2 = 0
        BY <3>2 DEF ViewRow
      <3> QED  BY <3>1, <3>3, <2>1, <2>9, <1>4
    <2>10. CASE views[i] = u /\ height # 1
      <3>1. NumberOf(u, f, height) = n  BY <2>1, <2>2, <2>7, <2>8, <2>10, <1>2
      <3>2. r \in Nat  BY <1>1, <2>1, <2>10
      <3>3. ViewRow("lower", height, r) \in Nat /\ ViewRow("lower", height, r) % 2 = 1
        BY <3>2, <2>10 DEF ViewRow
      <3> QED  BY <3>1, <3>3, <2>1, <2>10, <1>4  
    <2> QED
      <3>1. CASE height = 1
        <4>1. views = <<v>>  BY <2>3, <3>1
        <4>2. views[i] = v  BY <4>1
        <4> QED  BY <4>2, <2>9
      <3>2. CASE height # 1
        <4>1. views = <<v, u>>  BY <2>4, <3>2
        <4>2. views[i] = v \/ views[i] = u  BY <4>1
        <4> QED  BY <4>2, <3>2, <2>9, <2>10
      <3> QED  BY <3>1, <3>2
  <1>5. CASE f.field = "interleaved_upper"
    <2>1. /\ height = 1 => views = <<View("upper", 0, up)>>
          /\ height # 1 => views = <<View("upper", 0, up), View("lower", up, low)>>
      BY <1>5, ViewsListed
    <2>3. cpu = {v \in {Cpu!View(0, "upper", height, N, 2 * N + 0),
                        Cpu!View(1, "lower", height, N, 2 * N + 1)} :
                    Cpu!ActualRows(v.field, height) > 0}
      BY <1>5 DEF Cpu!CpuViews
    <2>4. \A row \in Nat : /\ row % 2 = 0 => RowNumber(f, row) = 2 * N + 0
                           /\ row % 2 = 1 => RowNumber(f, row) = 2 * N + 1
      BY <1>5 DEF RowNumber
    <2> DEFINE even == 2 * N + 0
               odd == 2 * N + 1
    <2>5. even \in Nat /\ odd \in Nat  OBVIOUS
    <2> DEFINE x == Cpu!View(0, "upper", height, N, even)
               y == Cpu!View(1, "lower", height, N, odd)
    <2>6. cpu = {v \in {x, y} : Cpu!ActualRows(v.field, height) > 0}
      BY <2>3
    <2>8. x.field = "upper" /\ x.frame = even /\ y.field = "lower" /\ y.frame = odd  BY CpuViewIs
    <2>9. x \in cpu /\ (height # 1 => y \in cpu) /\ \A z \in cpu : z \in {x, y}
      <3> HIDE DEF x, y, cpu
      <3> QED  BY <2>6, <2>8, <1>1
    <2>7. \A row \in Nat : (row % 2 = 0 => RowNumber(f, row) = even) /\ (row % 2 = 1 => RowNumber(f, row) = odd)
      BY <2>4
    <2> HIDE DEF cpu, up, low, even, odd, x, y
    <2>10. Listed(0, up, x, y, even, odd)  BY <2>1, <2>5, <2>7, <2>8, <2>9
    <2> HIDE DEF Listed
    <2> QED  BY <2>10, <1>4
  <1>6. CASE f.field = "interleaved_lower"
    <2>1. /\ height = 1 => views = <<View("upper", low, up)>>
          /\ height # 1 => views = <<View("upper", low, up), View("lower", 0, low)>>
      BY <1>6, ViewsListed
    <2>3. cpu = {v \in {Cpu!View(1, "upper", height, N, 2 * N + 1),
                        Cpu!View(0, "lower", height, N, 2 * N + 0)} :
                    Cpu!ActualRows(v.field, height) > 0}
      BY <1>6 DEF Cpu!CpuViews
    <2>4. \A row \in Nat : /\ row % 2 = 0 => RowNumber(f, row) = 2 * N + 1
                           /\ row % 2 = 1 => RowNumber(f, row) = 2 * N + 0
      BY <1>6 DEF RowNumber
    <2> DEFINE even == 2 * N + 0
               odd == 2 * N + 1
    <2>5. even \in Nat /\ odd \in Nat  OBVIOUS
    <2> DEFINE x == Cpu!View(1, "upper", height, N, odd)
               y == Cpu!View(0, "lower", height, N, even)
    <2>6. cpu = {v \in {x, y} : Cpu!ActualRows(v.field, height) > 0}
      BY <2>3
    <2>8. x.field = "upper" /\ x.frame = odd /\ y.field = "lower" /\ y.frame = even  BY CpuViewIs
    <2>9. x \in cpu /\ (height # 1 => y \in cpu) /\ \A z \in cpu : z \in {x, y}
      <3> HIDE DEF x, y, cpu
      <3> QED  BY <2>6, <2>8, <1>1
    <2>7. \A row \in Nat : (row % 2 = 0 => RowNumber(f, row) = odd) /\ (row % 2 = 1 => RowNumber(f, row) = even)
      BY <2>4
    <2> HIDE DEF cpu, up, low, even, odd, x, y
    <2>10. Listed(low, 0, x, y, odd, even)  BY <2>1, <2>5, <2>7, <2>8, <2>9
    <2> HIDE DEF Listed
    <2> QED  BY <2>10, <1>4
  <1> QED  BY <1>3, <1>5, <1>6 DEF Fields, Cpu!YiqField

\* A row of the other field comes from the rows next to it, or from none.
LEMMA OtherRowInPlanes ==
  ASSUME NEW field \in Fields, NEW height \in Nat \ {0}, NEW row \in 0..(height - 1),
         ~OwnRow(field, height, row), NEW p, p.field = field,
         p.rows = Cpu!ImageRows(field, height), p.mode \in {"bob", "skip"},
         p.blit.height = height
  PROVE  /\ p.mode = "skip" => PlaneRows(p, row) = {}
         /\ p.mode = "bob" =>
              LET near == {row - 1, row + 1} \cap 0..(height - 1)
                  views == Views(field, height)
              IN /\ PlaneRows(p, row) # {}
                 /\ \A q \in PlaneRows(p, row) : \E r \in near : PlaneRow(views, height, q, r)
                 /\ \A r \in near : \E q \in PlaneRows(p, row) : PlaneRow(views, height, q, r)
  <1> DEFINE rows == Cpu!ImageRows(field, height)
             views == Views(field, height)
             nearest == Least(row \div 2, p.rows - 1)
             x == row \div 2
             near == {row - 1, row + 1} \cap 0..(height - 1)
  <1>1. /\ field \in {"upper", "lower"} /\ height # 1
        /\ field = "upper" => row % 2 = 1
        /\ field = "lower" => row % 2 = 0
    BY Pairs DEF OwnRow
  <1>2. /\ x \in Nat
        /\ field = "upper" => row = 2 * x + 1
        /\ field = "lower" => row = 2 * x
    BY <1>1, Pairs
  <1>3. /\ rows \in Nat \ {0}
        /\ field = "upper" => 2 * rows \in {height, height + 1}
        /\ field = "lower" => 2 * rows \in {height, height - 1}
    <2> DEFINE up == Cpu!ActualRows("upper", height)
               low == Cpu!ActualRows("lower", height)
    <2>1. /\ up \in Nat \ {0} /\ low \in Nat /\ low > 0
          /\ up = (height + 1) \div 2 /\ low = height \div 2
          /\ 2 * up \in {height, height + 1} /\ 2 * low \in {height, height - 1}
      BY <1>1, HalvesOf
    <2> HIDE DEF up, low
    <2>2. (field = "upper" => rows = up) /\ (field = "lower" => rows = low)
      BY <2>1, <1>1, ImageRowsIs
    <2> HIDE DEF rows
    <2> QED  BY <2>1, <2>2, <1>1
  <1>4. PlaneRows(p, row) = FieldRows(p, row, nearest) /\ OtherFieldsRow(field, row)
    BY <1>1 DEF PlaneRows, OtherFieldsRow
  <1>5. p.mode = "skip" => PlaneRows(p, row) = {}  BY <1>4 DEF FieldRows
  <1>6. ASSUME NEW r \in 0..(rows - 1)
        PROVE  PlaneRow(views, height, r, IF field = "upper" THEN 2 * r ELSE 2 * r + 1)
    <2> DEFINE v == View(field, 0, rows)
    <2>1. views = <<v>>  BY <1>1, ViewsListed
    <2>2. v.field = field /\ v.base = 0 /\ v.rows = rows  BY ViewIs
    <2> HIDE DEF v, views
    <2>3. 1 \in 1..Len(views) /\ views[1] = v  BY <2>1
    <2>4. ViewRow(v.field, height, r) = IF field = "upper" THEN 2 * r ELSE 2 * r + 1
      BY <1>1, <2>2 DEF ViewRow
    <2>5. r = v.base + r /\ r \in 0..(v.rows - 1)  BY <2>2
    <2> QED  BY <2>3, <2>4, <2>5, RowInView
  <1>7. ASSUME p.mode = "bob"
        PROVE  /\ PlaneRows(p, row) # {}
               /\ \A q \in PlaneRows(p, row) : \E r \in near : PlaneRow(views, height, q, r)
               /\ \A r \in near : \E q \in PlaneRows(p, row) : PlaneRow(views, height, q, r)
    <2>1. PlaneRows(p, row) = IF row \in {0, height - 1} THEN {nearest}
                              ELSE {(row - 1) \div 2, (row + 1) \div 2}
      BY <1>4, <1>7 DEF FieldRows
    <2>2. nearest = IF x <= rows - 1 THEN x ELSE rows - 1  BY DEF Least
    <2> HIDE DEF nearest, x, rows, views
    <2>3. ASSUME NEW q \in 0..(rows - 1), PlaneRows(p, row) = {q},
                 NEW r, near = {r}, r = IF field = "upper" THEN 2 * q ELSE 2 * q + 1
          PROVE  /\ PlaneRows(p, row) # {}
                 /\ \A e \in PlaneRows(p, row) : \E s \in near : PlaneRow(views, height, e, s)
                 /\ \A s \in near : \E e \in PlaneRows(p, row) : PlaneRow(views, height, e, s)
      <3>1. PlaneRow(views, height, q, r)  BY <1>6, <2>3
      <3> HIDE DEF near
      <3> QED  BY <3>1, <2>3
    <2>4. CASE row = height - 1 /\ field = "upper"
      <3>1. nearest = x /\ x \in 0..(rows - 1)  BY <2>2, <2>4, <1>1, <1>2, <1>3
      <3>2. near = {row - 1} /\ row - 1 = 2 * x  BY <2>4, <1>1, <1>2, <1>3
      <3>3. PlaneRows(p, row) = {x}  BY <2>1, <2>4, <3>1
      <3> HIDE DEF near
      <3> QED  BY <3>1, <3>2, <3>3, <2>3, <2>4
    <2>5. CASE row = 0 /\ field = "lower"
      <3>1. nearest = 0 /\ 0 \in 0..(rows - 1)  BY <2>2, <2>5, <1>1, <1>2, <1>3
      <3>2. near = {row + 1} /\ row + 1 = 2 * 0 + 1  BY <2>5, <1>1, <1>2, <1>3
      <3>3. PlaneRows(p, row) = {0}  BY <2>1, <2>5, <3>1
      <3> HIDE DEF near
      <3> QED  BY <3>1, <3>2, <3>3, <2>3, <2>5
    <2>6. CASE row = height - 1 /\ field = "lower" /\ row # 0
      <3>1. nearest = x - 1 /\ x - 1 \in 0..(rows - 1)  BY <2>2, <2>6, <1>1, <1>2, <1>3
      <3>2. near = {row - 1} /\ row - 1 = 2 * (x - 1) + 1  BY <2>6, <1>1, <1>2, <1>3
      <3>3. PlaneRows(p, row) = {x - 1}  BY <2>1, <2>6, <3>1
      <3> HIDE DEF near
      <3> QED  BY <3>1, <3>2, <3>3, <2>3, <2>6
    <2>7. ASSUME NEW a \in 0..(rows - 1), NEW b \in 0..(rows - 1),
                 PlaneRows(p, row) = {a, b}, near = {row - 1, row + 1},
                 row - 1 = IF field = "upper" THEN 2 * a ELSE 2 * a + 1,
                 row + 1 = IF field = "upper" THEN 2 * b ELSE 2 * b + 1
          PROVE  /\ PlaneRows(p, row) # {}
                 /\ \A e \in PlaneRows(p, row) : \E s \in near : PlaneRow(views, height, e, s)
                 /\ \A s \in near : \E e \in PlaneRows(p, row) : PlaneRow(views, height, e, s)
      <3>1. PlaneRow(views, height, a, row - 1) /\ PlaneRow(views, height, b, row + 1)
        BY <1>6, <2>7
      <3> HIDE DEF near
      <3> QED  BY <3>1, <2>7
    <2>8. CASE row \notin {0, height - 1}
      <3>1. near = {row - 1, row + 1}  BY <2>8
      <3>2. PlaneRows(p, row) = {(row - 1) \div 2, (row + 1) \div 2}  BY <2>1, <2>8
      <3>3. CASE field = "upper"
        <4>1. row - 1 = 2 * x /\ row + 1 = 2 * (x + 1)  BY <3>3, <1>2
        <4>2. (row - 1) \div 2 = x /\ (row + 1) \div 2 = x + 1  BY <4>1, <1>2
        <4>3. x \in 0..(rows - 1) /\ x + 1 \in 0..(rows - 1)  BY <2>8, <3>3, <1>2, <1>3
        <4>4. PlaneRows(p, row) = {x, x + 1}  BY <3>2, <4>2
        <4> HIDE DEF near
        <4> QED  BY <3>1, <3>3, <4>1, <4>3, <4>4, <2>7
      <3>4. CASE field = "lower"
        <4>0. x \in Nat \ {0} /\ row = 2 * x  BY <2>8, <3>4, <1>2
        <4>1. row - 1 = 2 * (x - 1) + 1 /\ row + 1 = 2 * x + 1  BY <4>0
        <4>2. (row - 1) \div 2 = x - 1 /\ (row + 1) \div 2 = x  BY <4>0, <4>1
        <4>3. x - 1 \in 0..(rows - 1) /\ x \in 0..(rows - 1)  BY <4>0, <2>8, <3>4, <1>3
        <4>4. PlaneRows(p, row) = {x - 1, x}  BY <3>2, <4>2
        <4>5. field # "upper"  BY <3>4
        <4> HIDE DEF near
        <4> QED  BY <3>1, <4>1, <4>3, <4>4, <4>5, <2>7
      <3> QED  BY <3>3, <3>4, <1>1
    <2>9. row = 0 => field = "lower"  BY <1>2, <1>1
    <2> HIDE DEF near
    <2> QED  BY <2>4, <2>5, <2>6, <2>8, <2>9, <1>1
  <1> QED  BY <1>5, <1>7

-----------------------------------------------------------------------------
(* A frame's picture, and the samples that are read from it                  *)

Length(g) == g.w + g.pad

\* What is common to the pictures of all hosts.
GoodPicture(g) ==
    /\ g.w \in Nat \ {0} /\ g.h \in Nat \ {0} /\ g.pad \in Nat
    /\ g.src_flip \in BOOLEAN /\ g.dst_flip \in BOOLEAN
    /\ g.layer.row \in 0..(g.h - 1) /\ g.layer.column \in 0..(g.w - 1)
    /\ g.layer.height \in Nat \ {0} /\ g.layer.width \in Nat \ {0}
    /\ \/ Least(g.layer.height, g.h - g.layer.row) > 1
       \/ g.h = 1 /\ (g.layer.height = 1 \/ ~g.src_flip)
    /\ g.rect.bottom \in 0..g.h /\ g.rect.top \in 0..g.rect.bottom
    /\ g.rect.right \in 0..g.w /\ g.rect.left \in 0..g.rect.right
    /\ g.dst_flip => g.rect = Rect(0, 0, g.h, g.w)

GoodField(g, f) ==
    /\ f.field \in Fields /\ f.number \in Nat /\ f.mode \in {"bob", "skip"}
    /\ f.mode = "skip" /\ f.field = "lower" => g.h > 1

\* Whether the layer has a pixel there, and the sample read from it.
Covers(g, row, column) ==
    /\ row - g.layer.row \in 0..(g.layer.height - 1)
    /\ column - g.layer.column \in 0..(g.layer.width - 1)

Pixel(g, frame, row, column) ==
    IF Covers(g, row, column) THEN <<frame, row - g.layer.row, column - g.layer.column>> ELSE Blank

\* What all hosts' blits come to.
SetBlit(g) ==
    Blit(Rect(0, 0, Least(g.layer.height, g.h - g.layer.row), Least(g.layer.width, g.w - g.layer.column)),
         Place(g.layer.row, g.layer.column), Length(g), g.layer.height, g.src_flip)
Blitted(g) == Blit(g.rect, Place(g.rect.top, g.rect.left), Length(g), g.h, g.dst_flip)

\* What a blit is made of.
LEMMA BlitIs ==
  ASSUME NEW rect, NEW at, NEW row_length, NEW height, NEW flip_y
  PROVE  LET b == Blit(rect, at, row_length, height, flip_y)
         IN /\ b.rect = rect /\ b.at = at /\ b.row_length = row_length /\ b.height = height
            /\ b.flip_y = flip_y
  BY DEF Blit

\* The blit of the passes that set the views: the part of the layer in the frame.
LEMMA SetBlitIs ==
  ASSUME NEW g, NEW b, b = SetBlit(g)
  PROVE  /\ b.rect.top = 0 /\ b.rect.left = 0
         /\ b.rect.bottom = Least(g.layer.height, g.h - g.layer.row)
         /\ b.rect.right = Least(g.layer.width, g.w - g.layer.column)
         /\ b.at.row = g.layer.row /\ b.at.column = g.layer.column
         /\ b.height = g.layer.height /\ b.flip_y = g.src_flip
  <1> DEFINE rect == Rect(0, 0, Least(g.layer.height, g.h - g.layer.row),
                          Least(g.layer.width, g.w - g.layer.column))
             at == Place(g.layer.row, g.layer.column)
  <1>1. /\ rect.top = 0 /\ rect.left = 0
        /\ rect.bottom = Least(g.layer.height, g.h - g.layer.row)
        /\ rect.right = Least(g.layer.width, g.w - g.layer.column)
    BY DEF Rect
  <1>2. at.row = g.layer.row /\ at.column = g.layer.column  BY DEF Place
  <1> HIDE DEF rect, at
  <1>3. b = Blit(rect, at, Length(g), g.layer.height, g.src_flip)  BY DEF SetBlit, rect, at
  <1>4. b.rect = rect /\ b.at = at /\ b.height = g.layer.height /\ b.flip_y = g.src_flip
    BY <1>3, BlitIs
  <1> QED  BY <1>1, <1>2, <1>4

\* A field's rows of a rectangle in a picture of whose rows the field has every other.
Halves(H, lr, rh, e, q, rows, all, skip) ==
    /\ {H, lr, rh, rows, all, skip} \subseteq Nat /\ {e, q} \subseteq {0, 1} /\ lr + rh <= H
    /\ 2 * rows \in {rh - e, rh - e + 1} /\ 2 * all \in {H - q, H - q + 1}
    /\ 2 * skip = lr + e - q

\* Of a picture's rows and those of a rectangle in it, every second one.
LEMMA HalfRows ==
  ASSUME NEW H, NEW lr, NEW rh, NEW e, NEW q, NEW rows, NEW all, NEW skip,
         Halves(H, lr, rh, e, q, rows, all, skip)
  PROVE  /\ skip + rows <= all
         /\ \A idx \in 0..(rows - 1) : 2 * idx + e \in 0..(rh - 1) /\ 2 * idx + e = 2 * (skip + idx) + q - lr
         /\ \A r \in 0..(all - 1) :
                /\ 2 * r + q \in 0..(H - 1)
                /\ 2 * r + q - lr \in 0..(rh - 1) => r - skip \in 0..(rows - 1)
  <1> USE DEF Halves
  <1>1. skip + rows <= all  OBVIOUS
  <1>2. ASSUME NEW idx \in 0..(rows - 1)
        PROVE  2 * idx + e \in 0..(rh - 1) /\ 2 * idx + e = 2 * (skip + idx) + q - lr
    OBVIOUS
  <1>3. ASSUME NEW r \in 0..(all - 1)
        PROVE  /\ 2 * r + q \in 0..(H - 1)
               /\ 2 * r + q - lr \in 0..(rh - 1) => r - skip \in 0..(rows - 1)
    OBVIOUS
  <1> QED  BY <1>1, <1>2, <1>3

\* The rows of a view that are read, and the row each of them is read from: the
\* one that the layer has at the view's row of the picture.
LEMMA RowsRead ==
  ASSUME NEW g, GoodPicture(g), NEW field, NEW v, ViewOf(v, field, g.h)
  PROVE  LET b == SetBlit(g)
             rows == RectRows(v, b)
             skip == SkippedRows(v.field, g.layer.row)
         IN /\ rows \in Nat /\ skip \in Nat /\ skip + rows <= v.rows
            /\ \A idx \in 0..(rows - 1) :
                  LET row == ViewRow(v.field, g.h, skip + idx) - g.layer.row
                      m == SourceRow(v, b, idx)
                  IN /\ row \in 0..(g.layer.height - 1) /\ m \in 0..(g.layer.height - 1)
                     /\ row = IF g.src_flip THEN g.layer.height - 1 - m ELSE m
            /\ \A r \in 0..(v.rows - 1) :
                  ViewRow(v.field, g.h, r) - g.layer.row \in 0..(g.layer.height - 1)
                     => r - skip \in 0..(rows - 1)
  <1> DEFINE b == SetBlit(g)
             lr == g.layer.row
             lh == g.layer.height
             rh == Least(g.layer.height, g.h - g.layer.row)
             H == g.h
             rows == RectRows(v, b)
             skip == SkippedRows(v.field, g.layer.row)
             Row(idx) == IF Height(b.rect) = 1 THEN 0
                         ELSE CASE RectField(v.field, lr) = "upper" -> 2 * idx
                                [] RectField(v.field, lr) = "lower" -> 2 * idx + 1
                                [] OTHER -> idx
  <1>1. /\ H \in Nat \ {0} /\ lr \in 0..(H - 1) /\ lh \in Nat \ {0} /\ g.src_flip \in BOOLEAN
        /\ rh > 1 \/ (H = 1 /\ (lh = 1 \/ ~g.src_flip))
    BY DEF GoodPicture
  <1>2. rh \in Nat \ {0} /\ rh <= lh /\ lr + rh <= H /\ (rh = lh \/ lr + rh = H)
    BY <1>1 DEF Least
  <1>3. /\ b.rect.top = 0 /\ b.rect.bottom = rh /\ b.at.row = lr
        /\ b.height = lh /\ b.flip_y = g.src_flip
    BY SetBlitIs
  <1>4. v.field \in {"upper", "lower", "both"} /\ v.rows = Cpu!ImageRows(v.field, H)
    BY DEF ViewOf
  <1> HIDE DEF b, rows, skip, rh
  <1>5. Height(b.rect) = rh  BY <1>2, <1>3 DEF Height
  <1>6. rows = Cpu!ImageRows(RectField(v.field, lr), rh)  BY <1>3, <1>5 DEF rows, RectRows
  <1>7. ASSUME NEW idx \in Nat, Row(idx) \in 0..(lh - 1), rh = 1 => H = 1
        PROVE  /\ SourceRow(v, b, idx) \in 0..(lh - 1)
               /\ Row(idx) = IF g.src_flip THEN lh - 1 - SourceRow(v, b, idx) ELSE SourceRow(v, b, idx)
    <2>1. CASE rh = 1
      <3>1. SourceRow(v, b, idx) = 0  BY <2>1, <1>5 DEF SourceRow
      <3>2. Row(idx) = 0  BY <2>1, <1>5
      <3>3. ~g.src_flip \/ lh = 1  BY <1>1, <2>1
      <3> HIDE DEF Row
      <3> QED  BY <3>1, <3>2, <3>3, <1>1
    <2>2. CASE rh # 1
      <3>1. SourceRow(v, b, idx) = IF g.src_flip THEN lh - Row(idx) - 1 ELSE Row(idx)
        <4> DEFINE field2 == RectField(v.field, lr)
        <4>1. field2 \in {"upper", "lower", "both"}  BY <1>4 DEF RectField, Flip
        <4>2. RectField(v.field, b.at.row) = field2 /\ b.rect.top = 0  BY <1>3
        <4> HIDE DEF field2
        <4>3. CASE field2 = "upper"
          <5>1. Row(idx) = 2 * idx  BY <2>2, <4>3, <1>5 DEF field2
          <5>2. SourceRow(v, b, idx) = IF g.src_flip THEN lh - 2 * idx - 1 ELSE 2 * idx
            BY <2>2, <4>2, <4>3, <1>3, <1>5 DEF SourceRow
          <5> HIDE DEF Row
          <5> QED  BY <5>1, <5>2
        <4>4. CASE field2 = "lower"
          <5>1. Row(idx) = 2 * idx + 1  BY <2>2, <4>4, <1>5 DEF field2
          <5>2. SourceRow(v, b, idx) = IF g.src_flip THEN lh - (2 * idx + 1) - 1 ELSE 2 * idx + 1
            BY <2>2, <4>2, <4>4, <1>3, <1>5 DEF SourceRow
          <5> HIDE DEF Row
          <5> QED  BY <5>1, <5>2
        <4>5. CASE field2 = "both"
          <5>1. Row(idx) = idx  BY <2>2, <4>5, <1>5 DEF field2
          <5>2. SourceRow(v, b, idx) = IF g.src_flip THEN lh - idx - 1 ELSE idx
            BY <2>2, <4>2, <4>5, <1>3, <1>5 DEF SourceRow
          <5> HIDE DEF Row
          <5> QED  BY <5>1, <5>2
        <4> QED  BY <4>1, <4>3, <4>4, <4>5
      <3> HIDE DEF Row
      <3> QED  BY <3>1, <1>1, <1>7
    <2> QED  BY <2>1, <2>2
  <1>8. ASSUME rows \in Nat, skip \in Nat, skip + rows <= v.rows,
               \A idx \in 0..(rows - 1) :
                  Row(idx) \in 0..(rh - 1) /\ Row(idx) = ViewRow(v.field, H, skip + idx) - lr,
               \A r \in 0..(v.rows - 1) :
                  ViewRow(v.field, H, r) - lr \in 0..(rh - 1) => r - skip \in 0..(rows - 1),
               \A r \in 0..(v.rows - 1) : ViewRow(v.field, H, r) \in 0..(H - 1)
        PROVE  /\ \A idx \in 0..(rows - 1) :
                     LET row == ViewRow(v.field, H, skip + idx) - lr
                         m == SourceRow(v, b, idx)
                     IN /\ row \in 0..(lh - 1) /\ m \in 0..(lh - 1)
                        /\ row = IF g.src_flip THEN lh - 1 - m ELSE m
               /\ \A r \in 0..(v.rows - 1) :
                     ViewRow(v.field, H, r) - lr \in 0..(lh - 1) => r - skip \in 0..(rows - 1)
    <2>1. rh = 1 => H = 1  BY <1>1
    <2>2. ASSUME NEW idx \in 0..(rows - 1)
          PROVE  LET row == ViewRow(v.field, H, skip + idx) - lr
                     m == SourceRow(v, b, idx)
                 IN /\ row \in 0..(lh - 1) /\ m \in 0..(lh - 1)
                    /\ row = IF g.src_flip THEN lh - 1 - m ELSE m
      <3> HIDE DEF Row
      <3>1. idx \in Nat /\ Row(idx) = ViewRow(v.field, H, skip + idx) - lr /\ Row(idx) \in 0..(rh - 1)
        BY <1>8
      <3>2. Row(idx) \in 0..(lh - 1)  BY <3>1, <1>1, <1>2
      <3>3. /\ SourceRow(v, b, idx) \in 0..(lh - 1)
            /\ Row(idx) = IF g.src_flip THEN lh - 1 - SourceRow(v, b, idx) ELSE SourceRow(v, b, idx)
        BY <2>1, <3>1, <3>2, <1>7
      <3> QED  BY <3>1, <3>2, <3>3
    <2>3. ASSUME NEW r \in 0..(v.rows - 1), ViewRow(v.field, H, r) - lr \in 0..(lh - 1)
          PROVE  r - skip \in 0..(rows - 1)
      <3> DEFINE row == ViewRow(v.field, H, r)
      <3>1. row \in 0..(H - 1)  BY <1>8
      <3>2. row - lr \in 0..(lh - 1)  BY <2>3
      <3> HIDE DEF row
      <3>3. row - lr \in 0..(rh - 1)  BY <3>1, <3>2, <1>1, <1>2
      <3> QED  BY <3>3, <1>8 DEF row
    <2> QED  BY <2>2, <2>3
  <1> DEFINE Goal == /\ rows \in Nat /\ skip \in Nat /\ skip + rows <= v.rows
                     /\ \A idx \in 0..(rows - 1) :
                          Row(idx) \in 0..(rh - 1) /\ Row(idx) = ViewRow(v.field, H, skip + idx) - lr
                     /\ \A r \in 0..(v.rows - 1) :
                          ViewRow(v.field, H, r) - lr \in 0..(rh - 1) => r - skip \in 0..(rows - 1)
                     /\ \A r \in 0..(v.rows - 1) : ViewRow(v.field, H, r) \in 0..(H - 1)
  <1>9. /\ lr \div 2 \in Nat /\ lr % 2 \in {0, 1} /\ lr = 2 * (lr \div 2) + (lr % 2)
    BY <1>1, Pairs
  <1> DEFINE a == lr \div 2
  <1>10. ASSUME NEW n \in Nat \ {0}
         PROVE  /\ Cpu!ImageRows("upper", n) \in Nat /\ 2 * Cpu!ImageRows("upper", n) \in {n, n + 1}
                /\ n # 1 => /\ Cpu!ImageRows("lower", n) \in Nat
                            /\ 2 * Cpu!ImageRows("lower", n) \in {n, n - 1}
                /\ Cpu!ImageRows("both", n) = n
                /\ n = 1 => Cpu!ImageRows("lower", n) = 1
    <2> DEFINE up == Cpu!ActualRows("upper", n)
               low == Cpu!ActualRows("lower", n)
    <2>1. /\ up \in Nat \ {0} /\ low \in Nat
          /\ up = (n + 1) \div 2 /\ low = n \div 2
          /\ 2 * up \in {n, n + 1} /\ 2 * low \in {n, n - 1}
      BY HalvesOf
    <2> HIDE DEF up, low
    <2> QED  BY <2>1, ImageRowsIs
  <1>11. ASSUME v.field = "both"  PROVE Goal
    <2>1. RectField(v.field, lr) = "both" /\ skip = lr
      BY <1>11 DEF RectField, Flip, SkippedRows, skip
    <2>2. rows = rh /\ v.rows = H  BY <2>1, <1>2, <1>4, <1>6, <1>10, <1>11, <1>1
    <2>3. ASSUME NEW idx \in 0..(rows - 1)  PROVE Row(idx) = idx
      BY <2>1, <2>2, <2>3, <1>5
    <2>4. \A r : ViewRow(v.field, H, r) = r  BY <1>11 DEF ViewRow
    <2> HIDE DEF Row
    <2> QED  BY <2>1, <2>2, <2>3, <2>4, <1>1, <1>2
  <1>12. ASSUME v.field # "both" /\ H = 1  PROVE Goal
    <2>1. lr = 0 /\ rh = 1  BY <1>1, <1>2, <1>12
    <2>2. RectField(v.field, lr) = v.field /\ skip = 0
      BY <2>1, <1>4, <1>12 DEF RectField, SkippedRows, skip, DivCeil
    <2>3. rows = 1 /\ v.rows = 1
      BY <2>1, <2>2, <1>4, <1>6, <1>10, <1>12
    <2>4. Row(0) = 0  BY <2>1, <1>5
    <2>5. ViewRow(v.field, H, 0) = 0  BY <1>4, <1>12 DEF ViewRow
    <2> HIDE DEF Row
    <2> QED  BY <2>1, <2>2, <2>3, <2>4, <2>5, <1>1, <1>12
  <1> DEFINE RowsAre(e) == \A idx \in 0..(rows - 1) : Row(idx) = 2 * idx + e
             ViewRowsAre(q) == \A r \in Nat : ViewRow(v.field, H, r) = 2 * r + q
             Half(e, q) == /\ e \in {0, 1} /\ q \in {0, 1} /\ rows \in Nat /\ v.rows \in Nat
                           /\ 2 * rows \in {rh - e, rh - e + 1}
                           /\ 2 * v.rows \in {H - q, H - q + 1}
                           /\ skip \in Nat /\ 2 * skip = lr + e - q
                           /\ RowsAre(e) /\ ViewRowsAre(q)
  <1>13. ASSUME NEW e, NEW q, Half(e, q)  PROVE Goal
    <2>0. Halves(H, lr, rh, e, q, rows, v.rows, skip)  BY <1>1, <1>2, <1>13 DEF Halves
    <2>1. /\ skip + rows <= v.rows
          /\ \A idx \in 0..(rows - 1) : 2 * idx + e \in 0..(rh - 1) /\ 2 * idx + e = 2 * (skip + idx) + q - lr
          /\ \A r \in 0..(v.rows - 1) :
                /\ 2 * r + q \in 0..(H - 1)
                /\ 2 * r + q - lr \in 0..(rh - 1) => r - skip \in 0..(rows - 1)
      BY <2>0, HalfRows
    <2> HIDE DEF Row
    <2>2. \A idx \in 0..(rows - 1) : skip + idx \in Nat  BY <1>13
    <2>4. \A idx \in 0..(rows - 1) : Row(idx) = 2 * idx + e  BY <1>13
    <2>5. \A r \in Nat : ViewRow(v.field, H, r) = 2 * r + q  BY <1>13
    <2>6. rows \in Nat /\ skip \in Nat  BY <1>13
    <2>9. e \in Int /\ q \in Int /\ lr \in Int /\ H \in Int /\ rh \in Int /\ v.rows \in Int
      BY <1>1, <1>2, <1>13
    <2>3. \A r \in 0..(v.rows - 1) : r \in Nat  OBVIOUS
    <2>7. ASSUME NEW idx \in 0..(rows - 1)
          PROVE  Row(idx) \in 0..(rh - 1) /\ Row(idx) = ViewRow(v.field, H, skip + idx) - lr
      <3>1. Row(idx) = 2 * idx + e /\ ViewRow(v.field, H, skip + idx) = 2 * (skip + idx) + q
        BY <2>2, <2>4, <2>5
      <3>2. 2 * idx + e \in 0..(rh - 1) /\ 2 * idx + e = 2 * (skip + idx) + q - lr  BY <2>1
      <3>3. Row(idx) \in 0..(rh - 1)  BY <3>1, <3>2
      <3> DEFINE x == 2 * (skip + idx) + q
      <3>4. Row(idx) = x - lr /\ ViewRow(v.field, H, skip + idx) = x
        BY <3>1, <3>2, <2>6, <2>9
      <3> HIDE DEF x, Row
      <3> QED  BY <3>3, <3>4
    <2>8. ASSUME NEW r \in 0..(v.rows - 1)
          PROVE  /\ ViewRow(v.field, H, r) - lr \in 0..(rh - 1) => r - skip \in 0..(rows - 1)
                 /\ ViewRow(v.field, H, r) \in 0..(H - 1)
      <3>1. ViewRow(v.field, H, r) = 2 * r + q  BY <2>3, <2>5
      <3>2. /\ 2 * r + q \in 0..(H - 1)
            /\ 2 * r + q - lr \in 0..(rh - 1) => r - skip \in 0..(rows - 1)
        BY <2>1
      <3> DEFINE x == 2 * r + q
                 row == ViewRow(v.field, H, r)
      <3>3. row = x /\ x \in 0..(H - 1) /\ (x - lr \in 0..(rh - 1) => r - skip \in 0..(rows - 1))
        BY <3>1, <3>2, <2>6, <2>9
      <3> HIDE DEF x
      <3>4. row \in 0..(H - 1) /\ (row - lr \in 0..(rh - 1) => r - skip \in 0..(rows - 1))
        BY <3>3
      <3> QED  BY <3>4
    <2> QED  BY <2>1, <2>6, <2>7, <2>8
  <1>14. ASSUME v.field = "upper" /\ H # 1  PROVE Goal
    <2>1. \A r \in Nat : ViewRow(v.field, H, r) = 2 * r + 0  BY <1>14 DEF ViewRow
    <2>2. v.rows \in Nat /\ 2 * v.rows \in {H - 0, H - 0 + 1}  BY <1>14, <1>1, <1>4, <1>10
    <2>3. CASE lr % 2 = 0
      <3>1. RectField(v.field, lr) = "upper"  BY <1>14, <2>3 DEF RectField
      <3>2. skip \in Nat /\ 2 * skip = lr + 0 - 0
        <4>1. skip = DivCeil(lr, 2)  BY <1>14 DEF skip, SkippedRows
        <4>2. (lr + 2 - 1) \div 2 = a  BY <1>9, <2>3
        <4> QED  BY <4>1, <4>2, <1>9, <2>3 DEF DivCeil
      <3>3. rows \in Nat /\ 2 * rows \in {rh - 0, rh - 0 + 1}  BY <3>1, <1>2, <1>6, <1>10
      <3>4. \A idx \in 0..(rows - 1) : Row(idx) = 2 * idx + 0  BY <3>1, <3>3, <1>1, <1>5, <1>14
      <3>5. ViewRowsAre(0) /\ RowsAre(0)  BY <2>1, <3>4
      <3> HIDE DEF Goal, Row, RowsAre, ViewRowsAre
      <3>6. Half(0, 0)  BY <2>2, <3>2, <3>3, <3>5
      <3> HIDE DEF Half
      <3> QED  BY <3>6, <1>13
    <2>4. CASE lr % 2 = 1
      <3>1. RectField(v.field, lr) = "lower"  BY <1>14, <2>4 DEF RectField, Flip
      <3>2. skip \in Nat /\ 2 * skip = lr + 1 - 0
        <4>1. skip = DivCeil(lr, 2)  BY <1>14 DEF skip, SkippedRows
        <4>2. (lr + 2 - 1) \div 2 = a + 1  BY <1>9, <2>4
        <4> QED  BY <4>1, <4>2, <1>9, <2>4 DEF DivCeil
      <3>3. rows \in Nat /\ 2 * rows \in {rh - 1, rh - 1 + 1}
        BY <3>1, <1>1, <1>2, <1>6, <1>10, <1>14
      <3>4. \A idx \in 0..(rows - 1) : Row(idx) = 2 * idx + 1  BY <3>1, <3>3, <1>1, <1>5, <1>14
      <3>5. ViewRowsAre(0) /\ RowsAre(1)  BY <2>1, <3>4
      <3> HIDE DEF Goal, Row, RowsAre, ViewRowsAre
      <3>6. Half(1, 0)  BY <2>2, <3>2, <3>3, <3>5
      <3> HIDE DEF Half
      <3> QED  BY <3>6, <1>13
    <2> QED  BY <2>3, <2>4, <1>9
  <1>15. ASSUME v.field = "lower" /\ H # 1  PROVE Goal
    <2>1. \A r \in Nat : ViewRow(v.field, H, r) = 2 * r + 1  BY <1>15 DEF ViewRow
    <2>2. v.rows \in Nat /\ 2 * v.rows \in {H - 1, H - 1 + 1}  BY <1>15, <1>1, <1>4, <1>10
    <2>3. skip = a  BY <1>15 DEF skip, SkippedRows
    <2>4. CASE lr % 2 = 0
      <3>1. RectField(v.field, lr) = "lower"  BY <1>15, <2>4 DEF RectField
      <3>2. skip \in Nat /\ 2 * skip = lr + 1 - 1  BY <2>3, <2>4, <1>9
      <3>3. rows \in Nat /\ 2 * rows \in {rh - 1, rh - 1 + 1}
        BY <3>1, <1>1, <1>2, <1>6, <1>10, <1>15
      <3>4. \A idx \in 0..(rows - 1) : Row(idx) = 2 * idx + 1  BY <3>1, <3>3, <1>1, <1>5, <1>15
      <3>5. ViewRowsAre(1) /\ RowsAre(1)  BY <2>1, <3>4
      <3> HIDE DEF Goal, Row, RowsAre, ViewRowsAre
      <3>6. Half(1, 1)  BY <2>2, <3>2, <3>3, <3>5
      <3> HIDE DEF Half
      <3> QED  BY <3>6, <1>13
    <2>5. CASE lr % 2 = 1
      <3>1. RectField(v.field, lr) = "upper"  BY <1>15, <2>5 DEF RectField, Flip
      <3>2. skip \in Nat /\ 2 * skip = lr + 0 - 1  BY <2>3, <2>5, <1>9
      <3>3. rows \in Nat /\ 2 * rows \in {rh - 0, rh - 0 + 1}  BY <3>1, <1>2, <1>6, <1>10
      <3>4. \A idx \in 0..(rows - 1) : Row(idx) = 2 * idx + 0  BY <3>1, <3>3, <1>1, <1>5, <1>15
      <3>5. ViewRowsAre(1) /\ RowsAre(0)  BY <2>1, <3>4
      <3> HIDE DEF Goal, Row, RowsAre, ViewRowsAre
      <3>6. Half(0, 1)  BY <2>2, <3>2, <3>3, <3>5
      <3> HIDE DEF Half
      <3> QED  BY <3>6, <1>13
    <2> QED  BY <2>4, <2>5, <1>9
  <1>16. Goal
    <2> HIDE DEF Goal
    <2> QED  BY <1>4, <1>11, <1>12, <1>14, <1>15
  <1> HIDE DEF Row
  <1> QED  BY <1>8, <1>16 DEF b, rows, skip

\* The sample that is read for a view's row and column is the one that the layer
\* has there.
ReadAt(g, v, idx, column) ==
    /\ idx \in 0..(RectRows(v, SetBlit(g)) - 1)
    /\ column \in Int /\ column - g.layer.column \in 0..(Width(SetBlit(g).rect) - 1)

\* The sample read for a row and a column is the layer's pixel there.
LEMMA SampleRead ==
  ASSUME NEW g, GoodPicture(g), NEW field, NEW v, ViewOf(v, field, g.h), NEW frame,
         NEW idx, NEW column, ReadAt(g, v, idx, column)
  PROVE  Memory(g, frame)[SourceRow(v, SetBlit(g), idx)]
                         [column - g.layer.column + SetBlit(g).rect.left]
            = Pixel(g, frame, ViewRow(v.field, g.h, SkippedRows(v.field, g.layer.row) + idx), column)
  <1> DEFINE b == SetBlit(g)
             m == SourceRow(v, b, idx)
             j == column - g.layer.column
             row == ViewRow(v.field, g.h, SkippedRows(v.field, g.layer.row) + idx)
  <1> USE DEF ReadAt
  <1>1. /\ g.layer.height \in Nat \ {0} /\ g.layer.width \in Nat \ {0}
        /\ g.layer.column \in 0..(g.w - 1) /\ g.w \in Nat \ {0}
    BY DEF GoodPicture
  <1>2. /\ row - g.layer.row \in 0..(g.layer.height - 1) /\ m \in 0..(g.layer.height - 1)
        /\ row - g.layer.row = IF g.src_flip THEN g.layer.height - 1 - m ELSE m
    BY RowsRead
  <1>3. b.rect.left = 0 /\ b.rect.right = Least(g.layer.width, g.w - g.layer.column)
    BY SetBlitIs
  <1>4. j \in 0..(g.layer.width - 1) /\ j + b.rect.left = j
    BY <1>1, <1>3 DEF Width, Least
  <1>5. Memory(g, frame)[m][j]
           = <<frame, IF g.src_flip THEN g.layer.height - 1 - m ELSE m, j>>
    <2> HIDE DEF m, j
    <2> QED  BY <1>2, <1>4 DEF Memory
  <1>6. Memory(g, frame)[m][j] = <<frame, row - g.layer.row, j>>  BY <1>2, <1>5
  <1>7. Covers(g, row, column)  BY <1>2, <1>4 DEF Covers
  <1>8. Pixel(g, frame, row, column) = <<frame, row - g.layer.row, j>>  BY <1>7 DEF Pixel
  <1> HIDE DEF b, m, j, row
  <1>9. Memory(g, frame)[m][j + b.rect.left] = Pixel(g, frame, row, column)  BY <1>4, <1>6, <1>8
  <1> QED  BY <1>9 DEF b, m, j, row

\* A column that is not read has no pixel of the layer.
LEMMA ColumnNotRead ==
  ASSUME NEW g, GoodPicture(g), NEW column \in 0..(g.w - 1),
         column - g.layer.column \notin 0..(Width(SetBlit(g).rect) - 1)
  PROVE  column - g.layer.column \notin 0..(g.layer.width - 1)
  <1>1. SetBlit(g).rect.left = 0 /\ SetBlit(g).rect.right = Least(g.layer.width, g.w - g.layer.column)
    BY SetBlitIs
  <1>2. /\ g.layer.width \in Nat \ {0} /\ g.layer.column \in 0..(g.w - 1) /\ g.w \in Nat \ {0}
    BY DEF GoodPicture
  <1> QED  BY <1>1, <1>2 DEF Width, Least

\* The columns that are read fit into the frame's rows.
LEMMA ColumnsFit ==
  ASSUME NEW g, GoodPicture(g)
  PROVE  Width(SetBlit(g).rect) \in Nat /\ g.layer.column + Width(SetBlit(g).rect) <= g.w
  <1>1. SetBlit(g).rect.left = 0 /\ SetBlit(g).rect.right = Least(g.layer.width, g.w - g.layer.column)
    BY SetBlitIs
  <1>2. /\ g.layer.width \in Nat \ {0} /\ g.layer.column \in 0..(g.w - 1) /\ g.w \in Nat \ {0}
    BY DEF GoodPicture
  <1> QED  BY <1>1, <1>2 DEF Width, Least

\* Where a frame's rectangle is written, in the order of the memory's rows.
MemoryRow(g, m) == IF g.dst_flip THEN g.h - 1 - m ELSE m

\* The blit of the pass that writes: the rectangle that a host asks for.
LEMMA WriteBlitIs ==
  ASSUME NEW g, GoodPicture(g), NEW b, b = WriteBlit(Blitted(g))
  PROVE  /\ b.at.row = g.rect.top /\ b.at.column = g.rect.left
         /\ b.rect.top = g.rect.top /\ b.rect.left = g.rect.left
         /\ Width(b.rect) = g.rect.right - g.rect.left
         /\ Height(b.rect) = g.rect.bottom - g.rect.top
         /\ b.row_length = Length(g) /\ b.height = g.h /\ b.flip_y = g.dst_flip
         /\ \A idx \in Nat : PictureRow(b, idx) = MemoryRow(g, g.rect.top + idx)
  <1> DEFINE at == Place(g.rect.top, g.rect.left)
             c == Blitted(g)
  <1>1. at.row = g.rect.top /\ at.column = g.rect.left  BY DEF Place
  <1>2. at = [row |-> at.row, column |-> at.column]  BY DEF Place
  <1> HIDE DEF at
  <1>3. /\ c.rect = g.rect /\ c.at = at /\ c.row_length = Length(g) /\ c.height = g.h
        /\ c.flip_y = g.dst_flip
    BY BlitIs DEF Blitted, at
  <1>4. c = [rect |-> g.rect, at |-> at, row_length |-> Length(g), height |-> g.h, flip_y |-> g.dst_flip]
    BY DEF Blitted, Blit, at
  <1> HIDE DEF c
  <1>5. /\ g.h \in Nat \ {0} /\ g.rect.bottom \in 0..g.h /\ g.rect.top \in 0..g.rect.bottom
        /\ g.rect.right \in 0..g.w /\ g.rect.left \in 0..g.rect.right
        /\ g.dst_flip \in BOOLEAN /\ (g.dst_flip => g.rect.top = 0 /\ g.rect.bottom = g.h)
    BY DEF GoodPicture, Rect
  <1>6. CASE ~g.dst_flip
    <2>1. b = c  BY <1>3, <1>6 DEF WriteBlit, c
    <2>2. \A idx \in Nat : PictureRow(b, idx) = g.rect.top + idx
      BY <2>1, <1>3, <1>6 DEF PictureRow
    <2>3. \A idx \in Nat : MemoryRow(g, g.rect.top + idx) = g.rect.top + idx
      BY <1>6 DEF MemoryRow
    <2> QED  BY <2>1, <2>2, <2>3, <1>1, <1>3 DEF Width, Height
  <1>7. CASE g.dst_flip
    <2> DEFINE rect == [c.rect EXCEPT !.top = c.height - c.rect.bottom,
                                      !.bottom = c.height - c.rect.top]
               row == c.height - (Height(c.rect) + c.at.row)
    <2>1. b = [c EXCEPT !.rect = rect, !.at.row = row]
      BY <1>3, <1>7 DEF WriteBlit, Flipped, c
    <2>2. /\ g.h - g.rect.bottom = 0 /\ g.h - g.rect.top = g.h /\ row = 0
      BY <1>1, <1>3, <1>5, <1>7 DEF Height
    <2>3. g.rect = [top |-> 0, left |-> 0, bottom |-> g.h, right |-> g.w]
      BY <1>7 DEF GoodPicture, Rect
    <2>4. rect = [g.rect EXCEPT !.top = 0, !.bottom = g.h]  BY <1>3, <2>2
    <2>5. rect.left = g.rect.left /\ rect.right = g.rect.right
      BY <1>3
    <2> HIDE DEF row
    <2>6. b.rect = rect
      <3> HIDE DEF rect
      <3> QED  BY <2>1, <1>4
    <2>7. b.at = [at EXCEPT !.row = row]
      <3> HIDE DEF rect
      <3> QED  BY <2>1, <1>4
    <2>8. b.row_length = Length(g) /\ b.height = g.h /\ b.flip_y = g.dst_flip
      <3> HIDE DEF rect
      <3> QED  BY <2>1, <1>4
    <2>9. b.at.row = 0 /\ b.at.column = g.rect.left
      <3> HIDE DEF rect
      <3>1. at = [row |-> g.rect.top, column |-> g.rect.left]  BY <1>1, <1>2
      <3> QED  BY <3>1, <2>7, <2>2
    <2>10. b.rect.left = g.rect.left /\ b.rect.right = g.rect.right  BY <2>5, <2>6
    <2>11. g.rect.top = 0 /\ g.rect.bottom = g.h  BY <1>5, <1>7
    <2>12. b.rect.top = 0 /\ b.rect.bottom = g.h
      BY <2>3, <2>4, <2>6
    <2> HIDE DEF rect
    <2>13. \A idx \in Nat : PictureRow(b, idx) = g.h - idx - 1
      BY <2>8, <2>12, <1>5, <1>7 DEF PictureRow
    <2>14. \A idx \in Nat : MemoryRow(g, g.rect.top + idx) = g.h - 1 - idx
      BY <1>5, <1>7, <2>11 DEF MemoryRow
    <2>15. \A idx \in Nat : PictureRow(b, idx) = MemoryRow(g, g.rect.top + idx)
      BY <2>13, <2>14, <1>5
    <2> QED  BY <2>8, <2>9, <2>10, <2>11, <2>12, <2>15 DEF Width, Height
  <1> QED  BY <1>6, <1>7

-----------------------------------------------------------------------------
(* A frame's passes                                                          *)

SetOf(view) == [do |-> "set", view |-> view]
FilterOf(view, number) == [do |-> "filter", view |-> view, number |-> number]
WriteOf == [do |-> "write"]

\* What the fields of a pass are.
LEMMA PassIs ==
  ASSUME NEW view, NEW number
  PROVE  /\ SetOf(view).do = "set" /\ SetOf(view).view = view
         /\ FilterOf(view, number).do = "filter" /\ FilterOf(view, number).view = view
         /\ FilterOf(view, number).number = number /\ WriteOf.do = "write"
  BY DEF SetOf, FilterOf, WriteOf

PassSet(f, height) ==
    LET views == Views(f.field, height)
    IN {SetOf(views[i]) : i \in 1..Len(views)}
       \cup {FilterOf(views[i], NumberOf(views[i], f, height)) : i \in 1..Len(views)}
       \cup {WriteOf}

\* Each view is set, then each is filtered, then the frame is written.
PassesListed(f, height) ==
    LET views == Views(f.field, height)
        n == Len(views)
        passes == Passes(f, height)
    IN /\ n \in {1, 2} /\ passes \in Seq(PassSet(f, height)) /\ Len(passes) = 2 * n + 1
       /\ \A i \in 1..n : passes[i].do = "set" /\ passes[i].view = views[i]
       /\ \A i \in 1..n : /\ passes[n + i].do = "filter" /\ passes[n + i].view = views[i]
                          /\ passes[n + i].number = NumberOf(views[i], f, height)
       /\ passes[2 * n + 1].do = "write"

\* The passes of a frame are those.
LEMMA PassesAre ==
  ASSUME NEW f, f.field \in Fields, NEW height \in Nat \ {0}
  PROVE  PassesListed(f, height)
  <1> DEFINE views == Views(f.field, height)
             n == Len(views)
             S == PassSet(f, height)
             A == [i \in DOMAIN views |-> SetOf(views[i])]
             B == [i \in DOMAIN views |-> FilterOf(views[i], NumberOf(views[i], f, height))]
             C == <<WriteOf>>
             passes == Passes(f, height)
  <1>1. n \in {1, 2} /\ DOMAIN views = 1..n  BY ViewsAre DEF ViewsOf
  <1>2. passes = A \o B \o C  BY DEF Passes, SetOf, FilterOf, WriteOf
  <1>3. A \in Seq(S) /\ Len(A) = n
    <2>1. \A i \in 1..n : SetOf(views[i]) \in S  BY DEF PassSet
    <2>2. A \in [1..n -> S]
      <3> HIDE DEF S, views, n
      <3> QED  BY <1>1, <2>1
    <2> HIDE DEF A, S
    <2> QED  BY <1>1, <2>2
  <1>4. B \in Seq(S) /\ Len(B) = n
    <2>1. \A i \in 1..n : FilterOf(views[i], NumberOf(views[i], f, height)) \in S  BY DEF PassSet
    <2>2. B \in [1..n -> S]
      <3> HIDE DEF S, views, n
      <3> QED  BY <1>1, <2>1
    <2> HIDE DEF B, S
    <2> QED  BY <1>1, <2>2
  <1>5. C \in Seq(S) /\ Len(C) = 1 /\ C[1] = WriteOf
    <2>1. WriteOf \in S  BY DEF PassSet
    <2> HIDE DEF S
    <2> QED  BY <2>1
  <1>6. \A i \in 1..n : A[i] = SetOf(views[i])
    <2> HIDE DEF n, views
    <2> QED  BY <1>1
  <1>7. \A i \in 1..n : B[i] = FilterOf(views[i], NumberOf(views[i], f, height))
    <2> HIDE DEF n, views
    <2> QED  BY <1>1
  <1> HIDE DEF A, B, C, passes, S, n, views
  <1> DEFINE AB == A \o B
  <1>8. /\ AB \in Seq(S) /\ Len(AB) = n + n
        /\ \A i \in 1..n + n : AB[i] = IF i <= n THEN A[i] ELSE B[i - n]
    <2>1. A \in Seq(S) /\ B \in Seq(S)  BY <1>3, <1>4
    <2>2. /\ A \o B \in Seq(S) /\ Len(A \o B) = Len(A) + Len(B)
          /\ \A i \in 1 .. Len(A) + Len(B) :
                (A \o B)[i] = IF i <= Len(A) THEN A[i] ELSE B[i - Len(A)]
      BY <2>1, ConcatProperties
    <2> QED  BY <2>2, <1>3, <1>4
  <1> HIDE DEF AB
  <1> DEFINE D == AB \o C
  <1>9. /\ D \in Seq(S) /\ Len(D) = n + n + 1
        /\ \A i \in 1..n + n + 1 : D[i] = IF i <= n + n THEN AB[i] ELSE C[i - (n + n)]
    <2>1. AB \in Seq(S) /\ C \in Seq(S)  BY <1>5, <1>8
    <2>2. /\ AB \o C \in Seq(S) /\ Len(AB \o C) = Len(AB) + Len(C)
          /\ \A i \in 1 .. Len(AB) + Len(C) :
                (AB \o C)[i] = IF i <= Len(AB) THEN AB[i] ELSE C[i - Len(AB)]
      BY <2>1, ConcatProperties
    <2> QED  BY <2>2, <1>5, <1>8
  <1> HIDE DEF D
  <1>10. passes = D  BY <1>2 DEF D, AB
  <1>11. ASSUME NEW i \in 1..n
         PROVE  passes[i] = SetOf(views[i]) /\ passes[n + i] = FilterOf(views[i], NumberOf(views[i], f, height))
    <2>1. i \in 1..n + n + 1 /\ i <= n + n /\ n + i \in 1..n + n + 1 /\ n + i <= n + n /\ ~(n + i <= n)
          /\ i <= n /\ (n + i) - n = i /\ i \in 1..n + n /\ n + i \in 1..n + n
      BY <1>1
    <2>2. D[i] = AB[i] /\ D[n + i] = AB[n + i]  BY <1>9, <2>1
    <2>3. AB[i] = A[i] /\ AB[n + i] = B[i]  BY <1>8, <2>1
    <2> QED  BY <1>6, <1>7, <1>10, <2>2, <2>3
  <1>12. passes[2 * n + 1] = WriteOf
    <2>1. 2 * n + 1 = n + n + 1 /\ n + n + 1 \in 1..n + n + 1 /\ ~(n + n + 1 <= n + n)
          /\ (n + n + 1) - (n + n) = 1
      BY <1>1
    <2>2. D[n + n + 1] = C[1]  BY <1>9, <2>1
    <2> QED  BY <1>5, <1>10, <2>1, <2>2
  <1>13. Len(passes) = 2 * n + 1 /\ passes \in Seq(S)  BY <1>1, <1>9, <1>10
  <1> QED  BY <1>1, <1>11, <1>12, <1>13, PassIs DEF PassesListed, passes, S, n, views

-----------------------------------------------------------------------------
(* The hosts' pictures                                                       *)

\* A host's picture is as the passes need it.
LEMMA PictureIsGood ==
  ASSUME NEW host \in {"gui", "ofx", "ae"}, NEW g, PictureOf(host, g)
  PROVE  GoodPicture(g)
  <1>1. /\ g.w \in Nat \ {0} /\ g.h \in Nat \ {0} /\ g.pad \in Nat
        /\ g.src_flip \in BOOLEAN /\ g.dst_flip \in BOOLEAN
    BY DEF PictureOf
  <1>2. CASE host = "gui"
    <2>1. /\ g.layer.row = 0 /\ g.layer.column = 0 /\ g.layer.height = g.h /\ g.layer.width = g.w
          /\ g.rect.bottom \in 0..g.h /\ g.rect.top \in 0..g.rect.bottom
          /\ g.rect.right \in 0..g.w /\ g.rect.left \in 0..g.rect.right
          /\ ~g.src_flip /\ ~g.dst_flip
      BY <1>2 DEF PictureOf
    <2>2. Least(g.layer.height, g.h - g.layer.row) = g.h  BY <1>1, <2>1 DEF Least
    <2> QED  BY <1>1, <2>1, <2>2 DEF GoodPicture
  <1>3. ASSUME g.rect = Rect(0, 0, g.h, g.w)
        PROVE  /\ g.rect.bottom \in 0..g.h /\ g.rect.top \in 0..g.rect.bottom
               /\ g.rect.right \in 0..g.w /\ g.rect.left \in 0..g.rect.right
    <2>1. g.rect.top = 0 /\ g.rect.left = 0 /\ g.rect.bottom = g.h /\ g.rect.right = g.w
      BY <1>3 DEF Rect
    <2> QED  BY <1>1, <2>1
  <1>4. CASE host = "ofx"
    <2>1. /\ g.layer.row = 0 /\ g.layer.column = 0 /\ g.layer.height = g.h /\ g.layer.width = g.w
          /\ g.rect = Rect(0, 0, g.h, g.w)
      BY <1>4 DEF PictureOf
    <2>2. Least(g.layer.height, g.h - g.layer.row) = g.h  BY <1>1, <2>1 DEF Least
    <2> QED  BY <1>1, <1>3, <2>1, <2>2 DEF GoodPicture
  <1>5. CASE host = "ae"
    <2>1. /\ g.layer.row \in 0..(g.h - 1) /\ g.layer.column \in 0..(g.w - 1)
          /\ g.layer.height \in Nat \ {0} /\ g.layer.width \in Nat \ {0}
          /\ \/ Least(g.layer.height, g.h - g.layer.row) > 1
             \/ g.h = 1 /\ (g.layer.height = 1 \/ ~g.src_flip)
          /\ g.rect = Rect(0, 0, g.h, g.w)
      BY <1>5 DEF PictureOf
    <2> QED  BY <1>1, <1>3, <2>1 DEF GoodPicture
  <1> QED  BY <1>2, <1>4, <1>5

\* The blits of all hosts.
LEMMA BlitsAre ==
  ASSUME Host \in {"gui", "ofx", "ae"}, NEW g, PictureOf(Host, g)
  PROVE  /\ BlitsOf(g).set.at = SetBlit(g).at /\ BlitsOf(g).set.rect = SetBlit(g).rect
         /\ BlitsOf(g).set.height = SetBlit(g).height /\ BlitsOf(g).set.flip_y = SetBlit(g).flip_y
         /\ BlitsOf(g).write = Blitted(g)
  <1> DEFINE h == Host
  <1>0. GoodPicture(g)  BY PictureIsGood
  <1>1. g.w \in Nat \ {0} /\ g.h \in Nat \ {0} /\ g.pad \in Nat
    BY <1>0 DEF GoodPicture
  <1>2. \A s, w : Blits(s, w).set = s /\ Blits(s, w).write = w  BY DEF Blits
  <1>3. /\ SetBlit(g).at = Place(g.layer.row, g.layer.column)
        /\ SetBlit(g).rect = Rect(0, 0, Least(g.layer.height, g.h - g.layer.row),
                                        Least(g.layer.width, g.w - g.layer.column))
        /\ SetBlit(g).height = g.layer.height /\ SetBlit(g).flip_y = g.src_flip
    BY BlitIs DEF SetBlit
  <1>4. ASSUME g.layer.row = 0, g.layer.column = 0, g.layer.height = g.h, g.layer.width = g.w
        PROVE  SetBlit(g).at = Place(0, 0) /\ SetBlit(g).rect = FullFrame(g)
    <2>1. Least(g.h, g.h - 0) = g.h /\ Least(g.w, g.w - 0) = g.w  BY <1>1 DEF Least
    <2> QED  BY <1>3, <1>4, <2>1 DEF FullFrame
  <1>5. ASSUME g.rect = Rect(0, 0, g.h, g.w)
        PROVE  g.rect = FullFrame(g) /\ Place(g.rect.top, g.rect.left) = Place(0, 0)
    BY <1>5 DEF FullFrame, Rect
  <1>6. CASE h = "gui"
    <2>1. /\ g.layer.row = 0 /\ g.layer.column = 0 /\ g.layer.height = g.h /\ g.layer.width = g.w
          /\ g.pad = 0 /\ ~g.src_flip /\ ~g.dst_flip
      BY <1>6 DEF PictureOf
    <2>2. Length(g) = g.w  BY <1>1, <2>1 DEF Length
    <2>3. g.src_flip = FALSE /\ g.dst_flip = FALSE  BY <2>1, <1>0 DEF GoodPicture
    <2>4. BlitsOf(g) = GuiBlits(g)  BY <1>6 DEF BlitsOf
    <2> DEFINE at == Place(g.rect.top, g.rect.left)
               b == Blit(FullFrame(g), Place(0, 0), g.w, g.h, FALSE)
    <2>5. BlitsOf(g).write = Blit(g.rect, at, g.w, g.h, FALSE)  BY <1>2, <2>4, Zenon DEF GuiBlits
    <2>6. Blitted(g) = Blit(g.rect, at, g.w, g.h, FALSE)  BY <2>2, <2>3, Zenon DEF Blitted
    <2>7. BlitsOf(g).set = b  BY <1>2, <2>4, Zenon DEF GuiBlits
    <2>8. /\ b.at = Place(0, 0) /\ b.rect = FullFrame(g) /\ b.height = g.h /\ b.flip_y = FALSE
      <3> DEFINE flip == FALSE
                 place == Place(0, 0)
                 full == FullFrame(g)
                 length == g.w
      <3>1. b = Blit(full, place, length, g.h, flip)  OBVIOUS
      <3> HIDE DEF flip, place, full, length, b
      <3>2. b.at = place /\ b.rect = full /\ b.height = g.h /\ b.flip_y = flip  BY <3>1, BlitIs
      <3> QED  BY <3>2 DEF flip, place, full
    <2>9. SetBlit(g).at = Place(0, 0) /\ SetBlit(g).rect = FullFrame(g)  BY <1>4, <2>1
    <2> HIDE DEF b, at
    <2> QED  BY <1>3, <2>1, <2>3, <2>5, <2>6, <2>7, <2>8, <2>9, Zenon
  <1>7. CASE h = "ofx"
    <2>1. /\ g.layer.row = 0 /\ g.layer.column = 0 /\ g.layer.height = g.h /\ g.layer.width = g.w
          /\ g.src_flip /\ g.dst_flip /\ g.rect = Rect(0, 0, g.h, g.w)
      BY <1>7 DEF PictureOf
    <2>3. g.src_flip = TRUE /\ g.dst_flip = TRUE  BY <2>1, <1>0 DEF GoodPicture
    <2>4. BlitsOf(g) = OfxBlits(g)  BY <1>7 DEF BlitsOf
    <2>5. /\ BlitsOf(g).set = Blit(FullFrame(g), Place(0, 0), g.w + g.pad, g.h, TRUE)
          /\ BlitsOf(g).write = Blit(FullFrame(g), Place(0, 0), g.w + g.pad, g.h, TRUE)
      BY <1>2, <2>4 DEF OfxBlits
    <2> DEFINE b == Blit(FullFrame(g), Place(0, 0), g.w + g.pad, g.h, TRUE)
    <2>6. BlitsOf(g).write = Blitted(g)
      BY <1>5, <2>1, <2>3, <2>5, Zenon DEF Blitted, Length
    <2>8. /\ b.at = Place(0, 0) /\ b.rect = FullFrame(g) /\ b.height = g.h /\ b.flip_y = TRUE
      <3> DEFINE flip == TRUE
                 place == Place(0, 0)
                 full == FullFrame(g)
                 length == g.w + g.pad
      <3>1. b = Blit(full, place, length, g.h, flip)  OBVIOUS
      <3> HIDE DEF flip, place, full, length, b
      <3>2. b.at = place /\ b.rect = full /\ b.height = g.h /\ b.flip_y = flip  BY <3>1, BlitIs
      <3> QED  BY <3>2 DEF flip, place, full
    <2>9. SetBlit(g).at = Place(0, 0) /\ SetBlit(g).rect = FullFrame(g)  BY <1>4, <2>1
    <2> HIDE DEF b
    <2>10. BlitsOf(g).set = b  BY <2>5 DEF b
    <2> QED  BY <1>3, <2>1, <2>3, <2>6, <2>8, <2>9, <2>10, Zenon
  <1>8. CASE h = "ae"
    <2>1. g.rect = Rect(0, 0, g.h, g.w)  BY <1>8 DEF PictureOf
    <2>4. BlitsOf(g) = AeBlits(g)  BY <1>8 DEF BlitsOf
    <2> DEFINE rect == Rect(0, 0, Least(g.layer.height, g.h - g.layer.row),
                           Least(g.layer.width, g.w - g.layer.column))
    <2>5. /\ BlitsOf(g).set = Blit(rect, Place(g.layer.row, g.layer.column), g.layer.width + g.pad,
                                   g.layer.height, g.src_flip)
          /\ BlitsOf(g).write = Blit(FullFrame(g), Place(0, 0), g.w + g.pad, g.h, g.dst_flip)
      BY <1>2, <2>4 DEF AeBlits
    <2>6. BlitsOf(g).write = Blitted(g)  BY <1>5, <2>1, <2>5 DEF Blitted, Length
    <2> QED  BY <1>3, <2>5, <2>6, BlitIs
  <1> QED  BY <1>6, <1>7, <1>8

\* A frame's field and number are as the passes need them.
LEMMA FieldIsGood ==
  ASSUME Host \in {"gui", "ofx", "ae"}, NEW g, PictureOf(Host, g),
         NEW use_field \in 0..5, NEW frame \in Nat
  PROVE  GoodField(g, Fielding(g, use_field, frame))
  <1>1. ToYiqField(use_field, frame) \in Fields /\ AeField(use_field, frame) \in Fields
    <2>1. frame % 2 \in {0, 1}  BY Pairs
    <2>2. ToYiqField(use_field, frame) \in Fields
      BY <2>1 DEF ToYiqField, Fields, Cpu!YiqField
    <2>3. {"upper", "lower"} \subseteq Fields  BY DEF Fields, Cpu!YiqField
    <2> QED  BY <2>2, <2>3 DEF AeField
  <1>2. g.scan.interlaced => /\ g.scan.tff \in BOOLEAN /\ g.scan.onefield \in BOOLEAN
                             /\ g.scan.onefield /\ ~g.scan.tff => g.h > 1
    BY DEF PictureOf
  <1>3. g.scan.interlaced => /\ InterlacedField(g.scan) \in Fields
                             /\ InterlacedField(g.scan) = "lower" => g.h > 1
    BY <1>2 DEF InterlacedField, Fields, Cpu!YiqField
  <1> DEFINE f == Fielding(g, use_field, frame)
  <1>4. CASE Host = "ae"
    <2>1. f = [field |-> AeField(use_field, frame), number |-> frame, mode |-> "bob"]
      BY <1>4 DEF Fielding
    <2> HIDE DEF f
    <2> QED  BY <1>1, <2>1 DEF GoodField, f
  <1>5. CASE Host # "ae" /\ ~g.scan.interlaced
    <2>1. f = [field |-> ToYiqField(use_field, frame), number |-> frame, mode |-> "bob"]
      BY <1>5 DEF Fielding
    <2> HIDE DEF f
    <2> QED  BY <1>1, <2>1 DEF GoodField, f
  <1>6. CASE Host # "ae" /\ g.scan.interlaced
    <2> DEFINE number == IF g.scan.onefield THEN 2 * frame ELSE frame
    <2>1. f = [field |-> InterlacedField(g.scan), number |-> number, mode |-> "skip"]
      BY <1>6 DEF Fielding
    <2>2. number \in Nat  OBVIOUS
    <2> HIDE DEF f, number
    <2> QED  BY <1>3, <1>6, <2>1, <2>2 DEF GoodField, f
  <1> QED  BY <1>4, <1>5, <1>6

-----------------------------------------------------------------------------
(* The pixels a frame's planes are written as                                *)

\* Where a sample of a view's row lies in the buffer.
SampleAt(g, v, r, column) == (v.base + r) * g.w + column

\* A column of the planes after all passes over them.
ColumnFiltered(samples, g, f, frame, column) ==
    LET views == Views(f.field, g.h)
    IN \A i \in 1..Len(views) : \A r \in 0..(views[i].rows - 1) :
          samples[SampleAt(g, views[i], r, column)]
             = Rendered(g, f, frame, ViewRow(views[i].field, g.h, r), column)

\* What a write pass is about.
WritesPicture(p, g, f) ==
    /\ p.field = f.field /\ p.mode = f.mode /\ p.height = g.h
    /\ p.rows = Cpu!ImageRows(f.field, g.h) /\ p.blit.height = g.h

\* What a pixel in the rectangle is.
InRect(g, row, column) ==
    /\ row \in 0..(g.h - 1) /\ row \in g.rect.top..(g.rect.bottom - 1)
    /\ column \in g.rect.left..(g.rect.right - 1)

\* A sample of the planes that is written to a row.
LEMMA PlaneSample ==
  ASSUME NEW samples, NEW g, NEW f, NEW frame, NEW column,
         ColumnFiltered(samples, g, f, frame, column),
         NEW q, NEW row, PlaneRow(Views(f.field, g.h), g.h, q, row)
  PROVE  samples[q * g.w + column] = Rendered(g, f, frame, row, column)
  <1> DEFINE views == Views(f.field, g.h)
  <1>1. PICK i \in 1..Len(views) : \E r \in 0..(views[i].rows - 1) :
            q = views[i].base + r /\ ViewRow(views[i].field, g.h, r) = row
    BY DEF PlaneRow
  <1>2. PICK r \in 0..(views[i].rows - 1) :
            q = views[i].base + r /\ ViewRow(views[i].field, g.h, r) = row
    BY <1>1
  <1>3. samples[SampleAt(g, views[i], r, column)]
           = Rendered(g, f, frame, ViewRow(views[i].field, g.h, r), column)
    BY DEF ColumnFiltered
  <1> HIDE DEF views
  <1> QED  BY <1>2, <1>3 DEF SampleAt

\* Planes that were filtered are written as the reference says: to a row of the
\* field its samples, to another one the mean of the rows next to it, or nothing.
LEMMA WantedPixels ==
  ASSUME NEW g, GoodPicture(g), NEW f, GoodField(g, f), NEW frame, NEW p, WritesPicture(p, g, f),
         NEW samples, NEW row, NEW column, InRect(g, row, column),
         ColumnFiltered(samples, g, f, frame, column)
  PROVE  /\ PlaneRows(p, row) = {} => Expected(g, f, frame, row, column) = {}
         /\ PlaneRows(p, row) # {} =>
               {samples[q * g.w + column] : q \in PlaneRows(p, row)} = Expected(g, f, frame, row, column)
  <1> DEFINE views == Views(f.field, g.h)
             planes == PlaneRows(p, row)
             R(r) == Rendered(g, f, frame, r, column)
             E == Expected(g, f, frame, row, column)
             near == {row - 1, row + 1} \cap 0..(g.h - 1)
  <1>0. /\ row \in 0..(g.h - 1) /\ row \in g.rect.top..(g.rect.bottom - 1)
        /\ column \in g.rect.left..(g.rect.right - 1)
    BY DEF InRect
  <1>1. /\ f.field \in Fields /\ f.mode \in {"bob", "skip"} /\ g.h \in Nat \ {0}
        /\ f.mode = "skip" /\ f.field = "lower" => g.h > 1
    BY DEF GoodField, GoodPicture
  <1>2. /\ p.field = f.field /\ p.mode = f.mode /\ p.height = g.h
        /\ p.rows = Cpu!ImageRows(f.field, g.h) /\ p.blit.height = g.h
    BY DEF WritesPicture
  <1>3. ASSUME NEW q, NEW r, PlaneRow(views, g.h, q, r)  PROVE samples[q * g.w + column] = R(r)
    BY <1>3, PlaneSample
  <1>4. CASE OwnRow(f.field, g.h, row)
    <2>1. PICK q : planes = {q} /\ PlaneRow(views, g.h, q, row)
      BY <1>0, <1>1, <1>2, <1>4, OwnRowInPlanes
    <2>2. E = {R(row)}  BY <1>0, <1>4 DEF Expected
    <2>3. samples[q * g.w + column] = R(row)  BY <2>1, <1>3
    <2> HIDE DEF planes, views, R, E
    <2>4. {samples[x * g.w + column] : x \in planes} = {samples[q * g.w + column]}  BY <2>1
    <2> QED  BY <2>1, <2>2, <2>3, <2>4 DEF planes, E
  <1>5. CASE ~OwnRow(f.field, g.h, row)
    <2>1. /\ f.mode = "skip" => planes = {}
          /\ f.mode = "bob" =>
              /\ planes # {}
              /\ \A q \in planes : \E r \in near : PlaneRow(views, g.h, q, r)
              /\ \A r \in near : \E q \in planes : PlaneRow(views, g.h, q, r)
      BY <1>0, <1>1, <1>2, <1>5, OtherRowInPlanes
    <2>2. CASE f.mode = "skip"
      <3>1. E = {}  BY <1>0, <1>5, <2>2 DEF Expected
      <3> QED  BY <3>1, <2>1, <2>2
    <2>3. CASE f.mode = "bob"
      <3>1. E = {R(r) : r \in near}  BY <1>0, <1>5, <2>3 DEF Expected
      <3> HIDE DEF planes, views, R, E, near
      <3>2. ASSUME NEW q \in planes  PROVE \E r \in near : samples[q * g.w + column] = R(r)
        BY <2>1, <2>3, <1>3
      <3>3. ASSUME NEW r \in near  PROVE \E q \in planes : samples[q * g.w + column] = R(r)
        BY <2>1, <2>3, <1>3
      <3>4. {samples[q * g.w + column] : q \in planes} = {R(r) : r \in near}
        BY <3>2, <3>3
      <3> QED  BY <3>1, <3>4, <2>1, <2>3 DEF planes, E
    <2> QED  BY <1>1, <2>2, <2>3
  <1> QED  BY <1>4, <1>5

-----------------------------------------------------------------------------
(* What the loops' bodies do to the samples and pixels                       *)

\* A place in one of a buffer's rows lies in the buffer.
LEMMA PlaceInBuffer ==
  ASSUME NEW w \in Nat \ {0}, NEW rows \in Nat, NEW row \in 0..(rows - 1), NEW column \in 0..(w - 1)
  PROVE  row * w + column \in 0..(w * rows - 1)
  <1>1. row \in Nat /\ row + 1 \in Nat /\ row + 1 <= rows  OBVIOUS
  <1>2. (row + 1) * w <= rows * w  BY <1>1, TimesMonotonic
  <1>3. (row + 1) * w = row * w + 1 * w  BY <1>1, TimesSum
  <1> DEFINE a == row * w
             b == rows * w
  <1>4. a \in Nat /\ b \in Nat /\ w * rows = b /\ 1 * w = w  BY <1>1
  <1>5. a + w <= b  BY <1>2, <1>3, <1>4
  <1> HIDE DEF a, b
  <1>6. a + column \in 0..(b - 1)  BY <1>4, <1>5
  <1> QED  BY <1>4, <1>6 DEF a

\* The places of two views that lie apart are apart, those of one view are told
\* by their rows in it.
InViews(w, vb, vr, ub, ur, r, column, at) ==
    /\ w \in Nat \ {0} /\ vb \in Nat /\ vr \in Nat /\ ub \in Nat /\ ur \in Nat
    /\ r \in 0..(vr - 1) /\ column \in 0..(w - 1) /\ at = (vb + r) * w + column
PartOf(lo, hi, n) == lo \in Nat /\ hi \in Nat /\ hi <= n

\* A place in a view is not in another view's part of the buffer.
LEMMA PlacesInViews ==
  ASSUME NEW w, NEW vb, NEW vr, NEW ub, NEW ur, NEW r, NEW column, NEW at,
         InViews(w, vb, vr, ub, ur, r, column, at), NEW lo, NEW hi, PartOf(lo, hi, ur * w)
  PROVE  /\ vb + vr <= ub \/ ub + ur <= vb => at - ub * w \notin lo..(hi - 1)
         /\ vb = ub => (at - ub * w \in lo..(hi - 1) <=> lo <= r * w + column /\ r * w + column < hi)
  <1> DEFINE line == vb + r
             end == ub + ur
             a == line * w
             b == ub * w
             d == ur * w
             e == r * w
  <1> USE DEF InViews, PartOf
  <1>1. line \in Nat /\ end \in Nat /\ r \in Nat /\ line < vb + vr  OBVIOUS
  <1>2. end * w = b + d
    <2>1. (ub + ur) * w = ub * w + ur * w  BY TimesSum
    <2> QED  BY <2>1
  <1>3. a = vb * w + e
    <2>1. (vb + r) * w = vb * w + r * w  BY TimesSum
    <2> QED  BY <2>1
  <1>4. a \in Nat /\ b \in Nat /\ d \in Nat /\ e \in Nat  BY <1>1
  <1>5. vb + vr <= ub => a + w <= b
    <2>1. line + 1 \in Nat /\ (vb + vr <= ub => line + 1 <= ub)  BY <1>1
    <2> HIDE DEF line
    <2>2. line + 1 <= ub => (line + 1) * w <= ub * w  BY <2>1, TimesMonotonic
    <2>3. (line + 1) * w = line * w + 1 * w  BY <1>1, TimesSum
    <2> QED  BY <2>1, <2>2, <2>3
  <1>6. ub + ur <= vb => b + d <= a
    <2>1. ub + ur <= vb => end <= line  BY <1>1
    <2> HIDE DEF line, end
    <2>2. end <= line => end * w <= line * w  BY <1>1, TimesMonotonic
    <2> QED  BY <2>1, <2>2, <1>2
  <1>7. at = a + column /\ hi <= d /\ (vb = ub => a = b + e)  BY <1>3
  <1> HIDE DEF a, b, d, e, line, end
  <1>8. vb + vr <= ub \/ ub + ur <= vb => at - b \notin lo..(hi - 1)  BY <1>4, <1>5, <1>6, <1>7
  <1>9. vb = ub => (at - b \in lo..(hi - 1) <=> lo <= e + column /\ e + column < hi)
    BY <1>4, <1>7
  <1> QED  BY <1>8, <1>9 DEF b, e

\* A place in a row of a view that is set.
InPart(w, ub, ur, skip, rows, idx, first) ==
    /\ skip \in Nat /\ rows \in Nat /\ skip + rows <= ur /\ idx \in 0..(rows - 1)
    /\ first = (ub + skip) * w + idx * w

\* The places that a row of a view sets: those of the row, from a column on.
LEMMA PlacesSet ==
  ASSUME NEW w, NEW vb, NEW vr, NEW ub, NEW ur, NEW r, NEW column, NEW at,
         InViews(w, vb, vr, ub, ur, r, column, at),
         NEW skip, NEW rows, NEW idx, NEW first, InPart(w, ub, ur, skip, rows, idx, first),
         NEW left, NEW n, PartOf(left, left + n, w), n \in Nat
  PROVE  /\ vb + vr <= ub \/ ub + ur <= vb => at - first - left \notin 0..(n - 1)
         /\ vb = ub => (at - first - left \in 0..(n - 1) <=> r = skip + idx /\ column - left \in 0..(n - 1))
         /\ vb = ub /\ r = skip + idx => at - first - left = column - left
  <1> DEFINE line == vb + r
             above == ub + skip + idx
             a == line * w
             b == above * w
  <1> USE DEF InViews, InPart, PartOf
  <1>1. line \in Int /\ above \in Int /\ w \in Int  OBVIOUS
  <1>2. first = b
    <2>1. ub + skip \in Int /\ idx \in Int  OBVIOUS
    <2>2. ((ub + skip) + idx) * w = (ub + skip) * w + idx * w  BY <2>1, TimesSum
    <2> QED  BY <2>2
  <1>3. a \in Int /\ b \in Int /\ at = a + column  BY <1>1
  <1>4. (line * w + column) - above * w - left \in 0..(n - 1) <=> line = above /\ column - left \in 0..(n - 1)
    <2> HIDE DEF line, above
    <2> QED  BY <1>1, InRow
  <1>5. at - first - left \in 0..(n - 1) <=> line = above /\ column - left \in 0..(n - 1)
    BY <1>2, <1>3, <1>4
  <1>6. vb + vr <= ub \/ ub + ur <= vb => line # above  OBVIOUS
  <1>7. vb = ub => (line = above <=> r = skip + idx)  OBVIOUS
  <1>8. line = above => at - first - left = column - left
    <2>1. line = above => a = b  OBVIOUS
    <2> HIDE DEF a, b, line, above
    <2> QED  BY <1>2, <1>3, <2>1
  <1> QED  BY <1>5, <1>6, <1>7, <1>8

\* A sample of a view lies in the buffer.
LEMMA SampleInBuffer ==
  ASSUME NEW g, GoodPicture(g), NEW field \in Fields, NEW i \in 1..Len(Views(field, g.h)),
         NEW r \in 0..(Views(field, g.h)[i].rows - 1), NEW column \in 0..(g.w - 1)
  PROVE  SampleAt(g, Views(field, g.h)[i], r, column) \in 0..(Samples(field, g.w, g.h) - 1)
  <1> DEFINE views == Views(field, g.h)
             v == views[i]
             rows == Cpu!ImageRows(field, g.h)
             row == v.base + r
  <1>1. g.w \in Nat \ {0} /\ g.h \in Nat \ {0}  BY DEF GoodPicture
  <1>2. ViewOf(v, field, g.h)  BY <1>1, ViewsAre DEF ViewsOf
  <1>3. v.base \in Nat /\ v.rows \in Nat \ {0} /\ v.base + v.rows <= rows  BY <1>2 DEF ViewOf
  <1>4. rows \in Nat
    <2>1. rows \in {(g.h + 1) \div 2, IF g.h = 1 THEN 1 ELSE g.h \div 2, g.h}
      <3> USE <1>1, ImageRowsIs
      <3>1. field \in {"upper", "lower", "both", "interleaved_upper", "interleaved_lower"}
        BY DEF Fields, Cpu!YiqField
      <3> QED  BY <3>1
    <2>2. (g.h + 1) \div 2 \in Nat /\ g.h \div 2 \in Nat  BY <1>1, HalvesOf
    <2> HIDE DEF rows
    <2> QED  BY <1>1, <2>1, <2>2
  <1>5. Samples(field, g.w, g.h) = g.w * rows  BY DEF Samples
  <1>6. r \in 0..(v.rows - 1)  OBVIOUS
  <1>7. SampleAt(g, v, r, column) = row * g.w + column  BY DEF SampleAt
  <1> HIDE DEF rows, v, views
  <1>8. row \in 0..(rows - 1)  BY <1>3, <1>4, <1>6
  <1> HIDE DEF row
  <1>9. row * g.w + column \in 0..(g.w * rows - 1)  BY <1>1, <1>4, <1>8, PlaceInBuffer
  <1> QED  BY <1>5, <1>7, <1>9 DEF v, views

\* A chunk of a loop over whole rows, each of this many samples.
RowChunk(c, rows, w) ==
    /\ c.idx \in 0..(rows - 1) /\ c.from = c.idx * w /\ c.to = c.from + w

\* A place in rows of the planes or of a picture is in a row's chunk.
LEMMA InRowChunk ==
  ASSUME NEW rows \in Nat, NEW w \in Nat \ {0}, NEW c, RowChunk(c, rows, w),
         NEW a \in Int, NEW column \in 0..(w - 1)
  PROVE  c.from <= a * w + column /\ a * w + column < c.to <=> a = c.idx
  <1> DEFINE b == c.idx
  <1>1. b \in Int /\ c.from = b * w /\ c.to = b * w + w  BY DEF RowChunk
  <1> HIDE DEF b
  <1>2. ASSUME b * w <= a * w + column, a * w + column < b * w + w  PROVE a = b
    BY <1>1, <1>2, RowsApart
  <1>3. ASSUME a = b  PROVE b * w <= a * w + column /\ a * w + column < b * w + w
    <2>1. a * w = b * w /\ b * w \in Int  BY <1>1, <1>3
    <2> QED  BY <2>1
  <1>4. a * w + column \in Int /\ b * w + w \in Int  BY <1>1
  <1> QED  BY <1>1, <1>2, <1>3 DEF b

\* A set pass over a view of a frame.
SetsView(p, g, frame, v) ==
    /\ p.view = v /\ p.width = g.w /\ p.memory = Memory(g, frame)
    /\ p.blit.at = SetBlit(g).at /\ p.blit.rect = SetBlit(g).rect
    /\ p.blit.height = SetBlit(g).height /\ p.blit.flip_y = SetBlit(g).flip_y

\* What is read from where depends on what is known of the pass's blit.
LEMMA SameSource ==
  ASSUME NEW v, NEW b, NEW c, b.at = c.at, b.rect = c.rect, b.height = c.height, b.flip_y = c.flip_y,
         NEW idx
  PROVE  SourceRow(v, b, idx) = SourceRow(v, c, idx) /\ RectRows(v, b) = RectRows(v, c)
  BY DEF SourceRow, RectRows

\* A chunk of a set pass sets one row of its view, in the columns the layer has.
InBuffer(g, field, i, r, column) ==
    /\ field \in Fields /\ DOMAIN yiq = 0..(Samples(field, g.w, g.h) - 1)
    /\ i \in 1..Len(Views(field, g.h)) /\ r \in 0..(Views(field, g.h)[i].rows - 1)
    /\ column \in 0..(g.w - 1)
SetsRow(g, field, frame, j, c) ==
    /\ j \in 1..Len(Views(field, g.h)) /\ SetsView(pass, g, frame, Views(field, g.h)[j])
    /\ RowChunk(c, RectRows(Views(field, g.h)[j], SetBlit(g)), g.w) /\ SetRow(c)

\* A row that is set: its view's samples in the columns of the layer, and no others.
LEMMA SetRowDoes ==
  ASSUME NEW g, GoodPicture(g), NEW field, NEW frame, NEW j, NEW c, SetsRow(g, field, frame, j, c),
         NEW i, NEW r, NEW column, InBuffer(g, field, i, r, column)
  PROVE  LET v == Views(field, g.h)[i]
             at == SampleAt(g, v, r, column)
         IN yiq'[at] = IF /\ i = j
                          /\ r = SkippedRows(v.field, g.layer.row) + c.idx
                          /\ column - g.layer.column \in 0..(Width(SetBlit(g).rect) - 1)
                       THEN Pixel(g, frame, ViewRow(v.field, g.h, r), column)
                       ELSE yiq[at]
  <1> DEFINE V == Views(field, g.h)
             v == V[i]
             u == V[j]
             b == SetBlit(g)
             w == g.w
             at == SampleAt(g, v, r, column)
             skip == SkippedRows(u.field, g.layer.row)
             rows == RectRows(u, b)
             first == (pass.view.base + SkippedRows(pass.view.field, pass.blit.at.row)) * pass.width + c.from
             Column(k) == k - first - pass.blit.at.column
             W == Width(b.rect)
  <1> USE DEF InBuffer, SetsRow
  <1>1. w \in Nat \ {0} /\ g.h \in Nat \ {0}  BY DEF GoodPicture
  <1>2. /\ DOMAIN V = 1..Len(V)
        /\ ViewOf(v, field, g.h) /\ ViewOf(u, field, g.h)
        /\ i # j => Apart(v, u)
    BY <1>1, ViewsAre DEF ViewsOf
  <1>3. at \in DOMAIN yiq  BY SampleInBuffer
  <1>4. /\ pass.view = u /\ pass.width = w /\ pass.memory = Memory(g, frame)
        /\ pass.blit.at = b.at /\ pass.blit.rect = b.rect
        /\ pass.blit.height = b.height /\ pass.blit.flip_y = b.flip_y
    BY DEF SetsView
  <1>5. /\ b.at.row = g.layer.row /\ b.at.column = g.layer.column /\ b.rect.left = 0
    BY SetBlitIs
  <1>6. rows \in Nat /\ skip \in Nat /\ skip + rows <= u.rows  BY <1>2, RowsRead
  <1>7. c.idx \in 0..(rows - 1) /\ c.from = c.idx * w  BY DEF RowChunk
  <1>8. v.base \in Nat /\ u.base \in Nat /\ v.rows \in Nat /\ u.rows \in Nat  BY <1>2 DEF ViewOf
  <1>18. r \in 0..(v.rows - 1)  OBVIOUS
  <1>9. W \in Nat /\ g.layer.column + W <= w /\ g.layer.column \in Nat
    <2>1. W \in Nat /\ g.layer.column + W <= w  BY ColumnsFit
    <2> QED  BY <2>1 DEF GoodPicture
  <1>10. first = (u.base + skip) * w + c.idx * w  BY <1>4, <1>5, <1>7
  <1>11. yiq'[at] = IF Column(at) \in 0..(W - 1)
                    THEN pass.memory[SourceRow(pass.view, pass.blit, c.idx)][Column(at) + b.rect.left]
                    ELSE yiq[at]
    <2>1. yiq' = [k \in DOMAIN yiq |->
                  IF Column(k) \in 0..(Width(pass.blit.rect) - 1)
                  THEN pass.memory[SourceRow(pass.view, pass.blit, c.idx)][Column(k) + pass.blit.rect.left]
                  ELSE yiq[k]]
      BY DEF SetRow
    <2> HIDE DEF at, Column, W, b
    <2>2. Width(pass.blit.rect) = W /\ pass.blit.rect.left = b.rect.left  BY <1>4 DEF W
    <2> QED  BY <1>3, <2>1, <2>2
  <1>12. at = (v.base + r) * w + column  BY DEF SampleAt
  <1>13. Column(at) = at - first - g.layer.column  BY <1>4, <1>5
  <1>14. column \in 0..(w - 1)  OBVIOUS
  <1>19. c.idx \in Nat /\ SourceRow(pass.view, pass.blit, c.idx) = SourceRow(u, b, c.idx)
    <2>1. pass.blit.at = b.at /\ pass.blit.rect = b.rect /\ pass.blit.height = b.height
          /\ pass.blit.flip_y = b.flip_y
      BY <1>4
    <2> DEFINE d == pass.blit
    <2> HIDE DEF b, d, u
    <2>2. SourceRow(u, d, c.idx) = SourceRow(u, b, c.idx)  BY <2>1, SameSource DEF d
    <2> QED  BY <1>4, <1>6, <1>7, <2>2 DEF d
  <1>20. ASSUME column - g.layer.column \in 0..(W - 1)
         PROVE  Memory(g, frame)[SourceRow(u, b, c.idx)][column - g.layer.column + b.rect.left]
                   = Pixel(g, frame, ViewRow(u.field, g.h, skip + c.idx), column)
    <2>1. column \in Int  OBVIOUS
    <2> DEFINE idx == c.idx
    <2>2. ViewOf(u, field, g.h) /\ ReadAt(g, u, idx, column)  BY <1>2, <1>7, <1>20, <2>1 DEF ReadAt
    <2> HIDE DEF idx, u
    <2>3. Memory(g, frame)[SourceRow(u, SetBlit(g), idx)][column - g.layer.column + SetBlit(g).rect.left]
             = Pixel(g, frame, ViewRow(u.field, g.h, SkippedRows(u.field, g.layer.row) + idx), column)
      BY <2>2, SampleRead
    <2> QED  BY <2>3 DEF idx
  <1> DEFINE Mine == r = skip + c.idx /\ column - g.layer.column \in 0..(W - 1)
             Written == Column(at) \in 0..(W - 1)
             source == SourceRow(u, b, c.idx)
             pixel == Pixel(g, frame, ViewRow(v.field, g.h, r), column)
  <1> HIDE DEF at, first, Column, W, b, v, u, V, w, skip, rows
  <1>15. /\ v.base + v.rows <= u.base \/ u.base + u.rows <= v.base => ~Written
         /\ v.base = u.base => (Written <=> Mine)
         /\ v.base = u.base /\ r = skip + c.idx => Column(at) = column - g.layer.column
    <2> DEFINE left == g.layer.column
               vb == v.base
               vr == v.rows
               ub == u.base
               ur == u.rows
               idx == c.idx
    <2>1. /\ InViews(w, vb, vr, ub, ur, r, column, at) /\ InPart(w, ub, ur, skip, rows, idx, first)
          /\ PartOf(left, left + W, w) /\ W \in Nat
      <3>1. InViews(w, vb, vr, ub, ur, r, column, at)
        BY <1>1, <1>8, <1>12, <1>14, <1>18 DEF InViews
      <3>2. InPart(w, ub, ur, skip, rows, idx, first)  BY <1>6, <1>7, <1>10 DEF InPart
      <3> HIDE DEF left
      <3>3. left \in Nat /\ left + W <= w  BY <1>9 DEF left
      <3>4. PartOf(left, left + W, w)  BY <1>1, <1>9, <3>3 DEF PartOf
      <3> QED  BY <1>9, <3>1, <3>2, <3>4
    <2> HIDE DEF left, vb, vr, ub, ur, idx
    <2>2. /\ vb + vr <= ub \/ ub + ur <= vb => at - first - left \notin 0..(W - 1)
          /\ vb = ub => (at - first - left \in 0..(W - 1) <=> r = skip + idx /\ column - left \in 0..(W - 1))
          /\ vb = ub /\ r = skip + idx => at - first - left = column - left
      BY <2>1, PlacesSet
    <2> QED  BY <1>13, <2>2 DEF left, vb, vr, ub, ur, idx
  <1>16. i = j => v = u  BY DEF v, u
  <1>17. yiq'[at] = IF i = j /\ Mine THEN pixel ELSE yiq[at]
    <2>1. ASSUME i # j  PROVE yiq'[at] = yiq[at]
      <3>1. ~Written  BY <1>2, <1>15, <2>1 DEF Apart
      <3> QED  BY <1>11, <3>1
    <2>2. ASSUME i = j, ~Mine  PROVE yiq'[at] = yiq[at]
      <3>1. ~Written  BY <1>15, <1>16, <2>2
      <3> QED  BY <1>11, <3>1
    <2>3. ASSUME i = j, Mine  PROVE yiq'[at] = pixel
      <3>1. v = u /\ Written /\ Column(at) = column - g.layer.column  BY <1>15, <1>16, <2>3
      <3>2. yiq'[at] = Memory(g, frame)[source][column - g.layer.column + b.rect.left]
        BY <1>4, <1>11, <1>19, <3>1
      <3>3. Memory(g, frame)[source][column - g.layer.column + b.rect.left]
               = Pixel(g, frame, ViewRow(u.field, g.h, skip + c.idx), column)
        BY <1>20, <2>3
      <3> QED  BY <2>3, <3>1, <3>2, <3>3
    <2> QED  BY <2>1, <2>2, <2>3
  <1>21. i = j => SkippedRows(v.field, g.layer.row) = skip  BY <1>16 DEF skip
  <1> DEFINE Goal(s) == yiq'[at] = IF i = j /\ r = s + c.idx /\ column - g.layer.column \in 0..(W - 1)
                                   THEN pixel ELSE yiq[at]
  <1>22. Goal(SkippedRows(v.field, g.layer.row))  BY <1>17, <1>21
  <1> QED  BY <1>22 DEF at, v, V, W, b

\* A chunk of a filter pass appends the view's number to its samples.
Filters(g, field, j, c) ==
    /\ j \in 1..Len(Views(field, g.h)) /\ pass.first = Views(field, g.h)[j].base * g.w
    /\ c.from \in Nat /\ c.to \in Nat /\ c.to <= Views(field, g.h)[j].rows * g.w /\ FilterChunk(c)

\* A chunk that is filtered: its view's samples at the chunk's offsets, and no others.
LEMMA FilterDoes ==
  ASSUME NEW g, GoodPicture(g), NEW field, NEW j, NEW c, Filters(g, field, j, c),
         NEW i, NEW r, NEW column, InBuffer(g, field, i, r, column)
  PROVE  LET at == SampleAt(g, Views(field, g.h)[i], r, column)
         IN yiq'[at] = IF i = j /\ c.from <= r * g.w + column /\ r * g.w + column < c.to
                       THEN Append(yiq[at], pass.number) ELSE yiq[at]
  <1> DEFINE V == Views(field, g.h)
             v == V[i]
             u == V[j]
             w == g.w
             at == SampleAt(g, v, r, column)
  <1> USE DEF InBuffer, Filters
  <1>1. w \in Nat \ {0} /\ g.h \in Nat \ {0}  BY DEF GoodPicture
  <1>2. /\ ViewOf(v, field, g.h) /\ ViewOf(u, field, g.h)
        /\ i # j => Apart(v, u)
    BY <1>1, ViewsAre DEF ViewsOf
  <1>3. at \in DOMAIN yiq  BY SampleInBuffer
  <1>4. v.base \in Nat /\ u.base \in Nat /\ v.rows \in Nat /\ u.rows \in Nat  BY <1>2 DEF ViewOf
  <1>5. at = (v.base + r) * w + column  BY DEF SampleAt
  <1>6. yiq'[at] = IF at - u.base * w \in c.from..(c.to - 1) THEN Append(yiq[at], pass.number) ELSE yiq[at]
    <2> HIDE DEF at, u
    <2> QED  BY <1>3 DEF FilterChunk, u, V
  <1>7. r \in 0..(v.rows - 1) /\ c.to <= u.rows * w  OBVIOUS
  <1> DEFINE InChunk == at - u.base * w \in c.from..(c.to - 1)
  <1>8. /\ v.base + v.rows <= u.base \/ u.base + u.rows <= v.base => ~InChunk
        /\ v.base = u.base => (InChunk <=> c.from <= r * w + column /\ r * w + column < c.to)
    <2>1. column \in 0..(w - 1)  OBVIOUS
    <2> HIDE DEF at, v, u, V, w
    <2> DEFINE vb == v.base
               vr == v.rows
               ub == u.base
               ur == u.rows
               lo == c.from
               hi == c.to
    <2>2. InViews(w, vb, vr, ub, ur, r, column, at) /\ PartOf(lo, hi, ur * w)
      BY <1>1, <1>4, <1>5, <1>7, <2>1 DEF InViews, PartOf
    <2> HIDE DEF vb, vr, ub, ur, lo, hi
    <2>3. /\ vb + vr <= ub \/ ub + ur <= vb => at - ub * w \notin lo..(hi - 1)
          /\ vb = ub => (at - ub * w \in lo..(hi - 1) <=> lo <= r * w + column /\ r * w + column < hi)
      BY <2>2, PlacesInViews
    <2> QED  BY <2>3 DEF vb, vr, ub, ur, lo, hi
  <1>9. i = j => v = u  OBVIOUS
  <1> HIDE DEF at, V, v, u
  <1>10. yiq'[at] = IF i = j /\ c.from <= r * w + column /\ r * w + column < c.to
                       THEN Append(yiq[at], pass.number) ELSE yiq[at]
    BY <1>2, <1>6, <1>8, <1>9 DEF Apart
  <1> QED  BY <1>10 DEF at, v, V

\* The rows of a field are numbers.
LEMMA ImageRowsType ==
  ASSUME NEW field \in Fields, NEW height \in Nat \ {0}
  PROVE  Cpu!ImageRows(field, height) \in Nat
  <1>1. field \in {"upper", "lower", "both", "interleaved_upper", "interleaved_lower"}
    BY DEF Fields, Cpu!YiqField
  <1>2. (height + 1) \div 2 \in Nat /\ height \div 2 \in Nat  BY HalvesOf
  <1> QED  BY <1>1, <1>2, ImageRowsIs

\* What is written is the mean of rows.
LEMMA PlaneRowsAreRows ==
  ASSUME NEW g, GoodPicture(g), NEW f, GoodField(g, f), NEW p, WritesPicture(p, g, f),
         NEW row \in Int
  PROVE  PlaneRows(p, row) \subseteq Int
  <1> DEFINE up == Cpu!ImageRows("upper", g.h)
             low == Cpu!ImageRows("lower", g.h)
             all == Cpu!ImageRows(f.field, g.h)
  <1>1. g.h \in Nat \ {0} /\ f.field \in Fields  BY DEF GoodPicture, GoodField
  <1>2. {"upper", "lower"} \subseteq Fields  BY DEF Fields, Cpu!YiqField
  <1>3. up \in Nat /\ low \in Nat /\ all \in Nat  BY <1>1, <1>2, ImageRowsType
  <1>4. /\ p.field = f.field /\ p.mode = f.mode /\ p.height = g.h /\ p.rows = all /\ p.blit.height = g.h
    BY DEF WritesPicture
  <1>5. /\ row \div 2 \in Int /\ row % 2 \in {0, 1}
        /\ (row - 1) \div 2 \in Int /\ (row + 1) \div 2 \in Int
    <2>1. row - 1 \in Int /\ row + 1 \in Int  OBVIOUS
    <2> QED  BY <2>1, Pairs
  <1>6. \A a, b \in Int : Least(a, b) \in Int  BY DEF Least
  <1>7. Least(row \div 2, all - 1) \in Int /\ Least(row, all - 1) \in Int
    <2> HIDE DEF all
    <2>1. all - 1 \in Int  BY <1>3
    <2> QED  BY <2>1, <1>5, <1>6
  <1>8. \A x \in {0, 1} : \A y \in Nat : (row \div 2) + y * x \in Int  BY <1>5
  <1>9. /\ (row \div 2) + up * (row % 2) \in Int /\ (row \div 2) + low * (1 - (row % 2)) \in Int
        /\ g.h - 1 \in Int
    <2>1. 1 - (row % 2) \in {0, 1}  BY <1>5
    <2> HIDE DEF up, low
    <2> QED  BY <1>1, <1>3, <1>5, <1>8, <2>1
  <1>10. /\ Least((row \div 2) + up * (row % 2), g.h - 1) \in Int
         /\ Least((row \div 2) + low * (1 - (row % 2)), g.h - 1) \in Int
    <2> DEFINE a == (row \div 2) + up * (row % 2)
               b == (row \div 2) + low * (1 - (row % 2))
    <2>1. a \in Int /\ b \in Int /\ g.h - 1 \in Int  BY <1>9
    <2> HIDE DEF a, b
    <2>2. Least(a, g.h - 1) \in Int /\ Least(b, g.h - 1) \in Int  BY <2>1, <1>6
    <2> QED  BY <2>2 DEF a, b
  <1> HIDE DEF up, low, all
  <1>11. FieldRows(p, row, Least(row \div 2, all - 1)) \subseteq Int
    <2> DEFINE nearest == Least(row \div 2, all - 1)
    <2>1. nearest \in Int  BY <1>7
    <2> HIDE DEF nearest
    <2>2. FieldRows(p, row, nearest) \in {{nearest}, {}, {(row - 1) \div 2, (row + 1) \div 2}}
      BY DEF FieldRows
    <2>3. FieldRows(p, row, nearest) \subseteq Int  BY <2>1, <2>2, <1>5
    <2> QED  BY <2>3 DEF nearest
  <1>12. CASE f.field = "interleaved_upper"
    <2>1. PlaneRows(p, row) = {Least((row \div 2) + up * (row % 2), g.h - 1)}
      BY <1>4, <1>12 DEF PlaneRows, up
    <2> QED  BY <2>1, <1>10
  <1>13. CASE f.field = "interleaved_lower"
    <2>1. PlaneRows(p, row) = {Least((row \div 2) + low * (1 - (row % 2)), g.h - 1)}
      BY <1>4, <1>13 DEF PlaneRows, low
    <2> QED  BY <2>1, <1>10
  <1>14. CASE f.field = "both"
    <2>1. PlaneRows(p, row) = {Least(row, all - 1)}  BY <1>4, <1>14 DEF PlaneRows
    <2> QED  BY <2>1, <1>7
  <1>15. CASE f.field \in {"upper", "lower"}
    <2>1. PlaneRows(p, row) = FieldRows(p, row, Least(row \div 2, all - 1))
      BY <1>4, <1>15 DEF PlaneRows
    <2> QED  BY <2>1, <1>11
  <1> QED  BY <1>1, <1>12, <1>13, <1>14, <1>15 DEF Fields, Cpu!YiqField

\* A write pass over a frame.
WritesFrame(p, g, f) ==
    /\ p.field = f.field /\ p.mode = f.mode /\ p.height = g.h /\ p.width = g.w
    /\ p.rows = Cpu!ImageRows(f.field, g.h) /\ p.blit = WriteBlit(Blitted(g))

\* A chunk of a write pass writes one row of the rectangle, in its columns.
LEMMA WriteRowDoes ==
  ASSUME NEW g, GoodPicture(g), NEW f, GoodField(g, f),
         DOMAIN dst = 0..(Length(g) * g.h - 1), WritesFrame(pass, g, f),
         NEW c, RowChunk(c, Height(g.rect), Length(g)), WriteRow(c),
         NEW m \in 0..(g.h - 1), NEW column \in 0..(Length(g) - 1)
  PROVE  LET at == m * Length(g) + column
             rows == PlaneRows(pass, MemoryRow(g, m))
         IN dst'[at] = IF /\ m = g.rect.top + c.idx
                          /\ column - g.rect.left \in 0..(Width(g.rect) - 1)
                          /\ rows # {}
                       THEN {yiq[q * g.w + column] : q \in rows}
                       ELSE dst[at]
  <1> DEFINE L == Length(g)
             at == m * L + column
             b == pass.blit
             first == b.at.row * b.row_length + c.from
             Column(k) == k - first - b.at.column
             W == Width(g.rect)
             top == g.rect.top
             left == g.rect.left
             idx == c.idx
             above == top + idx
             planes == PlaneRows(pass, PictureRow(b, idx))
             Pixels(x) == {yiq[q * pass.width + x + b.rect.left] : q \in planes}
  <1>1. /\ g.w \in Nat \ {0} /\ g.h \in Nat \ {0} /\ g.pad \in Nat /\ g.dst_flip \in BOOLEAN
        /\ g.rect.bottom \in 0..g.h /\ g.rect.top \in 0..g.rect.bottom
        /\ g.rect.right \in 0..g.w /\ g.rect.left \in 0..g.rect.right
    BY DEF GoodPicture
  <1>2. L \in Nat \ {0}  BY <1>1 DEF Length
  <1>3. at \in DOMAIN dst  BY <1>1, <1>2, PlaceInBuffer
  <1>4. pass.width = g.w /\ b = WriteBlit(Blitted(g))  BY DEF WritesFrame
  <1>5. /\ b.at.row = top /\ b.at.column = left /\ b.rect.left = left
        /\ Width(b.rect) = W /\ b.row_length = L /\ b.height = g.h
        /\ \A x \in Nat : PictureRow(b, x) = MemoryRow(g, top + x)
    <2> HIDE DEF b, W
    <2>1. /\ b.at.row = g.rect.top /\ b.at.column = g.rect.left
          /\ b.rect.top = g.rect.top /\ b.rect.left = g.rect.left
          /\ Width(b.rect) = g.rect.right - g.rect.left
          /\ b.row_length = Length(g) /\ b.height = g.h
          /\ \A x \in Nat : PictureRow(b, x) = MemoryRow(g, g.rect.top + x)
      BY <1>4, WriteBlitIs
    <2>2. W = g.rect.right - g.rect.left  BY DEF W, Width
    <2> QED  BY <2>1, <2>2
  <1>6. idx \in 0..(Height(g.rect) - 1) /\ c.from = idx * L  BY DEF RowChunk
  <1>7. idx \in Nat /\ above \in Int /\ top \in Nat /\ left \in Nat /\ W \in Nat /\ left + W <= L
        /\ Height(g.rect) \in Int
    <2>1. idx \in Nat  BY <1>6
    <2>2. top \in Nat /\ left \in Nat  BY <1>1
    <2>3. W = g.rect.right - g.rect.left /\ L = g.w + g.pad /\ Height(g.rect) = g.rect.bottom - g.rect.top
      BY DEF Width, Length, Height
    <2>4. W \in Nat /\ left + W <= L /\ Height(g.rect) \in Int
      <3> DEFINE right == g.rect.right
                 bottom == g.rect.bottom
                 height == Height(g.rect)
      <3>1. /\ left \in Nat /\ right \in Nat /\ left <= right /\ right <= g.w
            /\ top \in Int /\ bottom \in Int
        BY <1>1
      <3>2. W = right - left /\ L = g.w + g.pad /\ height = bottom - top  BY <2>3
      <3> HIDE DEF W, L, left, right, top, bottom, height
      <3>3. W \in Nat /\ left + W <= L /\ height \in Int  BY <1>1, <3>1, <3>2
      <3> QED  BY <3>3 DEF height
    <2> HIDE DEF idx, top, left, W, L
    <2> QED  BY <2>1, <2>2, <2>4
  <1>8. dst'[at] = IF Column(at) \in 0..(W - 1) /\ planes # {} THEN Pixels(Column(at)) ELSE dst[at]
    <2>1. dst' = [k \in DOMAIN dst |->
                  IF Column(k) \in 0..(Width(b.rect) - 1) /\ planes # {}
                  THEN Pixels(Column(k)) ELSE dst[k]]
      BY DEF WriteRow
    <2> HIDE DEF at, Column, W, planes, Pixels, b
    <2> QED  BY <1>3, <1>5, <2>1
  <1>9. first = above * L
    <2>1. first = top * L + idx * L  BY <1>5, <1>6
    <2>2. (top + idx) * L = top * L + idx * L
      <3>1. top \in Int /\ idx \in Int /\ L \in Int  BY <1>2, <1>7
      <3> HIDE DEF top, idx, L
      <3> QED  BY <3>1, TimesSum
    <2> QED  BY <2>1, <2>2
  <1>10. Column(at) = (m * L + column) - above * L - left  BY <1>5, <1>9
  <1>11. m \in Int /\ column \in 0..(L - 1) /\ column \in Int  BY <1>2
  <1> DEFINE Written == Column(at) \in 0..(W - 1)
             Mine == m = above /\ column - left \in 0..(W - 1)
  <1>12. Written <=> Mine
    <2> HIDE DEF at, Column, above, L, left, W
    <2>1. (m * L + column) - above * L - left \in 0..(W - 1) <=> m = above /\ column - left \in 0..(W - 1)
      BY <1>2, <1>7, <1>11, InRow
    <2> QED  BY <1>10, <2>1
  <1>13. ASSUME m = above
         PROVE  /\ Column(at) = column - left /\ planes = PlaneRows(pass, MemoryRow(g, m))
                /\ Pixels(Column(at)) = {yiq[q * g.w + column] : q \in planes}
    <2>1. Column(at) = column - left
      <3>1. m * L = above * L /\ above * L \in Int  BY <1>2, <1>7, <1>13
      <3> DEFINE x == above * L
      <3> HIDE DEF above, L, Column, at, left, x
      <3>2. Column(at) = (x + column) - x - left  BY <1>10, <3>1 DEF x
      <3> QED  BY <1>7, <1>11, <3>1, <3>2 DEF x
    <2>2. PictureRow(b, idx) = MemoryRow(g, m)
      <3>1. PictureRow(b, idx) = MemoryRow(g, top + idx)
        <4> HIDE DEF b, top
        <4> QED  BY <1>5, <1>7
      <3> QED  BY <3>1, <1>13
    <2>3. planes = PlaneRows(pass, MemoryRow(g, m))  BY <2>2
    <2>4. planes \subseteq Int
      <3>1. MemoryRow(g, m) \in Int  BY <1>1, <1>11 DEF MemoryRow
      <3>2. WritesPicture(pass, g, f)  BY <1>5 DEF WritesFrame, WritesPicture
      <3>3. PlaneRows(pass, MemoryRow(g, m)) \subseteq Int  BY <3>1, <3>2, PlaneRowsAreRows
      <3> QED  BY <2>3, <3>3
    <2>5. ASSUME NEW q \in planes
          PROVE  q * pass.width + Column(at) + b.rect.left = q * g.w + column
      <3> DEFINE x == q * g.w
      <3>1. x \in Int  BY <1>1, <2>4
      <3>2. q * pass.width + Column(at) + b.rect.left = x + (column - left) + left  BY <1>4, <1>5, <2>1
      <3> HIDE DEF x, left
      <3> QED  BY <1>7, <1>11, <3>1, <3>2 DEF x
    <2> HIDE DEF Column, at, b, planes, left
    <2>6. Pixels(Column(at)) = {yiq[q * g.w + column] : q \in planes}  BY <2>5
    <2> QED  BY <2>1, <2>3, <2>6
  <1> HIDE DEF at, Column, W, planes, Pixels, above, left, top, L, b, idx
  <1>14. dst'[at] = IF Mine /\ PlaneRows(pass, MemoryRow(g, m)) # {}
                    THEN {yiq[q * g.w + column] : q \in PlaneRows(pass, MemoryRow(g, m))}
                    ELSE dst[at]
    BY <1>8, <1>12, <1>13
  <1> QED  BY <1>14 DEF at, L, above, top, idx, left, W

-----------------------------------------------------------------------------
(* The planes and the picture while a frame is rendered: what holds of each  *)
(* sample and each pixel, by how many passes have begun and which offsets of *)
(* its buffer the last of them is done with.                                 *)

\* Whether a sample, in a view's row and column, was set and was filtered.
SetOffset(g, v, r, column) == (r - SkippedRows(v.field, g.layer.row)) * g.w + column
IsSet(g, f, begun, done, i, r, column) ==
    begun > i \/ (begun = i /\ SetOffset(g, Views(f.field, g.h)[i], r, column) \in done)
IsFiltered(g, f, begun, done, i, r, column) ==
    LET n == Len(Views(f.field, g.h)) + i IN begun > n \/ (begun = n /\ r * g.w + column \in done)

\* A sample before its view is set is blank, or about to be overwritten.
SampleIs(g, f, frame, begun, done, samples, i, r, column) ==
    LET v == Views(f.field, g.h)[i]
        row == ViewRow(v.field, g.h, r)
        sample == samples[SampleAt(g, v, r, column)]
        set == IsSet(g, f, begun, done, i, r, column)
        filtered == IsFiltered(g, f, begun, done, i, r, column)
    IN /\ ~set => Covers(g, row, column) \/ sample = Blank
       /\ set /\ ~filtered => sample = Pixel(g, frame, row, column)
       /\ filtered => sample = Append(Pixel(g, frame, row, column), RowNumber(f, row))

SamplesAre(g, f, frame, begun, done, samples) ==
    LET views == Views(f.field, g.h)
    IN \A i \in 1..Len(views) : \A r \in 0..(views[i].rows - 1) : \A column \in 0..(g.w - 1) :
          SampleIs(g, f, frame, begun, done, samples, i, r, column)

\* The pixels of the other buffer, in its row m: there are none before they are
\* written, and then those of the reference.
Wanted(g, f, frame, m, column) ==
    IF column >= g.w THEN {} ELSE Expected(g, f, frame, MemoryRow(g, m), column)
IsWritten(g, f, begun, done, m, column) ==
    /\ begun = 2 * Len(Views(f.field, g.h)) + 1
    /\ (m - g.rect.top) * Length(g) + column \in done
PixelIs(g, f, frame, begun, done, pixels, m, column) ==
    pixels[m * Length(g) + column]
       = IF IsWritten(g, f, begun, done, m, column) THEN Wanted(g, f, frame, m, column) ELSE {}
PixelsAre(g, f, frame, begun, done, pixels) ==
    \A m \in 0..(g.h - 1) : \A column \in 0..(Length(g) - 1) :
       PixelIs(g, f, frame, begun, done, pixels, m, column)

-----------------------------------------------------------------------------
(* Before the first pass, and from one pass to the next                      *)

\* How many views a frame has.
LEMMA ViewCount ==
  ASSUME NEW g, GoodPicture(g), NEW f, GoodField(g, f)
  PROVE  /\ Len(Views(f.field, g.h)) \in {1, 2}
         /\ \A i \in 1..Len(Views(f.field, g.h)) : ViewOf(Views(f.field, g.h)[i], f.field, g.h)
  <1>1. f.field \in Fields /\ g.h \in Nat \ {0}  BY DEF GoodField, GoodPicture
  <1> QED  BY <1>1, ViewsAre DEF ViewsOf

\* The rows of the views are rows of the picture.
LEMMA ViewRowInPicture ==
  ASSUME NEW field, NEW height \in Nat \ {0}, NEW v, ViewOf(v, field, height),
         NEW r \in 0..(v.rows - 1)
  PROVE  ViewRow(v.field, height, r) \in 0..(height - 1)
  <1>1. v.field \in {"upper", "lower", "both"} /\ v.rows = Cpu!ImageRows(v.field, height)
    BY DEF ViewOf
  <1>2. /\ 2 * ((height + 1) \div 2) \in {height, height + 1} /\ (height + 1) \div 2 \in Nat
        /\ 2 * (height \div 2) \in {height, height - 1} /\ height \div 2 \in Nat
    BY HalvesOf
  <1>3. CASE v.field = "upper"
    <2>1. v.rows = (height + 1) \div 2  BY <1>1, <1>3, ImageRowsIs
    <2>2. ViewRow(v.field, height, r) = 2 * r  BY <1>3 DEF ViewRow
    <2> QED  BY <1>2, <2>1, <2>2
  <1>4. CASE v.field = "lower" /\ height # 1
    <2>1. v.rows = height \div 2  BY <1>1, <1>4, ImageRowsIs
    <2>2. ViewRow(v.field, height, r) = 2 * r + 1  BY <1>4 DEF ViewRow
    <2> QED  BY <1>2, <2>1, <2>2
  <1>5. CASE v.field = "lower" /\ height = 1
    <2>1. ViewRow(v.field, height, r) = 0  BY <1>5 DEF ViewRow
    <2> QED  BY <1>5, <2>1
  <1>6. CASE v.field = "both"
    <2>1. v.rows = height  BY <1>1, <1>6, ImageRowsIs
    <2>2. ViewRow(v.field, height, r) = r  BY <1>6 DEF ViewRow
    <2> QED  BY <2>1, <2>2
  <1> QED  BY <1>1, <1>3, <1>4, <1>5, <1>6

\* The samples of a new buffer, and of an old one if the layer is the frame.
LEMMA SamplesAtStart ==
  ASSUME NEW g, GoodPicture(g), NEW f, GoodField(g, f), NEW frame, NEW done, NEW samples,
         \/ samples = NewBuffer(Samples(f.field, g.w, g.h))
         \/ g.layer.row = 0 /\ g.layer.column = 0 /\ g.layer.height = g.h /\ g.layer.width = g.w
  PROVE  SamplesAre(g, f, frame, 0, done, samples)
  <1> DEFINE views == Views(f.field, g.h)
             n == Len(views)
  <1>1. f.field \in Fields /\ g.h \in Nat \ {0} /\ g.w \in Nat \ {0}  BY DEF GoodField, GoodPicture
  <1>2. n \in {1, 2} /\ \A i \in 1..n : ViewOf(views[i], f.field, g.h)  BY ViewCount
  <1>3. SUFFICES ASSUME NEW i \in 1..n, NEW r \in 0..(views[i].rows - 1), NEW column \in 0..(g.w - 1)
                 PROVE  SampleIs(g, f, frame, 0, done, samples, i, r, column)
    BY DEF SamplesAre
  <1> DEFINE at == SampleAt(g, views[i], r, column)
             row == ViewRow(views[i].field, g.h, r)
  <1>4. ~IsSet(g, f, 0, done, i, r, column)  BY DEF IsSet
  <1>5. ~IsFiltered(g, f, 0, done, i, r, column)
    <2>1. n + i # 0 /\ ~(0 > n + i)  BY <1>2
    <2> HIDE DEF n
    <2> QED  BY <2>1 DEF IsFiltered, n
  <1>6. Covers(g, row, column) \/ samples[at] = Blank
    <2>1. CASE samples = NewBuffer(Samples(f.field, g.w, g.h))
      <3>1. at \in 0..(Samples(f.field, g.w, g.h) - 1)  BY <1>1, SampleInBuffer
      <3> HIDE DEF at
      <3> QED  BY <2>1, <3>1 DEF NewBuffer
    <2>2. CASE g.layer.row = 0 /\ g.layer.column = 0 /\ g.layer.height = g.h /\ g.layer.width = g.w
      <3>1. row \in 0..(g.h - 1)  BY <1>1, <1>2, ViewRowInPicture
      <3> HIDE DEF row
      <3> QED  BY <1>1, <2>2, <3>1 DEF Covers
    <2> QED  BY <2>1, <2>2
  <1> QED  BY <1>4, <1>5, <1>6 DEF SampleIs

\* A pass that is over is like the next one before its first chunk.
LEMMA SamplesNextPass ==
  ASSUME NEW g, GoodPicture(g), NEW f, GoodField(g, f), NEW frame, NEW samples, NEW begun \in Nat,
         SamplesAre(g, f, frame, begun, Int, samples)
  PROVE  SamplesAre(g, f, frame, begun + 1, {}, samples)
  <1> DEFINE views == Views(f.field, g.h)
             n == Len(views)
  <1>1. f.field \in Fields /\ g.h \in Nat \ {0} /\ g.w \in Nat \ {0} /\ g.layer.row \in Nat
    BY DEF GoodField, GoodPicture
  <1>2. n \in {1, 2} /\ \A i \in 1..n : ViewOf(views[i], f.field, g.h)  BY ViewCount
  <1>3. SUFFICES ASSUME NEW i \in 1..n, NEW r \in 0..(views[i].rows - 1), NEW column \in 0..(g.w - 1)
                 PROVE  SampleIs(g, f, frame, begun + 1, {}, samples, i, r, column)
    BY DEF SamplesAre
  <1>4. SampleIs(g, f, frame, begun, Int, samples, i, r, column)  BY DEF SamplesAre
  <1>5. SetOffset(g, views[i], r, column) \in Int /\ r * g.w + column \in Int
    <2>1. SkippedRows(views[i].field, g.layer.row) \in Int
      <3> DEFINE v == views[i]
      <3>1. ViewOf(v, f.field, g.h)  BY <1>2
      <3> HIDE DEF v
      <3>2. SkippedRows(v.field, g.layer.row) \in Nat  BY <3>1, RowsRead
      <3> QED  BY <3>2 DEF v
    <2> DEFINE skip == SkippedRows(views[i].field, g.layer.row)
    <2> HIDE DEF skip, views
    <2>2. (r - skip) * g.w + column \in Int  BY <1>1, <2>1 DEF skip
    <2> QED  BY <1>1, <2>2 DEF skip, SetOffset
  <1>6. IsSet(g, f, begun + 1, {}, i, r, column) <=> IsSet(g, f, begun, Int, i, r, column)
    <2>1. begun + 1 > i <=> begun > i \/ begun = i  OBVIOUS
    <2> QED  BY <1>5, <2>1 DEF IsSet
  <1>7. IsFiltered(g, f, begun + 1, {}, i, r, column) <=> IsFiltered(g, f, begun, Int, i, r, column)
    <2> DEFINE k == n + i
    <2>1. k \in Int  BY <1>2
    <2> HIDE DEF k
    <2>2. begun + 1 > k <=> begun > k \/ begun = k  BY <2>1
    <2> QED  BY <1>5, <2>2 DEF IsFiltered, k
  <1> QED  BY <1>4, <1>6, <1>7 DEF SampleIs

\* Nothing is written before the last pass.
LEMMA PixelsBefore ==
  ASSUME NEW g, NEW f, NEW frame, NEW pixels, NEW begun, NEW done,
         begun # 2 * Len(Views(f.field, g.h)) + 1 \/ done = {},
         \A m \in 0..(g.h - 1) : \A column \in 0..(Length(g) - 1) : pixels[m * Length(g) + column] = {}
  PROVE  PixelsAre(g, f, frame, begun, done, pixels)
  BY DEF PixelsAre, PixelIs, IsWritten

\* Before the last pass no pixel is written.
LEMMA PixelsNone ==
  ASSUME NEW g, NEW f, NEW frame, NEW pixels, NEW begun, NEW done,
         begun # 2 * Len(Views(f.field, g.h)) + 1, PixelsAre(g, f, frame, begun, done, pixels)
  PROVE  \A m \in 0..(g.h - 1) : \A column \in 0..(Length(g) - 1) : pixels[m * Length(g) + column] = {}
  BY DEF PixelsAre, PixelIs, IsWritten

-----------------------------------------------------------------------------
(* A chunk of each pass                                                      *)

\* The offsets of a chunk; a loop's last chunk to come has none that is done.
Slice(c) == {at \in Int : c.from <= at /\ at < c.to}
ChunkNew(c, done) == done \cap Slice(c) = {}

\* A row's offsets are those of its chunk.
LEMMA RowInSlice ==
  ASSUME NEW rows \in Nat, NEW w \in Nat \ {0}, NEW c, RowChunk(c, rows, w),
         NEW a \in Int, NEW column \in 0..(w - 1)
  PROVE  a * w + column \in Int /\ (a * w + column \in Slice(c) <=> a = c.idx)
  <1>1. a * w + column \in Int
    <2>1. a * w \in Int  OBVIOUS
    <2> QED  BY <2>1
  <1>2. c.from <= a * w + column /\ a * w + column < c.to <=> a = c.idx  BY InRowChunk
  <1> QED  BY <1>1, <1>2 DEF Slice

\* What is known of the rows of a view that are read.
LEMMA RowsReadType ==
  ASSUME NEW g, GoodPicture(g), NEW field, NEW v, ViewOf(v, field, g.h)
  PROVE  LET rows == RectRows(v, SetBlit(g))
             skip == SkippedRows(v.field, g.layer.row)
         IN /\ rows \in Nat /\ skip \in Nat /\ skip + rows <= v.rows
            /\ \A r \in 0..(v.rows - 1) :
                  ViewRow(v.field, g.h, r) - g.layer.row \in 0..(g.layer.height - 1)
                     => r - skip \in 0..(rows - 1)
  BY RowsRead

\* A chunk of a set pass sets the samples of its offsets, and no other ones.
LEMMA SamplesSet ==
  ASSUME NEW g, GoodPicture(g), NEW f, GoodField(g, f), NEW frame,
         DOMAIN yiq = 0..(Samples(f.field, g.w, g.h) - 1),
         NEW j \in 1..Len(Views(f.field, g.h)), SetsView(pass, g, frame, Views(f.field, g.h)[j]),
         NEW c, RowChunk(c, RectRows(Views(f.field, g.h)[j], SetBlit(g)), g.w), SetRow(c),
         NEW done, ChunkNew(c, done), SamplesAre(g, f, frame, j, done, yiq)
  PROVE  SamplesAre(g, f, frame, j, done \cup Slice(c), yiq')
  <1> DEFINE views == Views(f.field, g.h)
             n == Len(views)
             rows == RectRows(views[j], SetBlit(g))
  <1>1. f.field \in Fields /\ g.h \in Nat \ {0} /\ g.w \in Nat \ {0} /\ g.layer.row \in Nat
        /\ g.layer.column \in Nat
    BY DEF GoodField, GoodPicture
  <1>2. n \in {1, 2} /\ \A i \in 1..n : ViewOf(views[i], f.field, g.h)  BY ViewCount
  <1>3. SUFFICES ASSUME NEW i \in 1..n, NEW r \in 0..(views[i].rows - 1), NEW column \in 0..(g.w - 1)
                 PROVE  SampleIs(g, f, frame, j, done \cup Slice(c), yiq', i, r, column)
    BY DEF SamplesAre
  <1> DEFINE v == views[i]
             at == SampleAt(g, v, r, column)
             row == ViewRow(v.field, g.h, r)
             skip == SkippedRows(v.field, g.layer.row)
             pixel == Pixel(g, frame, row, column)
             Inside == column - g.layer.column \in 0..(Width(SetBlit(g).rect) - 1)
             Mine == i = j /\ r = skip + c.idx
             set == IsSet(g, f, j, done, i, r, column)
             set2 == IsSet(g, f, j, done \cup Slice(c), i, r, column)
  <1>4. SampleIs(g, f, frame, j, done, yiq, i, r, column)  BY DEF SamplesAre
  <1>5. yiq'[at] = IF Mine /\ Inside THEN pixel ELSE yiq[at]
    <2>1. yiq'[at] = IF i = j /\ r = skip + c.idx /\ Inside THEN pixel ELSE yiq[at]
      <3> DEFINE field == f.field
      <3>1. SetsRow(g, field, frame, j, c) /\ InBuffer(g, field, i, r, column)
        BY <1>1 DEF SetsRow, InBuffer
      <3>2. at = SampleAt(g, Views(field, g.h)[i], r, column) /\ v = Views(field, g.h)[i]  OBVIOUS
      <3> HIDE DEF field, at, pixel, v
      <3>3. yiq'[at] = IF i = j /\ r = SkippedRows(v.field, g.layer.row) + c.idx
                          /\ column - g.layer.column \in 0..(Width(SetBlit(g).rect) - 1)
                       THEN Pixel(g, frame, ViewRow(v.field, g.h, r), column) ELSE yiq[at]
        BY <3>1, <3>2, SetRowDoes
      <3> QED  BY <3>3 DEF pixel
    <2> HIDE DEF at, pixel, Inside, skip
    <2> QED  BY <2>1
  <1>6. ~IsFiltered(g, f, j, done, i, r, column) /\ ~IsFiltered(g, f, j, done \cup Slice(c), i, r, column)
    <2> DEFINE k == n + i
    <2>1. ~(j > k) /\ j # k  BY <1>2
    <2> HIDE DEF k
    <2> QED  BY <2>1 DEF IsFiltered, k
  <1>7. rows \in Nat /\ skip \in Nat
    <2>1. ViewOf(views[j], f.field, g.h) /\ ViewOf(v, f.field, g.h)  BY <1>2
    <2> DEFINE u == views[j]
    <2> HIDE DEF u, v
    <2>2. RectRows(u, SetBlit(g)) \in Nat /\ SkippedRows(v.field, g.layer.row) \in Nat
      BY <2>1, RowsReadType DEF u
    <2> QED  BY <2>2 DEF u
  <1>8. i = j => (SetOffset(g, v, r, column) \in Slice(c) <=> Mine)
    <2>1. r - skip \in Int  BY <1>7
    <2> DEFINE a == r - skip
    <2>2. SetOffset(g, v, r, column) = a * g.w + column  BY DEF SetOffset
    <2>3. RowChunk(c, rows, g.w)  OBVIOUS
    <2>4. c.idx \in Int /\ r \in Int /\ column \in 0..(g.w - 1)  BY <1>7 DEF RowChunk
    <2> HIDE DEF a, rows, skip, v, views
    <2>5. a * g.w + column \in Slice(c) <=> a = c.idx  BY <1>1, <1>7, <2>1, <2>3, <2>4, RowInSlice DEF a
    <2>6. a = c.idx <=> r = skip + c.idx  BY <1>7, <2>4 DEF a
    <2> QED  BY <2>2, <2>5, <2>6
  <1>9. CASE ~Mine
    <2>1. set <=> set2
      <3>1. i # j => (set <=> j > i) /\ (set2 <=> j > i)  BY DEF IsSet
      <3>2. i = j => (set <=> SetOffset(g, v, r, column) \in done)
                     /\ (set2 <=> SetOffset(g, v, r, column) \in done \cup Slice(c))
        BY DEF IsSet
      <3> HIDE DEF set, set2, v
      <3> QED  BY <1>8, <1>9, <3>1, <3>2
    <2>2. yiq'[at] = yiq[at]  BY <1>5, <1>9
    <2> HIDE DEF views
    <2> QED  BY <1>4, <1>6, <2>1, <2>2 DEF SampleIs, views
  <1>10. CASE Mine
    <2>1. set2 /\ ~set
      <3>1. SetOffset(g, v, r, column) \in Slice(c)  BY <1>8, <1>10
      <3>2. SetOffset(g, v, r, column) \notin done  BY <3>1 DEF ChunkNew
      <3>3. i = j /\ ~(j > i)  BY <1>10
      <3> HIDE DEF v, views
      <3> QED  BY <3>1, <3>2, <3>3 DEF IsSet, v, views
    <2>2. yiq'[at] = pixel
      <3>1. CASE Inside  BY <1>5, <1>10, <3>1
      <3>2. CASE ~Inside
        <4>1. Covers(g, row, column) \/ yiq[at] = Blank  BY <1>4, <2>1 DEF SampleIs
        <4>2. column - g.layer.column \notin 0..(g.layer.width - 1)  BY <3>2, ColumnNotRead
        <4>3. ~Covers(g, row, column)  BY <4>2 DEF Covers
        <4>4. yiq[at] = Blank /\ pixel = Blank  BY <4>1, <4>3 DEF Pixel
        <4> QED  BY <1>5, <3>2, <4>4
      <3> QED  BY <3>1, <3>2
    <2> HIDE DEF views
    <2> QED  BY <1>6, <2>1, <2>2 DEF SampleIs, views
  <1> QED  BY <1>9, <1>10

\* A chunk of a filter pass appends their row's number to the samples of its
\* offsets, each of which gets it once.
LEMMA SamplesFilter ==
  ASSUME NEW g, GoodPicture(g), NEW f, GoodField(g, f), NEW frame,
         DOMAIN yiq = 0..(Samples(f.field, g.w, g.h) - 1),
         NEW j \in 1..Len(Views(f.field, g.h)), pass.first = Views(f.field, g.h)[j].base * g.w,
         \A r \in 0..(Views(f.field, g.h)[j].rows - 1) :
            pass.number = RowNumber(f, ViewRow(Views(f.field, g.h)[j].field, g.h, r)),
         NEW c, c.from \in Nat, c.to \in Nat, c.to <= Views(f.field, g.h)[j].rows * g.w, FilterChunk(c),
         NEW begun, begun = Len(Views(f.field, g.h)) + j,
         NEW done, ChunkNew(c, done), SamplesAre(g, f, frame, begun, done, yiq)
  PROVE  SamplesAre(g, f, frame, begun, done \cup Slice(c), yiq')
  <1> DEFINE views == Views(f.field, g.h)
             n == Len(views)
  <1>1. f.field \in Fields /\ g.h \in Nat \ {0} /\ g.w \in Nat \ {0}
    BY DEF GoodField, GoodPicture
  <1>2. n \in {1, 2} /\ \A i \in 1..n : ViewOf(views[i], f.field, g.h)  BY ViewCount
  <1>3. SUFFICES ASSUME NEW i \in 1..n, NEW r \in 0..(views[i].rows - 1), NEW column \in 0..(g.w - 1)
                 PROVE  SampleIs(g, f, frame, begun, done \cup Slice(c), yiq', i, r, column)
    BY DEF SamplesAre
  <1> DEFINE v == views[i]
             at == SampleAt(g, v, r, column)
             row == ViewRow(v.field, g.h, r)
             pixel == Pixel(g, frame, row, column)
             Mine == i = j /\ r * g.w + column \in Slice(c)
             filtered == IsFiltered(g, f, begun, done, i, r, column)
             filtered2 == IsFiltered(g, f, begun, done \cup Slice(c), i, r, column)
  <1>4. SampleIs(g, f, frame, begun, done, yiq, i, r, column)  BY DEF SamplesAre
  <1>5. yiq'[at] = IF Mine THEN Append(yiq[at], pass.number) ELSE yiq[at]
    <2>1. yiq'[at] = IF i = j /\ c.from <= r * g.w + column /\ r * g.w + column < c.to
                     THEN Append(yiq[at], pass.number) ELSE yiq[at]
      <3> DEFINE field == f.field
      <3>1. Filters(g, field, j, c) /\ InBuffer(g, field, i, r, column)
        BY <1>1 DEF Filters, InBuffer
      <3>2. at = SampleAt(g, Views(field, g.h)[i], r, column)  OBVIOUS
      <3> HIDE DEF field, at
      <3> QED  BY <3>1, <3>2, FilterDoes
    <2>2. r * g.w + column \in Int
      <3>1. r * g.w \in Int  BY <1>1
      <3> QED  BY <3>1
    <2> HIDE DEF at
    <2> QED  BY <2>1, <2>2 DEF Slice
  <1>6. IsSet(g, f, begun, done, i, r, column) /\ IsSet(g, f, begun, done \cup Slice(c), i, r, column)
    <2>1. begun > i  BY <1>2
    <2> QED  BY <2>1 DEF IsSet
  <1>7. begun \in Int /\ n + i \in Int /\ (begun = n + i <=> i = j)  BY <1>2
  <1>8. CASE ~Mine
    <2>1. filtered <=> filtered2
      <3>1. i # j => (filtered <=> begun > n + i) /\ (filtered2 <=> begun > n + i)
        BY <1>7 DEF IsFiltered
      <3>2. i = j => (filtered <=> begun > n + i \/ r * g.w + column \in done)
                     /\ (filtered2 <=> begun > n + i \/ r * g.w + column \in done \cup Slice(c))
        BY <1>7 DEF IsFiltered
      <3> HIDE DEF filtered, filtered2
      <3> QED  BY <1>8, <3>1, <3>2
    <2>2. yiq'[at] = yiq[at]  BY <1>5, <1>8
    <2> HIDE DEF views
    <2> QED  BY <1>4, <1>6, <2>1, <2>2 DEF SampleIs, views
  <1>9. CASE Mine
    <2>1. filtered2 /\ ~filtered
      <3>1. r * g.w + column \notin done  BY <1>9 DEF ChunkNew
      <3>2. begun = n + i /\ ~(begun > n + i)  BY <1>7, <1>9
      <3> QED  BY <1>9, <3>1, <3>2 DEF IsFiltered
    <2>2. yiq[at] = pixel  BY <1>4, <1>6, <2>1 DEF SampleIs
    <2>3. pass.number = RowNumber(f, row)  BY <1>9
    <2>4. yiq'[at] = Append(pixel, RowNumber(f, row))
      <3> HIDE DEF at, pixel, row
      <3> QED  BY <1>5, <1>9, <2>2, <2>3
    <2> HIDE DEF views
    <2> QED  BY <1>6, <2>1, <2>4 DEF SampleIs, views
  <1> QED  BY <1>8, <1>9

\* When the last pass runs, all samples are filtered.
LEMMA SamplesFiltered ==
  ASSUME NEW g, GoodPicture(g), NEW f, GoodField(g, f), NEW frame, NEW done, NEW samples,
         SamplesAre(g, f, frame, 2 * Len(Views(f.field, g.h)) + 1, done, samples)
  PROVE  /\ \A other : SamplesAre(g, f, frame, 2 * Len(Views(f.field, g.h)) + 1, other, samples)
         /\ \A column \in 0..(g.w - 1) : ColumnFiltered(samples, g, f, frame, column)
  <1> DEFINE views == Views(f.field, g.h)
             n == Len(views)
             last == 2 * n + 1
             Sample(i, r, column) == samples[SampleAt(g, views[i], r, column)]
             Row(i, r) == ViewRow(views[i].field, g.h, r)
  <1>1. n \in {1, 2}  BY ViewCount
  <1>2. \A i \in 1..n : last > i /\ last > n + i  BY <1>1
  <1>3. \A d : \A i \in 1..n : \A r, column : IsSet(g, f, last, d, i, r, column) /\ IsFiltered(g, f, last, d, i, r, column)
    <2> HIDE DEF last
    <2> QED  BY <1>2 DEF IsSet, IsFiltered
  <1>4. ASSUME NEW i \in 1..n, NEW r \in 0..(views[i].rows - 1), NEW column \in 0..(g.w - 1)
        PROVE  Sample(i, r, column) = Append(Pixel(g, frame, Row(i, r), column), RowNumber(f, Row(i, r)))
    <2>1. SampleIs(g, f, frame, last, done, samples, i, r, column)  BY DEF SamplesAre
    <2> HIDE DEF last, views
    <2> QED  BY <1>3, <2>1 DEF SampleIs, views
  <1>5. ASSUME NEW other  PROVE SamplesAre(g, f, frame, last, other, samples)
    <2>1. SUFFICES ASSUME NEW i \in 1..n, NEW r \in 0..(views[i].rows - 1), NEW column \in 0..(g.w - 1)
                   PROVE  SampleIs(g, f, frame, last, other, samples, i, r, column)
      BY DEF SamplesAre
    <2>2. Sample(i, r, column) = Append(Pixel(g, frame, Row(i, r), column), RowNumber(f, Row(i, r)))
      BY <1>4
    <2> HIDE DEF last, views
    <2> QED  BY <1>3, <2>2 DEF SampleIs, views
  <1>6. ASSUME NEW column \in 0..(g.w - 1)  PROVE ColumnFiltered(samples, g, f, frame, column)
    <2>1. \A row : Rendered(g, f, frame, row, column) = Append(Pixel(g, frame, row, column), RowNumber(f, row))
      BY DEF Rendered, Pixel, Covers
    <2>2. \A i \in 1..n : \A r \in 0..(views[i].rows - 1) :
             Sample(i, r, column) = Rendered(g, f, frame, Row(i, r), column)
      BY <1>4, <2>1
    <2> QED  BY <2>2 DEF ColumnFiltered
  <1> QED  BY <1>5, <1>6

\* A chunk of the write pass writes the pixels of its offsets as they should be.
LEMMA PixelsWritten ==
  ASSUME NEW g, GoodPicture(g), NEW f, GoodField(g, f), NEW frame,
         DOMAIN dst = 0..(Length(g) * g.h - 1), WritesFrame(pass, g, f),
         NEW c, RowChunk(c, Height(g.rect), Length(g)), WriteRow(c),
         NEW done, ChunkNew(c, done), NEW begun, begun = 2 * Len(Views(f.field, g.h)) + 1,
         SamplesAre(g, f, frame, begun, done, yiq), PixelsAre(g, f, frame, begun, done, dst)
  PROVE  PixelsAre(g, f, frame, begun, done \cup Slice(c), dst')
  <1> DEFINE L == Length(g)
             top == g.rect.top
             bottom == g.rect.bottom
             left == g.rect.left
             right == g.rect.right
             height == Height(g.rect)
             idx == c.idx
  <1>1. /\ g.w \in Nat \ {0} /\ g.h \in Nat \ {0} /\ g.pad \in Nat /\ g.dst_flip \in BOOLEAN
        /\ bottom \in 0..g.h /\ top \in 0..bottom /\ right \in 0..g.w /\ left \in 0..right
    BY DEF GoodPicture
  <1>2. g.dst_flip => top = 0 /\ bottom = g.h  BY DEF GoodPicture, Rect
  <1>3. L \in Nat \ {0} /\ g.w <= L  BY <1>1 DEF Length
  <1>4. height = bottom - top /\ height \in Nat /\ Width(g.rect) = right - left
    <2>1. height = bottom - top /\ Width(g.rect) = right - left  BY DEF Height, Width
    <2> HIDE DEF height, top, bottom
    <2> QED  BY <1>1, <2>1
  <1>5. idx \in 0..(height - 1)  BY DEF RowChunk
  <1>6. SUFFICES ASSUME NEW m \in 0..(g.h - 1), NEW column \in 0..(L - 1)
                 PROVE  PixelIs(g, f, frame, begun, done \cup Slice(c), dst', m, column)
    BY DEF PixelsAre
  <1> DEFINE at == m * L + column
             row == MemoryRow(g, m)
             rows == PlaneRows(pass, row)
             offset == (m - top) * L + column
             Inside == column - left \in 0..(right - left - 1)
  <1>7. PixelIs(g, f, frame, begun, done, dst, m, column)  BY DEF PixelsAre
  <1>8. dst'[at] = IF m = top + idx /\ Inside /\ rows # {}
                   THEN {yiq[q * g.w + column] : q \in rows} ELSE dst[at]
    <2>1. dst'[at] = IF m = top + idx /\ column - left \in 0..(Width(g.rect) - 1) /\ rows # {}
                     THEN {yiq[q * g.w + column] : q \in rows} ELSE dst[at]
      BY WriteRowDoes
    <2> HIDE DEF at, rows, top, idx, left, right
    <2> QED  BY <2>1, <1>4
  <1>9. m \in Int /\ column \in Int  BY <1>3
  <1>10. offset \in Slice(c) <=> m = top + idx
    <2> DEFINE a == m - top
    <2>1. a \in Int /\ idx \in Int  BY <1>1, <1>5, <1>9
    <2>2. RowChunk(c, height, L)  OBVIOUS
    <2>3. column \in 0..(L - 1)  OBVIOUS
    <2> HIDE DEF a, L, height
    <2>4. a * L + column \in Slice(c) <=> a = idx  BY <1>3, <1>4, <2>1, <2>2, <2>3, RowInSlice
    <2>5. a = idx <=> m = top + idx  BY <1>1, <1>9, <2>1 DEF a
    <2> QED  BY <2>4, <2>5 DEF a
  <1>11. CASE m # top + idx
    <2>1. dst'[at] = dst[at]  BY <1>8, <1>11
    <2>2. offset \in done \cup Slice(c) <=> offset \in done  BY <1>10, <1>11
    <2> QED  BY <1>7, <2>1, <2>2 DEF PixelIs, IsWritten
  <1>12. CASE m = top + idx
    <2>1. offset \in Slice(c) /\ offset \notin done  BY <1>10, <1>12 DEF ChunkNew
    <2>2. dst[at] = {}  BY <1>7, <2>1 DEF PixelIs, IsWritten
    <2>3. SUFFICES dst'[at] = Wanted(g, f, frame, m, column)
      BY <2>1 DEF PixelIs, IsWritten
    <2>4. m \in top..(bottom - 1)
      <3>1. top \in Int /\ bottom \in Int  BY <1>1
      <3>2. idx \in 0..(height - 1) /\ height = bottom - top  BY <1>4, <1>5
      <3>3. m = top + idx  BY <1>12
      <3> HIDE DEF top, bottom, height, idx
      <3>4. height \in Int  BY <3>1, <3>2
      <3> QED  BY <3>1, <3>2, <3>3, <3>4
    <2>5. row \in 0..(g.h - 1) /\ row \in top..(bottom - 1)
      <3> HIDE DEF top, bottom
      <3> QED  BY <1>1, <1>2, <1>9, <2>4 DEF MemoryRow
    <2>6. CASE column >= g.w
      <3>1. ~Inside  BY <1>1, <1>9, <2>6
      <3>2. dst'[at] = {}  BY <1>8, <2>2, <3>1
      <3> QED  BY <2>6, <3>2 DEF Wanted
    <2>7. CASE ~(column >= g.w)
      <3>1. Wanted(g, f, frame, m, column) = Expected(g, f, frame, row, column)  BY <2>7 DEF Wanted
      <3>2. column \in 0..(g.w - 1)  BY <1>1, <1>9, <2>7
      <3>3. Inside <=> column \in left..(right - 1)
        <4>1. left \in Int /\ right \in Int /\ column \in Int  BY <1>1, <1>9
        <4> HIDE DEF left, right
        <4> QED  BY <4>1
      <3>4. CASE ~Inside
        <4>1. dst'[at] = {}  BY <1>8, <2>2, <3>4
        <4>2. Expected(g, f, frame, row, column) = {}  BY <3>3, <3>4 DEF Expected
        <4> QED  BY <3>1, <4>1, <4>2
      <3>5. CASE Inside
        <4>1. ColumnFiltered(yiq, g, f, frame, column)  BY <3>2, SamplesFiltered
        <4>2. WritesPicture(pass, g, f)
          <5> DEFINE b == pass.blit
          <5>1. b = WriteBlit(Blitted(g))  BY DEF WritesFrame
          <5> HIDE DEF b
          <5>2. b.height = g.h  BY <5>1, WriteBlitIs
          <5> QED  BY <5>2 DEF WritesFrame, WritesPicture, b
        <4>3. column \in left..(right - 1)  BY <3>3, <3>5
        <4>4. /\ rows = {} => Expected(g, f, frame, row, column) = {}
              /\ rows # {} =>
                   {yiq[q * g.w + column] : q \in rows} = Expected(g, f, frame, row, column)
          <5> DEFINE p == pass
                     samples == yiq
          <5>1. InRect(g, row, column)  BY <2>5, <4>3 DEF InRect
          <5>2. WritesPicture(p, g, f) /\ ColumnFiltered(samples, g, f, frame, column)  BY <4>1, <4>2
          <5> HIDE DEF p, samples, row
          <5>3. /\ PlaneRows(p, row) = {} => Expected(g, f, frame, row, column) = {}
                /\ PlaneRows(p, row) # {} =>
                     {samples[q * g.w + column] : q \in PlaneRows(p, row)} = Expected(g, f, frame, row, column)
            BY <5>1, <5>2, WantedPixels
          <5> QED  BY <5>3 DEF p, samples
        <4> HIDE DEF rows, at, row
        <4>5. CASE rows = {}  BY <1>8, <2>2, <3>1, <4>4, <4>5
        <4>6. CASE rows # {}  BY <1>8, <1>12, <3>1, <3>5, <4>4, <4>6
        <4> QED  BY <4>5, <4>6
      <3> QED  BY <3>4, <3>5
    <2> QED  BY <2>6, <2>7
  <1> QED  BY <1>11, <1>12

-----------------------------------------------------------------------------
(* A pass whose loop has returned: no offset is left                          *)

\* The offsets of a buffer of this length.
Offsets(n) == 0..(n - 1)

\* A view that was set is set to its last sample: what the layer has no row for
\* was blank.
LEMMA SamplesSetDone ==
  ASSUME NEW g, GoodPicture(g), NEW f, GoodField(g, f), NEW frame,
         NEW j \in 1..Len(Views(f.field, g.h)), NEW samples,
         SamplesAre(g, f, frame, j, Offsets(RectRows(Views(f.field, g.h)[j], SetBlit(g)) * g.w), samples)
  PROVE  SamplesAre(g, f, frame, j, Int, samples)
  <1> DEFINE views == Views(f.field, g.h)
             n == Len(views)
             rows == RectRows(views[j], SetBlit(g))
             done == Offsets(rows * g.w)
  <1>1. f.field \in Fields /\ g.h \in Nat \ {0} /\ g.w \in Nat \ {0}
    BY DEF GoodField, GoodPicture
  <1>2. n \in {1, 2} /\ \A i \in 1..n : ViewOf(views[i], f.field, g.h)  BY ViewCount
  <1>3. SUFFICES ASSUME NEW i \in 1..n, NEW r \in 0..(views[i].rows - 1), NEW column \in 0..(g.w - 1)
                 PROVE  SampleIs(g, f, frame, j, Int, samples, i, r, column)
    BY DEF SamplesAre
  <1> DEFINE v == views[i]
             row == ViewRow(v.field, g.h, r)
             skip == SkippedRows(v.field, g.layer.row)
             sample == samples[SampleAt(g, v, r, column)]
             pixel == Pixel(g, frame, row, column)
             set == IsSet(g, f, j, done, i, r, column)
             set2 == IsSet(g, f, j, Int, i, r, column)
  <1>4. SampleIs(g, f, frame, j, done, samples, i, r, column)  BY DEF SamplesAre
  <1>5. ~IsFiltered(g, f, j, done, i, r, column) /\ ~IsFiltered(g, f, j, Int, i, r, column)
    <2> DEFINE k == n + i
    <2>1. ~(j > k) /\ j # k  BY <1>2
    <2> HIDE DEF k, done
    <2> QED  BY <2>1 DEF IsFiltered, k
  <1>6. i # j => (set <=> set2)
    <2> HIDE DEF done
    <2> QED  BY DEF IsSet
  <1>7. ASSUME i = j  PROVE set2 /\ (set \/ ~Covers(g, row, column))
    <2>1. ViewOf(v, f.field, g.h) /\ r \in 0..(v.rows - 1)  BY <1>2
    <2>2. rows = RectRows(v, SetBlit(g))  BY <1>7
    <2> HIDE DEF v, rows, done
    <2>3. rows \in Nat /\ skip \in Nat
          /\ (row - g.layer.row \in 0..(g.layer.height - 1) => r - skip \in 0..(rows - 1))
      BY <2>1, <2>2, RowsReadType
    <2> DEFINE a == r - skip
               offset == a * g.w + column
    <2>4. SetOffset(g, v, r, column) = offset  BY DEF SetOffset
    <2>5. a \in Int /\ column \in Int  BY <1>1, <2>1, <2>3
    <2>6. a \in 0..(rows - 1) => offset \in Offsets(rows * g.w)
      <3> SUFFICES ASSUME a \in 0..(rows - 1)  PROVE offset \in Offsets(rows * g.w)
        OBVIOUS
      <3> HIDE DEF a, skip
      <3>1. a * g.w + column \in 0..(g.w * rows - 1)  BY <1>1, <2>3, PlaceInBuffer
      <3>2. g.w * rows = rows * g.w  BY <1>1, <2>3
      <3> QED  BY <3>1, <3>2 DEF Offsets
    <2>7. offset \in Int
      <3> HIDE DEF a
      <3>1. a * g.w \in Int  BY <1>1, <2>5
      <3> QED  BY <2>5, <3>1
    <2> HIDE DEF offset
    <2>8. set2  BY <1>7, <2>4, <2>7 DEF IsSet, v
    <2>9. a \in 0..(rows - 1) => set  BY <1>7, <2>4, <2>6 DEF IsSet, v, done
    <2>10. Covers(g, row, column) => a \in 0..(rows - 1)  BY <2>3 DEF Covers
    <2> HIDE DEF a, set, set2
    <2> QED  BY <2>8, <2>9, <2>10
  <1>8. CASE i # j \/ set
    <2>1. set <=> set2  BY <1>6, <1>7, <1>8
    <2> HIDE DEF views, done
    <2> QED  BY <1>4, <1>5, <2>1 DEF SampleIs, views
  <1>9. CASE i = j /\ ~set
    <2>1. set2 /\ ~Covers(g, row, column)  BY <1>7, <1>9
    <2>2. sample = Blank  BY <1>4, <1>9, <2>1 DEF SampleIs
    <2>3. pixel = Blank  BY <2>1 DEF Pixel
    <2> HIDE DEF views, done
    <2> QED  BY <1>5, <2>1, <2>2, <2>3 DEF SampleIs, views
  <1> QED  BY <1>8, <1>9

\* A view that was filtered is filtered to its last sample.
LEMMA SamplesFilterDone ==
  ASSUME NEW g, GoodPicture(g), NEW f, GoodField(g, f), NEW frame,
         NEW j \in 1..Len(Views(f.field, g.h)), NEW samples, NEW begun,
         begun = Len(Views(f.field, g.h)) + j,
         SamplesAre(g, f, frame, begun, Offsets(Views(f.field, g.h)[j].rows * g.w), samples)
  PROVE  SamplesAre(g, f, frame, begun, Int, samples)
  <1> DEFINE views == Views(f.field, g.h)
             n == Len(views)
             done == Offsets(views[j].rows * g.w)
  <1>1. f.field \in Fields /\ g.h \in Nat \ {0} /\ g.w \in Nat \ {0}
    BY DEF GoodField, GoodPicture
  <1>2. n \in {1, 2} /\ \A i \in 1..n : ViewOf(views[i], f.field, g.h)  BY ViewCount
  <1>3. SUFFICES ASSUME NEW i \in 1..n, NEW r \in 0..(views[i].rows - 1), NEW column \in 0..(g.w - 1)
                 PROVE  SampleIs(g, f, frame, begun, Int, samples, i, r, column)
    BY DEF SamplesAre
  <1> DEFINE v == views[i]
             filtered == IsFiltered(g, f, begun, done, i, r, column)
             filtered2 == IsFiltered(g, f, begun, Int, i, r, column)
  <1>4. SampleIs(g, f, frame, begun, done, samples, i, r, column)  BY DEF SamplesAre
  <1>5. IsSet(g, f, begun, done, i, r, column) /\ IsSet(g, f, begun, Int, i, r, column)
    <2>1. begun > i  BY <1>2
    <2> HIDE DEF done
    <2> QED  BY <2>1 DEF IsSet
  <1>6. begun = n + i <=> i = j
    <2> HIDE DEF n
    <2> QED  BY <1>2 DEF n
  <1>7. filtered <=> filtered2
    <2>1. CASE i # j
      <3>1. begun # n + i  BY <1>6, <2>1
      <3> HIDE DEF done
      <3> QED  BY <3>1 DEF IsFiltered
    <2>2. CASE i = j
      <3>1. begun = n + i  BY <1>6, <2>2
      <3>2. ViewOf(v, f.field, g.h) /\ r \in 0..(v.rows - 1)  BY <1>2
      <3>3. done = Offsets(v.rows * g.w)
        <4> HIDE DEF views
        <4>1. views[j].rows = views[i].rows  BY <2>2
        <4> QED  BY <4>1
      <3> HIDE DEF v, done
      <3> DEFINE rows == v.rows
      <3>4. rows \in Nat /\ r \in 0..(rows - 1)  BY <3>2 DEF ViewOf
      <3> HIDE DEF rows
      <3>5. r * g.w + column \in 0..(g.w * rows - 1)  BY <1>1, <3>4, PlaceInBuffer
      <3>6. g.w * rows = rows * g.w  BY <1>1, <3>4
      <3>7. r * g.w + column \in done
        <4>1. done = Offsets(rows * g.w)  BY <3>3 DEF rows
        <4> QED  BY <4>1, <3>5, <3>6 DEF Offsets
      <3>8. r * g.w + column \in Int  BY <3>5
      <3> QED  BY <3>1, <3>7, <3>8 DEF IsFiltered
    <2> QED  BY <2>1, <2>2
  <1> HIDE DEF views, done
  <1> QED  BY <1>4, <1>5, <1>7 DEF SampleIs, views

\* A picture whose rectangle was written has all of its pixels.
LEMMA PixelsDone ==
  ASSUME NEW g, GoodPicture(g), NEW f, GoodField(g, f), NEW frame, NEW begun, NEW pixels,
         PixelsAre(g, f, frame, begun, Offsets(Height(g.rect) * Length(g)), pixels)
  PROVE  PixelsAre(g, f, frame, begun, Int, pixels)
  <1> DEFINE L == Length(g)
             top == g.rect.top
             bottom == g.rect.bottom
             height == Height(g.rect)
             done == Offsets(height * L)
  <1>1. /\ g.w \in Nat \ {0} /\ g.h \in Nat \ {0} /\ g.pad \in Nat /\ g.dst_flip \in BOOLEAN
        /\ bottom \in 0..g.h /\ top \in 0..bottom
    BY DEF GoodPicture
  <1>2. g.dst_flip => top = 0 /\ bottom = g.h  BY DEF GoodPicture, Rect
  <1>3. L \in Nat \ {0}
    <2>1. g.w \in Nat \ {0} /\ g.pad \in Nat  BY <1>1
    <2> QED  BY <2>1 DEF Length
  <1>4. height = bottom - top /\ height \in Nat
    <2>1. height = bottom - top  BY DEF Height
    <2> HIDE DEF height, top, bottom
    <2> QED  BY <1>1, <2>1
  <1>5. SUFFICES ASSUME NEW m \in 0..(g.h - 1), NEW column \in 0..(L - 1)
                 PROVE  PixelIs(g, f, frame, begun, Int, pixels, m, column)
    BY DEF PixelsAre
  <1>6. PixelIs(g, f, frame, begun, done, pixels, m, column)  BY DEF PixelsAre
  <1> DEFINE a == m - top
             offset == a * L + column
  <1>7. m \in Int /\ column \in Int /\ a \in Int
    <2>1. m \in Int /\ column \in Int /\ top \in Int  BY <1>1, <1>3
    <2> HIDE DEF top
    <2> QED  BY <2>1
  <1>8. offset \in Int
    <2> HIDE DEF a, L
    <2>1. a * L \in Int  BY <1>3, <1>7
    <2> QED  BY <1>7, <2>1
  <1>9. CASE a \in 0..(height - 1)
    <2>1. offset \in done
      <3> HIDE DEF a, L, height
      <3>1. a * L + column \in 0..(L * height - 1)  BY <1>3, <1>4, <1>9, PlaceInBuffer
      <3>2. L * height = height * L  BY <1>3, <1>4
      <3> QED  BY <3>1, <3>2 DEF Offsets
    <2> HIDE DEF done
    <2> QED  BY <1>6, <1>8, <2>1 DEF PixelIs, IsWritten
  <1>10. CASE a \notin 0..(height - 1)
    <2> DEFINE row == MemoryRow(g, m)
    <2>1. row \notin top..(bottom - 1)
      <3>1. top \in Int /\ bottom \in Int  BY <1>1
      <3>2. m \notin top..(bottom - 1)
        <4> HIDE DEF top, bottom, height
        <4> QED  BY <1>4, <1>7, <1>10, <3>1
      <3>3. ~g.dst_flip
        <4> HIDE DEF top, bottom
        <4> QED  BY <1>1, <1>2, <1>7, <3>2
      <3> QED  BY <3>2, <3>3 DEF MemoryRow
    <2>2. Wanted(g, f, frame, m, column) = {}
      <3> HIDE DEF row
      <3>1. Expected(g, f, frame, row, column) = {}  BY <2>1 DEF Expected
      <3> QED  BY <3>1 DEF Wanted, row
    <2>3. pixels[m * L + column] = {}  BY <1>6, <2>2 DEF PixelIs
    <2> QED  BY <2>2, <2>3 DEF PixelIs
  <1> QED  BY <1>9, <1>10

\* In any pass but the last one, whatever is done with.
LEMMA PixelsNotYet ==
  ASSUME NEW g, NEW f, NEW frame, NEW pixels, NEW begun, NEW done, NEW later, NEW other,
         begun # 2 * Len(Views(f.field, g.h)) + 1, PixelsAre(g, f, frame, begun, done, pixels),
         later # 2 * Len(Views(f.field, g.h)) + 1 \/ other = {}
  PROVE  PixelsAre(g, f, frame, later, other, pixels)
  BY PixelsNone, PixelsBefore

-----------------------------------------------------------------------------
(* The offsets a loop is done with                                            *)

\* A loop that has returned has no offset left.
Done == IF looping THEN {at \in Int : Covered(at, calls)} ELSE Int

\* A loop that begins is done with nothing.
LEMMA BeginDone ==
  ASSUME NEW l, NEW s, Begin(l, s)
  PROVE  ~looping /\ looping' /\ len' = l /\ size' = s /\ Done' = {}
  <1>1. ~looping /\ looping' = TRUE /\ len' = l /\ size' = s /\ calls' = {}  BY DEF Begin
  <1> QED  BY <1>1 DEF Done, Covered

\* A new head does not change what is done.
LEMMA SpawnDone ==
  ASSUME SpawnHead
  PROVE  looping /\ looping' /\ len' = len /\ size' = size /\ Done' = Done
  <1>1. looping /\ UNCHANGED <<looping, len, size, calls>>  BY DEF SpawnHead
  <1> QED  BY <1>1 DEF Done, Covered

\* A call is done with the offsets of its chunk, none of which was done before.
LEMMA CallDone ==
  ASSUME LoopInv, HeadsKnown, NEW h \in heads, Call(h)
  PROVE  /\ looping /\ looping' /\ len' = len /\ size' = size
         /\ Done' = Done \cup Slice(Chunk(h)) /\ ChunkNew(Chunk(h), Done)
  <1> DEFINE c == Chunk(h)
  <1>1. looping /\ ~Finished(h) /\ calls' = calls \cup {c} /\ UNCHANGED <<looping, len, size>>
    BY DEF Call
  <1>2. OneSlice(c) /\ c.idx \in Nat /\ size \in Nat \ {0}
    <2>1. OneSlice(c)  BY <1>1, ChunkIsOneSlice
    <2>2. h.start \in Nat /\ h.done \in Nat /\ size \in Nat \ {0}  BY DEF LoopInv, LoopType
    <2> QED  BY <2>1, <2>2 DEF Chunk
  <1>3. ASSUME NEW at \in Int, c.from <= at, at < c.to  PROVE ~Covered(at, calls)
    <2> DEFINE i == c.idx
    <2>1. i \in Nat /\ c.from = i * size  BY <1>2 DEF OneSlice
    <2> HIDE DEF i
    <2>2. c.from \in Nat  BY <1>2, <2>1
    <2>3. at \in Nat  BY <1>3, <2>2
    <2> HIDE DEF c
    <2> QED  BY <1>1, <1>3, <2>3, ChunkIsNew DEF c
  <1> HIDE DEF c
  <1>4. ChunkNew(c, Done)  BY <1>1, <1>3 DEF ChunkNew, Slice, Done
  <1>5. \A at : Covered(at, calls') <=> Covered(at, calls) \/ (c.from <= at /\ at < c.to)
    BY <1>1 DEF Covered
  <1>6. Done' = Done \cup Slice(c)
    <2>1. Done = {at \in Int : Covered(at, calls)}  BY <1>1 DEF Done
    <2>2. Done' = {at \in Int : Covered(at, calls')}  BY <1>1 DEF Done, Covered
    <2> QED  BY <1>5, <2>1, <2>2 DEF Slice
  <1> QED  BY <1>1, <1>4, <1>6 DEF c

\* What the chunk of a head is.
LEMMA ChunkIs ==
  ASSUME LoopInv, NEW h \in heads, ~Finished(h)
  PROVE  Chunk(h).from \in Nat /\ Chunk(h).to \in Nat /\ Chunk(h).to <= len
  <1> DEFINE c == Chunk(h)
  <1>1. OneSlice(c)  BY ChunkIsOneSlice
  <1>2. c.idx \in Nat /\ size \in Nat \ {0} /\ len \in Nat
    <2>1. h.start \in Nat /\ h.done \in Nat /\ size \in Nat \ {0} /\ len \in Nat
      BY DEF LoopInv, LoopType
    <2> QED  BY <2>1 DEF Chunk
  <1> DEFINE i == c.idx
             a == c.from
  <1>3. i \in Nat /\ a = i * size /\ c.to = Least(a + size, len)  BY <1>1, <1>2 DEF OneSlice
  <1> HIDE DEF i, a
  <1>4. a \in Nat  BY <1>2, <1>3
  <1> QED  BY <1>2, <1>3, <1>4 DEF Least, a

\* A chunk of a buffer of whole rows is a row.
LEMMA ChunkIsRow ==
  ASSUME LoopInv, NEW h \in heads, ~Finished(h), NEW rows \in Nat, NEW w, w = size, len = rows * w
  PROVE  RowChunk(Chunk(h), rows, w)
  <1> DEFINE c == Chunk(h)
             i == c.idx
             a == c.from
             b == c.to
  <1>1. OneSlice(c)  BY ChunkIsOneSlice
  <1>2. i \in Nat /\ size \in Nat \ {0} /\ len \in Nat
    <2>1. h.start \in Nat /\ h.done \in Nat /\ size \in Nat \ {0} /\ len \in Nat
      BY DEF LoopInv, LoopType
    <2> QED  BY <2>1 DEF Chunk
  <1>3. a = i * size /\ a < b /\ b = Least(a + size, len)  BY <1>1 DEF OneSlice
  <1> HIDE DEF i, a, b, c
  <1>4. a \in Nat  BY <1>2, <1>3
  <1>5. i * size < rows * size  BY <1>2, <1>3, <1>4 DEF Least
  <1>6. i + 1 <= rows  BY <1>2, <1>5, TimesBelow
  <1>7. (i + 1) * size <= rows * size
    <2>1. i + 1 \in Nat  BY <1>2
    <2> QED  BY <1>2, <1>6, <2>1, TimesMonotonic
  <1>8. (i + 1) * size = i * size + 1 * size  BY <1>2, TimesSum
  <1>9. b = a + size
    <2> DEFINE d == (i + 1) * size
               e == rows * size
    <2>1. d = a + size /\ d <= e /\ len = e  BY <1>2, <1>3, <1>7, <1>8
    <2> HIDE DEF d, e
    <2> QED  BY <1>2, <1>3, <1>4, <2>1 DEF Least
  <1> QED  BY <1>2, <1>3, <1>6, <1>9 DEF RowChunk, i, a, b, c

\* A loop returns when it is done with its buffer.
LEMMA ReturnDone ==
  ASSUME LoopInv, Return
  PROVE  /\ looping /\ ~looping' /\ len' = len /\ size' = size
         /\ Done = Offsets(len) /\ Done' = Int
  <1>1. looping /\ looping' = FALSE /\ UNCHANGED <<len, size, calls>>  BY DEF Return
  <1>2. LoopInv'  BY InvReturn
  <1>3. \A at \in Nat : at < len => Covered(at, calls)
    BY <1>1, <1>2 DEF LoopInv, AllCalled, Covered
  <1>4. len \in Nat /\ size \in Nat \ {0}  BY DEF LoopInv, LoopType
  <1>5. ASSUME NEW c \in calls  PROVE c.from \in Nat /\ c.to \in Int /\ c.to <= len
    <2>1. OneSlice(c) /\ c.from \in Nat  BY DEF LoopInv, CallsMade, LoopType
    <2> QED  BY <1>4, <2>1 DEF OneSlice, Least
  <1>6. \A at \in Int : Covered(at, calls) <=> at \in Offsets(len)
    <2>1. ASSUME NEW at \in Int, Covered(at, calls)  PROVE at \in Offsets(len)
      <3>1. PICK c \in calls : c.from <= at /\ at < c.to  BY <2>1 DEF Covered
      <3>2. c.from \in Nat /\ c.to \in Int /\ c.to <= len  BY <1>5
      <3> QED  BY <1>4, <3>1, <3>2 DEF Offsets
    <2>2. ASSUME NEW at \in Offsets(len)  PROVE Covered(at, calls)
      BY <1>3, <1>4 DEF Offsets
    <2> QED  BY <2>1, <2>2
  <1>7. Offsets(len) \subseteq Int  BY <1>4 DEF Offsets
  <1> QED  BY <1>1, <1>6, <1>7 DEF Done

-----------------------------------------------------------------------------
(* The passes of a frame, one after the other                                 *)

\* What the loop of a pass is about: its view or the frame, and its buffer.
Setting(p, g, f, frame, i, l, s) ==
    LET v == Views(f.field, g.h)[i]
    IN /\ p.do = "set" /\ SetsView(p, g, frame, v)
       /\ l = RectRows(v, SetBlit(g)) * g.w /\ s = g.w
Filtering(p, g, f, i, l) ==
    LET v == Views(f.field, g.h)[i]
    IN /\ p.do = "filter" /\ p.first = v.base * g.w /\ l = v.rows * g.w
       /\ \A r \in 0..(v.rows - 1) : p.number = RowNumber(f, ViewRow(v.field, g.h, r))
Writing(p, g, f, l, s) ==
    /\ p.do = "write" /\ WritesFrame(p, g, f)
    /\ l = Height(g.rect) * Length(g) /\ s = Length(g)

\* The pass that began last, by the number of the frame's passes begun.
PassAt(p, g, f, frame, begun, l, s) ==
    LET n == Len(Views(f.field, g.h))
    IN \/ \E i \in 1..n : begun = i /\ Setting(p, g, f, frame, i, l, s)
       \/ \E i \in 1..n : begun = n + i /\ Filtering(p, g, f, i, l)
       \/ begun = 2 * n + 1 /\ Writing(p, g, f, l, s)

\* The planes and the picture, by the passes begun and the offsets done.
FrameIs(g, f, frame, begun, done, samples, pixels) ==
    SamplesAre(g, f, frame, begun, done, samples) /\ PixelsAre(g, f, frame, begun, done, pixels)

\* The buffers a frame is rendered in.
BuffersAre(g, f, samples, pixels) ==
    /\ DOMAIN samples = 0..(Samples(f.field, g.w, g.h) - 1)
    /\ DOMAIN pixels = 0..(Length(g) * g.h - 1)

\* Every chunk of every pass leaves the planes and the picture as they should
\* be once its offsets are done.
LEMMA ChunkDone ==
  ASSUME NEW g, GoodPicture(g), NEW f, GoodField(g, f), NEW frame, NEW begun,
         LoopInv, HeadsKnown, PassAt(pass, g, f, frame, begun, len, size),
         BuffersAre(g, f, yiq, dst), FrameIs(g, f, frame, begun, Done, yiq, dst),
         NEW h \in heads, RunChunk(h)
  PROVE  BuffersAre(g, f, yiq', dst') /\ FrameIs(g, f, frame, begun, Done', yiq', dst')
  <1> DEFINE views == Views(f.field, g.h)
             n == Len(views)
             c == Chunk(h)
             done == Done
  <1>1. f.field \in Fields /\ g.h \in Nat \ {0} /\ g.w \in Nat \ {0} /\ g.pad \in Nat
    BY DEF GoodField, GoodPicture
  <1>2. n \in {1, 2} /\ \A i \in 1..n : ViewOf(views[i], f.field, g.h)  BY ViewCount
  <1>3. Call(h) /\ ~Finished(h)  BY DEF RunChunk, Call
  <1>4. Done' = done \cup Slice(c) /\ ChunkNew(c, done)  BY <1>3, CallDone
  <1>5. c.from \in Nat /\ c.to \in Nat /\ c.to <= len  BY <1>3, ChunkIs
  <1>6. DOMAIN yiq = 0..(Samples(f.field, g.w, g.h) - 1) /\ DOMAIN dst = 0..(Length(g) * g.h - 1)
    BY DEF BuffersAre
  <1>7. SamplesAre(g, f, frame, begun, done, yiq) /\ PixelsAre(g, f, frame, begun, done, dst)
    BY DEF FrameIs
  <1>8. (SetRow(c) \/ FilterChunk(c)) /\ dst' = dst => BuffersAre(g, f, yiq', dst')
    <2> HIDE DEF c
    <2> QED  BY <1>6 DEF BuffersAre, SetRow, FilterChunk
  <1>9. WriteRow(c) /\ yiq' = yiq => BuffersAre(g, f, yiq', dst')
    <2> HIDE DEF c
    <2> QED  BY <1>6 DEF BuffersAre, WriteRow
  <1>10. ASSUME NEW j \in 1..n, begun = j, Setting(pass, g, f, frame, j, len, size)
         PROVE  BuffersAre(g, f, yiq', dst') /\ FrameIs(g, f, frame, begun, Done', yiq', dst')
    <2> DEFINE v == views[j]
               rows == RectRows(v, SetBlit(g))
    <2>1. pass.do = "set" /\ SetsView(pass, g, frame, v) /\ len = rows * g.w /\ size = g.w
      BY <1>10 DEF Setting
    <2>2. SetRow(c) /\ dst' = dst  BY <2>1 DEF RunChunk
    <2>3. rows \in Nat
      <3>1. ViewOf(v, f.field, g.h)  BY <1>2
      <3> HIDE DEF v
      <3> QED  BY <3>1, RowsReadType
    <2>4. RowChunk(c, rows, g.w)
      <3> DEFINE w == g.w
      <3>1. w = size /\ len = rows * w  BY <2>1
      <3> HIDE DEF w, rows
      <3>2. RowChunk(Chunk(h), rows, w)  BY <1>3, <2>3, <3>1, ChunkIsRow
      <3> QED  BY <3>2 DEF w
    <2>5. SamplesAre(g, f, frame, j, done, yiq)  BY <1>7, <1>10
    <2>6. j \in 1..Len(Views(f.field, g.h))  OBVIOUS
    <2> HIDE DEF done, c
    <2>7. SamplesAre(g, f, frame, j, done \cup Slice(c), yiq')
      BY <1>4, <1>6, <2>1, <2>2, <2>4, <2>5, <2>6, SamplesSet
    <2>8. begun # 2 * n + 1  BY <1>2, <1>10
    <2>9. PixelsAre(g, f, frame, begun, done \cup Slice(c), dst)  BY <1>7, <2>8, PixelsNotYet
    <2> QED  BY <1>4, <1>8, <1>10, <2>2, <2>7, <2>9 DEF FrameIs
  <1>11. ASSUME NEW j \in 1..n, begun = n + j, Filtering(pass, g, f, j, len)
         PROVE  BuffersAre(g, f, yiq', dst') /\ FrameIs(g, f, frame, begun, Done', yiq', dst')
    <2> DEFINE v == views[j]
    <2>1. /\ pass.do = "filter" /\ pass.first = v.base * g.w /\ len = v.rows * g.w
          /\ \A r \in 0..(v.rows - 1) : pass.number = RowNumber(f, ViewRow(v.field, g.h, r))
      BY <1>11 DEF Filtering
    <2>2. FilterChunk(c) /\ dst' = dst  BY <2>1 DEF RunChunk
    <2>3. c.to <= v.rows * g.w  BY <1>5, <2>1
    <2>4. SamplesAre(g, f, frame, begun, done, yiq) /\ begun = Len(Views(f.field, g.h)) + j
      BY <1>7, <1>11
    <2>5. j \in 1..Len(Views(f.field, g.h))  OBVIOUS
    <2> HIDE DEF done, c
    <2>6. SamplesAre(g, f, frame, begun, done \cup Slice(c), yiq')
      BY <1>4, <1>5, <1>6, <2>1, <2>2, <2>3, <2>4, <2>5, SamplesFilter
    <2>7. begun # 2 * n + 1  BY <1>2, <1>11
    <2>8. PixelsAre(g, f, frame, begun, done \cup Slice(c), dst)  BY <1>7, <2>7, PixelsNotYet
    <2> QED  BY <1>4, <1>8, <2>2, <2>6, <2>8 DEF FrameIs
  <1>12. ASSUME begun = 2 * n + 1, Writing(pass, g, f, len, size)
         PROVE  BuffersAre(g, f, yiq', dst') /\ FrameIs(g, f, frame, begun, Done', yiq', dst')
    <2> DEFINE rows == Height(g.rect)
               L == Length(g)
    <2>1. pass.do = "write" /\ WritesFrame(pass, g, f) /\ len = rows * L /\ size = L
      BY <1>12 DEF Writing
    <2>2. WriteRow(c) /\ yiq' = yiq  BY <2>1 DEF RunChunk
    <2>3. rows \in Nat
      <3>1. g.rect.bottom \in 0..g.h /\ g.rect.top \in 0..g.rect.bottom  BY DEF GoodPicture
      <3> QED  BY <1>1, <3>1 DEF Height
    <2>4. RowChunk(c, rows, L)
      <3>1. L = size /\ len = rows * L  BY <2>1
      <3> HIDE DEF L, rows
      <3> QED  BY <1>3, <2>3, <3>1, ChunkIsRow
    <2>5. begun = 2 * Len(Views(f.field, g.h)) + 1  BY <1>12
    <2> HIDE DEF done, c
    <2>6. PixelsAre(g, f, frame, begun, done \cup Slice(c), dst')
      BY <1>4, <1>6, <1>7, <2>1, <2>2, <2>4, <2>5, PixelsWritten
    <2>7. SamplesAre(g, f, frame, begun, done \cup Slice(c), yiq)
      BY <1>7, <2>5, SamplesFiltered
    <2> QED  BY <1>4, <1>9, <2>2, <2>6, <2>7 DEF FrameIs
  <1> QED  BY <1>10, <1>11, <1>12 DEF PassAt

\* A pass that returns has done all of its view or of the picture.
LEMMA PassDone ==
  ASSUME NEW g, GoodPicture(g), NEW f, GoodField(g, f), NEW frame, NEW begun,
         LoopInv, PassAt(pass, g, f, frame, begun, len, size),
         FrameIs(g, f, frame, begun, Done, yiq, dst), Return
  PROVE  FrameIs(g, f, frame, begun, Done', yiq, dst)
  <1> DEFINE views == Views(f.field, g.h)
             n == Len(views)
  <1>1. f.field \in Fields /\ g.h \in Nat \ {0} /\ g.w \in Nat \ {0} /\ g.pad \in Nat
    BY DEF GoodField, GoodPicture
  <1>2. n \in {1, 2} /\ \A i \in 1..n : ViewOf(views[i], f.field, g.h)  BY ViewCount
  <1>3. Done = Offsets(len) /\ Done' = Int  BY ReturnDone
  <1>4. SamplesAre(g, f, frame, begun, Offsets(len), yiq) /\ PixelsAre(g, f, frame, begun, Offsets(len), dst)
    BY <1>3 DEF FrameIs
  <1>5. begun # 2 * n + 1 => PixelsAre(g, f, frame, begun, Int, dst)  BY <1>4, PixelsNotYet
  <1>6. ASSUME NEW j \in 1..n, begun = j, Setting(pass, g, f, frame, j, len, size)
        PROVE  FrameIs(g, f, frame, begun, Int, yiq, dst)
    <2>1. len = RectRows(views[j], SetBlit(g)) * g.w  BY <1>6 DEF Setting
    <2>2. SamplesAre(g, f, frame, j, Offsets(RectRows(Views(f.field, g.h)[j], SetBlit(g)) * g.w), yiq)
      BY <1>4, <1>6, <2>1
    <2>3. j \in 1..Len(Views(f.field, g.h))  OBVIOUS
    <2>4. SamplesAre(g, f, frame, j, Int, yiq)  BY <2>2, <2>3, SamplesSetDone
    <2>5. begun # 2 * n + 1  BY <1>2, <1>6
    <2> QED  BY <1>5, <1>6, <2>4, <2>5 DEF FrameIs
  <1>7. ASSUME NEW j \in 1..n, begun = n + j, Filtering(pass, g, f, j, len)
        PROVE  FrameIs(g, f, frame, begun, Int, yiq, dst)
    <2>1. len = views[j].rows * g.w  BY <1>7 DEF Filtering
    <2>2. SamplesAre(g, f, frame, begun, Offsets(Views(f.field, g.h)[j].rows * g.w), yiq)
      BY <1>4, <2>1
    <2>3. j \in 1..Len(Views(f.field, g.h)) /\ begun = Len(Views(f.field, g.h)) + j  BY <1>7
    <2>4. SamplesAre(g, f, frame, begun, Int, yiq)  BY <2>2, <2>3, SamplesFilterDone
    <2>5. begun # 2 * n + 1  BY <1>2, <1>7
    <2> QED  BY <1>5, <2>4, <2>5 DEF FrameIs
  <1>8. ASSUME begun = 2 * n + 1, Writing(pass, g, f, len, size)
        PROVE  FrameIs(g, f, frame, begun, Int, yiq, dst)
    <2>1. len = Height(g.rect) * Length(g)  BY <1>8 DEF Writing
    <2>2. PixelsAre(g, f, frame, begun, Int, dst)  BY <1>4, <2>1, PixelsDone
    <2>3. SamplesAre(g, f, frame, begun, Int, yiq)  BY <1>4, <1>8, SamplesFiltered
    <2> QED  BY <2>2, <2>3 DEF FrameIs
  <1> QED  BY <1>3, <1>6, <1>7, <1>8 DEF PassAt

\* Between two passes.
LEMMA NextPass ==
  ASSUME NEW g, GoodPicture(g), NEW f, GoodField(g, f), NEW frame, NEW begun \in Nat,
         begun # 2 * Len(Views(f.field, g.h)) + 1,
         FrameIs(g, f, frame, begun, Int, yiq, dst)
  PROVE  FrameIs(g, f, frame, begun + 1, {}, yiq, dst)
  <1>1. SamplesAre(g, f, frame, begun + 1, {}, yiq)  BY SamplesNextPass DEF FrameIs
  <1>2. PixelsAre(g, f, frame, begun, Int, dst)  BY DEF FrameIs
  <1> DEFINE later == begun + 1
             other == {}
  <1> HIDE DEF later, other
  <1>3. PixelsAre(g, f, frame, later, other, dst)
    <2>1. other = {}  BY DEF other
    <2> QED  BY <1>2, <2>1, PixelsNotYet
  <1> QED  BY <1>1, <1>3 DEF FrameIs, later, other

-----------------------------------------------------------------------------
(* A pass begins                                                              *)

\* What StartPass does for the next pass of a frame.
Starts(p, g, f, frame) ==
    CASE p.do = "set" -> BeginSet(p.view, BlitsOf(g).set, g.w, Memory(g, frame))
      [] p.do = "filter" -> BeginFilter(p.view, g.w, p.number)
      [] p.do = "write" -> BeginWrite(f.field, BlitsOf(g).write, g.w, g.h, f.mode)

\* A loop that has begun.
Started ==
    /\ len' \in Nat /\ size' \in Nat \ {0} /\ looping' /\ Done' = {}
    /\ LoopInv' /\ HeadsKnown'

\* Any loop that begins is as it should be.
LEMMA Starting ==
  ASSUME LoopInv, NEW l \in Nat, NEW s \in Nat \ {0}, Begin(l, s)
  PROVE  Started /\ len' = l /\ size' = s
  <1>1. looping' /\ len' = l /\ size' = s /\ Done' = {}  BY BeginDone
  <1>2. LoopInv' /\ HeadsKnown'  BY InvBegin, KnownBegin
  <1> QED  BY <1>1, <1>2 DEF Started

\* A view's set pass begins as it should.
LEMMA SetStarts ==
  ASSUME LoopInv, Host \in {"gui", "ofx", "ae"}, NEW g, PictureOf(Host, g), NEW f, GoodField(g, f), NEW frame,
         NEW i \in 1..Len(Views(f.field, g.h)), NEW v, v = Views(f.field, g.h)[i],
         BeginSet(v, BlitsOf(g).set, g.w, Memory(g, frame))
  PROVE  Started /\ Setting(pass', g, f, frame, i, len', size')
  <1> DEFINE b == BlitsOf(g).set
             rows == RectRows(v, SetBlit(g))
             memory == Memory(g, frame)
  <1>1. GoodPicture(g)  BY PictureIsGood
  <1>2. g.w \in Nat \ {0}  BY <1>1 DEF GoodPicture
  <1>3. ViewOf(v, f.field, g.h)  BY <1>1, ViewCount
  <1>4. rows \in Nat  BY <1>1, <1>3, RowsReadType
  <1>5. b.at = SetBlit(g).at /\ b.rect = SetBlit(g).rect /\ b.height = SetBlit(g).height
        /\ b.flip_y = SetBlit(g).flip_y
    BY BlitsAre
  <1>6. pass' = SetPass(v, b, g.w, memory) /\ Begin(RectRows(v, b) * g.w, g.w)  BY DEF BeginSet
  <1> HIDE DEF b, memory
  <1>7. RectRows(v, b) = rows
    <2> DEFINE c == SetBlit(g)
    <2>1. b.at = c.at /\ b.rect = c.rect /\ b.height = c.height /\ b.flip_y = c.flip_y  BY <1>5
    <2> HIDE DEF c
    <2>2. RectRows(v, b) = RectRows(v, c)  BY <2>1, SameSource
    <2> QED  BY <2>2 DEF c
  <1>8. Started /\ len' = rows * g.w /\ size' = g.w
    <2> DEFINE w == g.w
               l == rows * w
    <2>1. l \in Nat /\ w \in Nat \ {0} /\ Begin(l, w)
      <3> HIDE DEF rows
      <3> QED  BY <1>2, <1>4, <1>6, <1>7
    <2> HIDE DEF l, w
    <2>2. Started /\ len' = l /\ size' = w  BY <2>1, Starting
    <2> QED  BY <2>2 DEF l, w
  <1>9. SetsView(pass', g, frame, v) /\ pass'.do = "set"
    <2>1. /\ pass'.do = "set" /\ pass'.view = v /\ pass'.blit = b /\ pass'.width = g.w
          /\ pass'.memory = memory
      BY <1>6 DEF SetPass
    <2> QED  BY <1>5, <2>1 DEF SetsView, memory
  <1> QED  BY <1>8, <1>9 DEF Setting

\* A view's filter pass begins as it should.
LEMMA FilterStarts ==
  ASSUME LoopInv, NEW g, GoodPicture(g), NEW f, GoodField(g, f),
         NEW i \in 1..Len(Views(f.field, g.h)), NEW v, v = Views(f.field, g.h)[i],
         NEW number, number = NumberOf(v, f, g.h), BeginFilter(v, g.w, number)
  PROVE  Started /\ Filtering(pass', g, f, i, len')
  <1>2. g.w \in Nat \ {0} /\ g.h \in Nat \ {0} /\ f.field \in Fields /\ f.number \in Nat
    BY DEF GoodPicture, GoodField
  <1>3. ViewOf(v, f.field, g.h)  BY ViewCount
  <1>4. v.rows \in Nat  BY <1>3 DEF ViewOf
  <1>5. pass'.do = "filter" /\ pass'.first = v.base * g.w /\ pass'.number = number
        /\ Begin(v.rows * g.w, FilterRows * g.w)
    BY DEF BeginFilter
  <1>6. Started /\ len' = v.rows * g.w
    <2> DEFINE l == v.rows * g.w
               s == FilterRows * g.w
    <2>1. l \in Nat
      <3> DEFINE n == v.rows
      <3>1. n \in Nat  BY <1>4
      <3> HIDE DEF n
      <3>2. n * g.w \in Nat  BY <1>2, <3>1
      <3> QED  BY <3>2 DEF n
    <2>2. s \in Nat \ {0}
      <3>1. FilterRows <= FilterRows * g.w  BY <1>2, FilterRowsAssumption, TimesAtLeast
      <3>2. FilterRows * g.w \in Nat  BY <1>2, FilterRowsAssumption
      <3> QED  BY <3>1, <3>2, FilterRowsAssumption
    <2>3. Begin(l, s)  BY <1>5
    <2> HIDE DEF l, s
    <2>4. Started /\ len' = l  BY <2>1, <2>2, <2>3, Starting
    <2> QED  BY <2>4 DEF l
  <1>7. \A r \in 0..(v.rows - 1) : number = RowNumber(f, ViewRow(v.field, g.h, r))
    BY <1>2, NumberOfView
  <1> QED  BY <1>5, <1>6, <1>7 DEF Filtering

\* A frame's write pass begins as it should.
LEMMA WriteStarts ==
  ASSUME LoopInv, Host \in {"gui", "ofx", "ae"}, NEW g, PictureOf(Host, g), NEW f, GoodField(g, f),
         BeginWrite(f.field, BlitsOf(g).write, g.w, g.h, f.mode)
  PROVE  Started /\ Writing(pass', g, f, len', size')
  <1> DEFINE b == BlitsOf(g).write
             rows == Height(g.rect)
             L == Length(g)
  <1>1. GoodPicture(g)  BY PictureIsGood
  <1>2. g.w \in Nat \ {0} /\ g.h \in Nat \ {0} /\ g.pad \in Nat
        /\ g.rect.bottom \in 0..g.h /\ g.rect.top \in 0..g.rect.bottom
    BY <1>1 DEF GoodPicture
  <1>3. rows \in Nat  BY <1>2 DEF Height
  <1>4. L \in Nat \ {0}  BY <1>2 DEF Length
  <1>5. b = Blitted(g)  BY BlitsAre
  <1>6. /\ pass'.do = "write" /\ pass'.field = f.field /\ pass'.blit = WriteBlit(b) /\ pass'.width = g.w
        /\ pass'.rows = Cpu!ImageRows(f.field, g.h) /\ pass'.height = g.h /\ pass'.mode = f.mode
        /\ Begin(Height(b.rect) * b.row_length, b.row_length)
    <2> HIDE DEF b
    <2> QED  BY DEF BeginWrite, b
  <1> HIDE DEF b
  <1>7. b.rect = g.rect /\ b.row_length = L  BY <1>5, BlitIs DEF Blitted
  <1>8. Started /\ len' = rows * L /\ size' = L
    <2> DEFINE l == rows * L
    <2>1. l \in Nat /\ Begin(l, L)
      <3> HIDE DEF rows, L
      <3>1. rows * L \in Nat  BY <1>3, <1>4
      <3>2. Height(b.rect) = rows  BY <1>7 DEF rows
      <3> QED  BY <1>6, <1>7, <3>1, <3>2
    <2> HIDE DEF l, L
    <2> QED  BY <1>4, <2>1, Starting DEF l
  <1>9. WritesFrame(pass', g, f)  BY <1>5, <1>6 DEF WritesFrame
  <1> QED  BY <1>6, <1>8, <1>9 DEF Writing

\* Whichever pass is next, it begins as it should.
LEMMA PassStarts ==
  ASSUME LoopInv, Host \in {"gui", "ofx", "ae"}, NEW g, PictureOf(Host, g), NEW f, GoodField(g, f), NEW frame,
         NEW begun \in Nat, begun < Len(Passes(f, g.h)),
         NEW p, p = Passes(f, g.h)[begun + 1], Starts(p, g, f, frame)
  PROVE  Started /\ PassAt(pass', g, f, frame, begun + 1, len', size')
  <1> DEFINE views == Views(f.field, g.h)
             n == Len(views)
             passes == Passes(f, g.h)
             at == begun + 1
  <1>1. GoodPicture(g)  BY PictureIsGood
  <1>2. g.h \in Nat \ {0} /\ f.field \in Fields  BY <1>1 DEF GoodPicture, GoodField
  <1>3. /\ n \in {1, 2} /\ Len(passes) = 2 * n + 1
        /\ \A i \in 1..n : passes[i].do = "set" /\ passes[i].view = views[i]
        /\ \A i \in 1..n : /\ passes[n + i].do = "filter" /\ passes[n + i].view = views[i]
                           /\ passes[n + i].number = NumberOf(views[i], f, g.h)
        /\ passes[2 * n + 1].do = "write"
    <2> DEFINE h == g.h
    <2>1. h \in Nat \ {0}  BY <1>2
    <2> HIDE DEF h
    <2>2. PassesListed(f, h)  BY <1>2, <2>1, PassesAre
    <2> QED  BY <2>2 DEF h, PassesListed
  <1> HIDE DEF passes, n, views
  <1>4. at \in 1..n \/ (\E i \in 1..n : at = n + i) \/ at = 2 * n + 1
    <2>1. at \in 1..(2 * n + 1)  BY <1>3 DEF passes
    <2>2. CASE n = 1
      <3>1. at \in {1, 2, 3}  BY <2>1, <2>2
      <3> QED  BY <2>2, <3>1
    <2>3. CASE n = 2
      <3>1. at \in {1, 2, 3, 4, 5}  BY <2>1, <2>3
      <3>2. at = 3 => at = n + 1  BY <2>3
      <3>3. at = 4 => at = n + 2  BY <2>3
      <3> HIDE DEF at
      <3> QED  BY <2>3, <3>1, <3>2, <3>3
    <2> QED  BY <1>3, <2>2, <2>3
  <1>5. p = passes[at]  BY DEF passes
  <1> HIDE DEF at
  <1>6. ASSUME NEW i \in 1..n, at = i  PROVE Started /\ Setting(pass', g, f, frame, i, len', size')
    <2> DEFINE v == views[i]
    <2>1. p.do = "set" /\ p.view = v  BY <1>3, <1>5, <1>6
    <2>2. BeginSet(v, BlitsOf(g).set, g.w, Memory(g, frame))  BY <2>1 DEF Starts
    <2>3. v = Views(f.field, g.h)[i] /\ i \in 1..Len(Views(f.field, g.h))  BY DEF views, n
    <2> HIDE DEF v
    <2> QED  BY <2>2, <2>3, SetStarts
  <1>7. ASSUME NEW i \in 1..n, at = n + i  PROVE Started /\ Filtering(pass', g, f, i, len')
    <2> DEFINE v == views[i]
               number == NumberOf(v, f, g.h)
    <2>1. p.do = "filter" /\ p.view = v /\ p.number = number  BY <1>3, <1>5, <1>7
    <2>2. BeginFilter(v, g.w, number)  BY <2>1 DEF Starts
    <2>3. v = Views(f.field, g.h)[i] /\ i \in 1..Len(Views(f.field, g.h)) /\ number = NumberOf(v, f, g.h)
      BY DEF views, n
    <2> HIDE DEF v, number
    <2> QED  BY <1>1, <2>2, <2>3, FilterStarts
  <1>8. ASSUME at = 2 * n + 1  PROVE Started /\ Writing(pass', g, f, len', size')
    <2>1. p.do = "write"  BY <1>3, <1>5, <1>8
    <2>2. BeginWrite(f.field, BlitsOf(g).write, g.w, g.h, f.mode)  BY <2>1 DEF Starts
    <2> QED  BY <2>2, WriteStarts
  <1>9. Started /\ PassAt(pass', g, f, frame, at, len', size')
    <2>1. CASE at \in 1..n
      <3>1. Started /\ Setting(pass', g, f, frame, at, len', size')  BY <1>6, <2>1
      <3> QED  BY <2>1, <3>1 DEF PassAt, n, views
    <2>2. CASE \E i \in 1..n : at = n + i
      <3>1. PICK i \in 1..n : at = n + i  BY <2>2
      <3>2. Started /\ Filtering(pass', g, f, i, len')  BY <1>7, <3>1
      <3> QED  BY <3>1, <3>2 DEF PassAt, n, views
    <2>3. CASE at = 2 * n + 1
      <3>1. Started /\ Writing(pass', g, f, len', size')  BY <1>8, <2>3
      <3> QED  BY <2>3, <3>1 DEF PassAt, n, views
    <2> QED  BY <1>4, <2>1, <2>2, <2>3
  <1> QED  BY <1>9 DEF at

-----------------------------------------------------------------------------
(* The invariant of a session                                                 *)

\* The passes of the frame that have begun.
Begun == Len(Passes(render.f, Picture.h)) - Len(render.todo)

\* A frame has the buffer its picture needs from its beginning on, and its
\* field's rows are in the picture.
RenderInv ==
    /\ render = [on |-> render.on, frame |-> render.frame, todo |-> render.todo, f |-> render.f]
    /\ render.on \in BOOLEAN /\ render.frame \in 0..MaxFrames /\ render.f.field \in Fields
    /\ looping => render.on
    /\ render.on => render.frame < MaxFrames
    /\ render.on \/ render.frame > 0 =>
          Renders /\ GoodField(Picture, render.f)

\* What is left of the frame's passes.
TodoIs(f, height, todo) ==
    LET passes == Passes(f, height)
    IN /\ todo \in Seq(PassSet(f, height)) /\ Len(todo) <= Len(passes)
       /\ \A i \in 1..Len(todo) : todo[i] = passes[Len(passes) - Len(todo) + i]
TodoInv == render.on => TodoIs(render.f, Picture.h, render.todo)

\* The loop is that of the pass that began last.
PassInv == looping => PassAt(pass, Picture, render.f, render.frame, Begun, len, size)

\* What the planes and the picture have become so far.
FrameInv ==
    render.on => /\ BuffersAre(Picture, render.f, yiq, dst)
                 /\ FrameIs(Picture, render.f, render.frame, Begun, Done, yiq, dst)

\* What a rendered frame is, row by row of its memory.
Shown(g, f, frame, pixels) ==
    /\ DOMAIN pixels = 0..(Length(g) * g.h - 1)
    /\ \A m \in 0..(g.h - 1) : \A column \in 0..(Length(g) - 1) :
          pixels[m * Length(g) + column] = Wanted(g, f, frame, m, column)
ShownInv == ~render.on /\ render.frame > 0 => Shown(Picture, render.f, render.frame - 1, dst)

PluginsInv ==
    /\ HostInv /\ LoopInv /\ HeadsKnown
    /\ RenderInv /\ TodoInv /\ PassInv /\ FrameInv /\ ShownInv

-----------------------------------------------------------------------------
\* What is known of the picture of a session that renders.
LEMMA PictureKnown ==
  ASSUME HostsAre, Renders
  PROVE  /\ Host \in {"gui", "ofx", "ae"} /\ PictureOf(Host, Picture) /\ GoodPicture(Picture)
         /\ Host \in HostsOf(session)
  <1>1. session \in Sessions /\ Host \in HostsOf(session) /\ HostsOf(session) \subseteq HostKinds
    BY DEF HostsAre, Host
  <1>2. Host \in {"gui", "ofx", "ae"}  BY <1>1 DEF HostKinds
  <1>3. PictureOf(Host, Picture)  BY <1>1, PicturesAssumption DEF Renders, Picture, Host
  <1> DEFINE h == Host
             g == Picture
  <1>4. h \in {"gui", "ofx", "ae"} /\ PictureOf(h, g)  BY <1>2, <1>3
  <1> HIDE DEF h, g
  <1>5. GoodPicture(g)  BY <1>4, PictureIsGood
  <1> QED  BY <1>1, <1>2, <1>3, <1>5 DEF g

\* The field to use is one of the menu's.
LEMMA FieldToUse ==
  ASSUME HostInv, Renders
  PROVE  SettingsOf(Host)["use_field"] \in 0..5
  <1>1. Host \in HostsOf(session)  BY PictureKnown DEF HostInv
  <1>2. InRange(SettingsOf(Host))  BY <1>1, HostInvShows
  <1>3. Within(Named["use_field"], SettingsOf(Host)["use_field"])
    BY <1>2, DescriptorsAssumption DEF InRange
  <1> QED  BY <1>3, DescriptorsAssumption DEF Within

\* The loops' variables are kept with what they say.
LEMMA LoopStutter ==
  ASSUME LoopInv, HeadsKnown, UNCHANGED loopVars
  PROVE  /\ LoopInv' /\ HeadsKnown' /\ Done' = Done
         /\ looping' = looping /\ len' = len /\ size' = size
  <1>1. UNCHANGED <<looping, len, size, start, from, spawned, heads, calls>>  BY DEF loopVars
  <1>2. Done' = Done  BY <1>1 DEF Done, Covered
  <1> QED  BY <1>1, <1>2, InvStutter, KnownStutter

\* The hosts' variables are kept with what they say.
LEMMA HostStutter ==
  ASSUME HostInv, UNCHANGED hostVars
  PROVE  /\ HostInv' /\ session' = session /\ Picture' = Picture /\ (Renders' <=> Renders)
  <1>1. UNCHANGED settingVars /\ session' = session  BY DEF hostVars, settingVars
  <1> QED  BY <1>1, HostInvStutter DEF Picture, Renders

-----------------------------------------------------------------------------
(* Each step keeps the invariant                                              *)

\* The invariant, in the initial states.
LEMMA PluginsAtStart ==
  ASSUME PluginsInit
  PROVE  PluginsInv
  <1>1. HostsInit /\ LoopInit  BY DEF PluginsInit
  <1> DEFINE f == [field |-> "both", number |-> 0, mode |-> "bob"]
  <1>2. render = [on |-> FALSE, frame |-> 0, todo |-> <<>>, f |-> f]  BY DEF PluginsInit
  <1>3. f.field = "both"  OBVIOUS
  <1> HIDE DEF f
  <1>4. render.on = FALSE /\ render.frame = 0 /\ render.f = f  BY <1>2
  <1>5. HostInv /\ LoopInv /\ HeadsKnown  BY <1>1, HostInvAtStart, InvAtStart, KnownAtStart
  <1>6. ~looping  BY <1>1 DEF LoopInit
  <1>7. RenderInv
    <2>1. render = [on |-> render.on, frame |-> render.frame, todo |-> render.todo, f |-> render.f]
      BY <1>2
    <2>2. "both" \in Fields  BY DEF Fields, Cpu!YiqField
    <2>3. 0 \in 0..MaxFrames  BY MaxFramesAssumption
    <2>4. render.on \in BOOLEAN /\ ~render.on  BY <1>4
    <2>5. ~(render.frame > 0)  BY <1>4
    <2>6. render.frame \in 0..MaxFrames /\ render.f.field \in Fields  BY <1>3, <1>4, <2>2, <2>3
    <2> QED  BY <1>6, <2>1, <2>4, <2>5, <2>6 DEF RenderInv
  <1> QED  BY <1>4, <1>5, <1>6, <1>7 DEF PluginsInv, TodoInv, PassInv, FrameInv, ShownInv

\* A frame is begun: nothing of it was done.
LEMMA FrameBegins ==
  ASSUME PluginsInv, RenderFrame
  PROVE  PluginsInv'
  <1> DEFINE g == Picture
             use_field == SettingsOf(Host)["use_field"]
             f == Fielding(g, use_field, render.frame)
             n == Samples(f.field, g.w, g.h)
  <1>0. HostInv /\ LoopInv /\ HeadsKnown /\ RenderInv  BY DEF PluginsInv
  <1>1. /\ Renders /\ ~render.on /\ render.frame < MaxFrames
        /\ yiq' = IF Host = "gui" /\ DOMAIN yiq = 0..(n - 1) THEN yiq ELSE NewBuffer(n)
        /\ dst' = [k \in 0..((g.w + g.pad) * g.h - 1) |-> {}]
        /\ render' = [render EXCEPT !.on = TRUE, !.f = f, !.todo = Passes(f, g.h)]
        /\ UNCHANGED hostVars /\ UNCHANGED loopVars
    BY DEF RenderFrame
  <1>2. /\ Host \in {"gui", "ofx", "ae"} /\ PictureOf(Host, g) /\ GoodPicture(g)
        /\ use_field \in 0..5
    BY <1>0, <1>1, PictureKnown, FieldToUse DEF HostInv
  <1>3. render.frame \in Nat /\ render.frame \in 0..MaxFrames
    BY <1>0, MaxFramesAssumption DEF RenderInv
  <1>4. GoodField(g, f)
    <2> DEFINE frame == render.frame
    <2>1. frame \in Nat  BY <1>3
    <2> HIDE DEF g, use_field, frame
    <2>2. GoodField(g, Fielding(g, use_field, frame))  BY <1>2, <2>1, FieldIsGood
    <2> QED  BY <2>2 DEF frame
  <1>5. HostInv' /\ Picture' = g /\ Renders'  BY <1>0, <1>1, HostStutter
  <1>6. LoopInv' /\ HeadsKnown' /\ Done' = Done /\ looping' = looping  BY <1>0, <1>1, LoopStutter
  <1>7. ~looping  BY <1>0, <1>1 DEF RenderInv
  <1> HIDE DEF f
  <1>8. /\ render'.on = TRUE /\ render'.frame = render.frame /\ render'.f = f
        /\ render'.todo = Passes(f, g.h)
        /\ render' = [on |-> TRUE, frame |-> render.frame, todo |-> Passes(f, g.h), f |-> f]
    <2>1. render = [on |-> render.on, frame |-> render.frame, todo |-> render.todo, f |-> render.f]
      BY <1>0 DEF RenderInv
    <2> DEFINE passes == Passes(f, g.h)
    <2>2. render' = [render EXCEPT !.on = TRUE, !.f = f, !.todo = passes]  BY <1>1
    <2> HIDE DEF passes, g
    <2>3. render' = [on |-> TRUE, frame |-> render.frame, todo |-> passes, f |-> f]  BY <2>1, <2>2
    <2> QED  BY <2>3 DEF passes
  <1>9. f.field \in Fields /\ g.w \in Nat \ {0} /\ g.h \in Nat \ {0} /\ g.pad \in Nat
    BY <1>2, <1>4 DEF GoodField, GoodPicture
  <1>10. RenderInv'
    <2>1. render'.f.field \in Fields  BY <1>8, <1>9
    <2>2. GoodField(Picture', render'.f)  BY <1>4, <1>5, <1>8
    <2> HIDE DEF g
    <2> QED  BY <1>1, <1>3, <1>5, <1>6, <1>7, <1>8, <2>1, <2>2 DEF RenderInv
  <1> DEFINE passes == Passes(f, g.h)
  <1>11. /\ passes \in Seq(PassSet(f, g.h)) /\ Len(passes) = 2 * Len(Views(f.field, g.h)) + 1
         /\ Len(Views(f.field, g.h)) \in {1, 2}
    <2> DEFINE height == g.h
    <2>1. height \in Nat \ {0}  BY <1>9
    <2> HIDE DEF height
    <2>2. PassesListed(f, height)  BY <1>9, <2>1, PassesAre
    <2> QED  BY <2>2 DEF PassesListed, height
  <1>12. TodoInv'
    <2>1. TodoIs(f, g.h, passes)
      <3> HIDE DEF passes, g
      <3>1. Len(passes) \in Nat  BY <1>11
      <3>2. \A i \in 1..Len(passes) : Len(passes) - Len(passes) + i = i  BY <3>1
      <3> QED  BY <1>11, <3>1, <3>2 DEF TodoIs, passes
    <2> QED  BY <1>5, <1>8, <2>1 DEF TodoInv
  <1>13. Begun' = 0
    <2>1. Begun' = Len(Passes(render'.f, Picture'.h)) - Len(render'.todo)  BY DEF Begun
    <2>2. Begun' = Len(passes) - Len(passes)  BY <1>5, <1>8, <2>1
    <2>3. Len(passes) \in Int  BY <1>11
    <2> QED  BY <2>2, <2>3
  <1>14. DOMAIN yiq' = 0..(n - 1)
    <2> HIDE DEF n
    <2> QED  BY <1>1 DEF NewBuffer
  <1>15. SamplesAre(g, f, render.frame, 0, Done', yiq')
    <2> DEFINE frame == render.frame
               samples == yiq'
               done == Done'
    <2>1. CASE Host = "gui"
      <3>1. g.layer.row = 0 /\ g.layer.column = 0 /\ g.layer.height = g.h /\ g.layer.width = g.w
        BY <1>2, <2>1 DEF PictureOf
      <3> HIDE DEF g, frame, samples, done
      <3>2. SamplesAre(g, f, frame, 0, done, samples)  BY <1>2, <1>4, <3>1, SamplesAtStart
      <3> QED  BY <3>2 DEF frame, samples, done
    <2>2. CASE Host # "gui"
      <3>1. samples = NewBuffer(Samples(f.field, g.w, g.h))  BY <1>1, <2>2
      <3> HIDE DEF g, frame, samples, done
      <3>2. SamplesAre(g, f, frame, 0, done, samples)  BY <1>2, <1>4, <3>1, SamplesAtStart
      <3> QED  BY <3>2 DEF frame, samples, done
    <2> QED  BY <2>1, <2>2
  <1>16. DOMAIN dst' = 0..(Length(g) * g.h - 1)  BY <1>1 DEF Length
  <1>17. PixelsAre(g, f, render.frame, 0, Done', dst')
    <2> DEFINE frame == render.frame
               pixels == dst'
               done == Done'
               L == Length(g)
               begun == 0
    <2>1. ASSUME NEW m \in 0..(g.h - 1), NEW column \in 0..(L - 1)
          PROVE  pixels[m * L + column] = {}
      <3>1. L \in Nat \ {0}  BY <1>9 DEF Length
      <3> DEFINE height == g.h
      <3>2. height \in Nat  BY <1>9
      <3>6. m \in 0..(height - 1)  OBVIOUS
      <3> HIDE DEF L, height
      <3>3. m * L + column \in 0..(L * height - 1)  BY <3>1, <3>2, <3>6, PlaceInBuffer
      <3>4. m * L + column \in DOMAIN dst'  BY <1>16, <3>3 DEF L, height
      <3> QED  BY <1>1, <3>4
    <2>2. begun # 2 * Len(Views(f.field, g.h)) + 1  BY <1>11
    <2> HIDE DEF g, frame, pixels, done, begun
    <2>3. PixelsAre(g, f, frame, begun, done, pixels)  BY <2>1, <2>2, PixelsBefore
    <2> QED  BY <2>3 DEF frame, pixels, done, begun
  <1>18. FrameInv'
    <2>1. BuffersAre(g, f, yiq', dst')  BY <1>14, <1>16 DEF BuffersAre
    <2>2. FrameIs(g, f, render.frame, 0, Done', yiq', dst')  BY <1>15, <1>17 DEF FrameIs
    <2> QED  BY <1>5, <1>8, <1>13, <2>1, <2>2 DEF FrameInv
  <1>19. PassInv' /\ ShownInv'  BY <1>6, <1>7, <1>8 DEF PassInv, ShownInv
  <1> QED  BY <1>5, <1>6, <1>10, <1>12, <1>18, <1>19 DEF PluginsInv

\* A pass is begun: the one before is done with its buffer.
LEMMA PassBegins ==
  ASSUME PluginsInv, StartPass
  PROVE  PluginsInv'
  <1> DEFINE g == Picture
             f == render.f
             frame == render.frame
             todo == render.todo
             passes == Passes(f, g.h)
             begun == Len(passes) - Len(todo)
             p == Head(todo)
  <1>0. /\ HostInv /\ LoopInv /\ HeadsKnown /\ RenderInv /\ TodoInv /\ FrameInv
        /\ render.on /\ ~looping /\ todo # <<>>
    BY DEF PluginsInv, StartPass
  <1>1. /\ Starts(p, g, f, frame) /\ render' = [render EXCEPT !.todo = Tail(todo)]
        /\ UNCHANGED hostVars /\ yiq' = yiq /\ dst' = dst
    BY DEF StartPass, Starts
  <1>2. Renders /\ GoodField(g, f)  BY <1>0 DEF RenderInv
  <1>3. Host \in {"gui", "ofx", "ae"} /\ PictureOf(Host, g) /\ GoodPicture(g)
    BY <1>0, <1>2, PictureKnown DEF HostInv
  <1>4. HostInv' /\ Picture' = g /\ Renders'  BY <1>0, <1>1, <1>2, HostStutter
  <1>5. f.field \in Fields /\ g.h \in Nat \ {0}  BY <1>2, <1>3 DEF GoodField, GoodPicture
  <1>6. passes \in Seq(PassSet(f, g.h)) /\ Len(passes) = 2 * Len(Views(f.field, g.h)) + 1
        /\ Len(Views(f.field, g.h)) \in {1, 2}
    <2> DEFINE height == g.h
    <2>1. height \in Nat \ {0}  BY <1>5
    <2> HIDE DEF height, f
    <2>2. PassesListed(f, height)  BY <1>5, <2>1, PassesAre
    <2> QED  BY <2>2 DEF PassesListed, height
  <1>7. /\ todo \in Seq(PassSet(f, g.h)) /\ Len(todo) <= Len(passes)
        /\ \A i \in 1..Len(todo) : todo[i] = passes[begun + i]
    BY <1>0 DEF TodoInv, TodoIs
  <1> DEFINE rest == Tail(todo)
             S == PassSet(f, g.h)
  <1>8. /\ rest \in Seq(S) /\ Len(rest) = Len(todo) - 1
        /\ \A i \in 1..Len(rest) : rest[i] = todo[i + 1]
    <2> HIDE DEF todo, S
    <2> QED  BY <1>0, <1>7, HeadTailProperties DEF S
  <1>9. Len(todo) \in Nat /\ Len(todo) >= 1 /\ Len(passes) \in Nat
    <2> HIDE DEF todo, passes, S
    <2>1. Len(todo) \in Nat /\ Len(passes) \in Nat  BY <1>6, <1>7
    <2>2. Len(rest) \in Nat  BY <1>8
    <2> QED  BY <2>1, <2>2, <1>8
  <1>10. p = passes[begun + 1]
    <2>1. p = todo[1]
      <3> HIDE DEF todo, S
      <3> QED  BY <1>0, <1>7
    <2> HIDE DEF todo, passes
    <2> QED  BY <2>1, <1>7, <1>9
  <1>11. begun \in Nat /\ begun < Len(passes)
    <2> HIDE DEF todo, passes
    <2> QED  BY <1>7, <1>9
  <1>12. Started /\ PassAt(pass', g, f, frame, begun + 1, len', size')
    <2> DEFINE so_far == begun
    <2>1. so_far \in Nat /\ so_far < Len(Passes(f, g.h)) /\ p = Passes(f, g.h)[so_far + 1]
      BY <1>10, <1>11
    <2>2. LoopInv  BY <1>0
    <2> HIDE DEF so_far, g, f, frame, p
    <2>3. Started /\ PassAt(pass', g, f, frame, so_far + 1, len', size')
      BY <1>1, <1>2, <1>3, <2>1, <2>2, PassStarts
    <2> QED  BY <2>3 DEF so_far
  <1>13. LoopInv' /\ HeadsKnown' /\ Done' = {} /\ looping'  BY <1>12 DEF Started
  <1>14. /\ render'.on = render.on /\ render'.frame = frame /\ render'.f = f /\ render'.todo = rest
         /\ render' = [on |-> render.on, frame |-> frame, todo |-> rest, f |-> f]
    <2> DEFINE r == render
               s == render'
    <2>1. r = [on |-> r.on, frame |-> r.frame, todo |-> r.todo, f |-> r.f]  BY <1>0 DEF RenderInv
    <2>2. s = [r EXCEPT !.todo = rest]  BY <1>1
    <2> HIDE DEF r, s, rest
    <2>3. s = [on |-> r.on, frame |-> r.frame, todo |-> rest, f |-> r.f]  BY <2>1, <2>2
    <2>4. s.on = r.on /\ s.frame = r.frame /\ s.todo = rest /\ s.f = r.f  BY <2>3
    <2> QED  BY <2>3, <2>4 DEF r, s
  <1>15. Begun' = begun + 1
    <2>1. Begun' = Len(Passes(render'.f, Picture'.h)) - Len(render'.todo)  BY DEF Begun
    <2>2. Begun' = Len(passes) - Len(rest)  BY <1>4, <1>14, <2>1
    <2> HIDE DEF passes, rest, todo
    <2> QED  BY <1>8, <1>9, <2>2
  <1>16. RenderInv'
    <2>1. render' = [on |-> render'.on, frame |-> render'.frame, todo |-> render'.todo, f |-> render'.f]
      BY <1>14
    <2>2. render.on \in BOOLEAN /\ frame \in 0..MaxFrames /\ f.field \in Fields /\ frame < MaxFrames
      BY <1>0 DEF RenderInv
    <2>3. render'.on \in BOOLEAN /\ render'.on
      BY <1>0, <1>14
    <2>4. render'.frame \in 0..MaxFrames /\ render'.f.field \in Fields /\ render'.frame < MaxFrames
      BY <1>14, <2>2
    <2>5. GoodField(Picture', render'.f)  BY <1>2, <1>4, <1>14
    <2> QED  BY <1>4, <2>1, <2>3, <2>4, <2>5 DEF RenderInv
  <1>17. TodoInv'
    <2>1. TodoIs(f, g.h, rest)
      <3> DEFINE height == g.h
      <3>1. Len(rest) <= Len(passes)
        <4> HIDE DEF rest, passes, todo
        <4> QED  BY <1>7, <1>8, <1>9
      <3>2. \A i \in 1..Len(rest) : rest[i] = passes[Len(passes) - Len(rest) + i]
        <4> SUFFICES ASSUME NEW i \in 1..Len(rest)  PROVE rest[i] = passes[Len(passes) - Len(rest) + i]
          OBVIOUS
        <4>1. rest[i] = todo[i + 1]  BY <1>8
        <4>2. i + 1 \in 1..Len(todo) /\ begun + (i + 1) = Len(passes) - Len(rest) + i
          <5>1. i \in 1..Len(rest)  OBVIOUS
          <5> HIDE DEF rest, passes, todo
          <5> QED  BY <1>8, <1>9, <5>1
        <4>3. todo[i + 1] = passes[begun + (i + 1)]
          <5> DEFINE k == i + 1
          <5>1. k \in 1..Len(todo)  BY <4>2
          <5> HIDE DEF k, todo, passes
          <5> QED  BY <1>7, <5>1 DEF k
        <4> HIDE DEF rest, passes, todo
        <4> QED  BY <4>1, <4>2, <4>3
      <3> HIDE DEF rest, f
      <3> QED  BY <1>8, <3>1, <3>2 DEF TodoIs
    <2> QED  BY <1>4, <1>14, <2>1 DEF TodoInv
  <1>18. PassInv'  BY <1>4, <1>12, <1>14, <1>15 DEF PassInv
  <1>19. FrameInv'
    <2>1. BuffersAre(g, f, yiq, dst) /\ FrameIs(g, f, frame, begun, Int, yiq, dst)
      <3>1. Done = Int  BY <1>0 DEF Done
      <3>2. BuffersAre(Picture, render.f, yiq, dst)
            /\ FrameIs(Picture, render.f, render.frame, Begun, Done, yiq, dst)
        BY <1>0 DEF FrameInv
      <3> QED  BY <3>1, <3>2 DEF Begun
    <2>2. FrameIs(g, f, frame, begun + 1, {}, yiq, dst)
      <3> DEFINE so_far == begun
      <3>1. so_far \in Nat /\ so_far # 2 * Len(Views(f.field, g.h)) + 1
        <4> DEFINE all == Len(passes)
        <4>1. all \in Nat /\ all = 2 * Len(Views(f.field, g.h)) + 1  BY <1>6, <1>9
        <4>2. so_far \in Nat /\ so_far < all  BY <1>11
        <4> HIDE DEF all, so_far
        <4> QED  BY <4>1, <4>2
      <3>2. FrameIs(g, f, frame, so_far, Int, yiq, dst)  BY <2>1
      <3> HIDE DEF so_far, g, f, frame
      <3>3. FrameIs(g, f, frame, so_far + 1, {}, yiq, dst)  BY <1>2, <1>3, <3>1, <3>2, NextPass
      <3> QED  BY <3>3 DEF so_far
    <2>3. BuffersAre(g, f, yiq', dst') /\ FrameIs(g, f, frame, Begun', Done', yiq', dst')
      BY <1>1, <1>13, <1>15, <2>1, <2>2
    <2> QED  BY <1>4, <1>14, <2>3 DEF FrameInv
  <1>20. ShownInv'  BY <1>0, <1>14 DEF ShownInv
  <1> QED  BY <1>4, <1>13, <1>16, <1>17, <1>18, <1>19, <1>20 DEF PluginsInv

\* What a step of the loops leaves as it is.
LEMMA FrameGoesOn ==
  ASSUME PluginsInv, UNCHANGED hostVars, render' = render, looping
  PROVE  /\ HostInv' /\ Picture' = Picture /\ Begun' = Begun /\ TodoInv' /\ ShownInv'
         /\ RenderInv' /\ render.on
         /\ GoodPicture(Picture) /\ GoodField(Picture, render.f)
         /\ PassAt(pass, Picture, render.f, render.frame, Begun, len, size)
         /\ BuffersAre(Picture, render.f, yiq, dst)
         /\ FrameIs(Picture, render.f, render.frame, Begun, Done, yiq, dst)
  <1>0. HostInv /\ RenderInv /\ TodoInv /\ PassInv /\ FrameInv  BY DEF PluginsInv
  <1>1. HostInv' /\ Picture' = Picture /\ (Renders' <=> Renders)  BY <1>0, HostStutter
  <1>2. render.on  BY <1>0 DEF RenderInv
  <1>3. Renders /\ GoodField(Picture, render.f)  BY <1>0, <1>2 DEF RenderInv
  <1>4. GoodPicture(Picture)  BY <1>0, <1>3, PictureKnown DEF HostInv
  <1>5. RenderInv'
    <2>1. render'.on = render.on /\ render'.frame = render.frame /\ render'.f = render.f  OBVIOUS
    <2> QED  BY <1>0, <1>1, <1>2, <1>3 DEF RenderInv
  <1>6. TodoInv' /\ Begun' = Begun
    BY <1>0, <1>1 DEF TodoInv, Begun
  <1>7. ShownInv'  BY <1>2 DEF ShownInv
  <1> QED  BY <1>0, <1>1, <1>2, <1>3, <1>4, <1>5, <1>6, <1>7 DEF PassInv, FrameInv

\* The loops take a step.
LEMMA LoopRuns ==
  ASSUME PluginsInv, RunLoop
  PROVE  PluginsInv'
  <1>0. LoopInv /\ HeadsKnown  BY DEF PluginsInv
  <1>1. UNCHANGED hostVars /\ render' = render  BY DEF RunLoop
  <1>2. looping  BY DEF RunLoop, SpawnHead, RunChunk, Call, Return
  <1>3. /\ HostInv' /\ Picture' = Picture /\ Begun' = Begun /\ TodoInv' /\ ShownInv'
        /\ RenderInv' /\ render.on
        /\ GoodPicture(Picture) /\ GoodField(Picture, render.f)
        /\ PassAt(pass, Picture, render.f, render.frame, Begun, len, size)
        /\ BuffersAre(Picture, render.f, yiq, dst)
        /\ FrameIs(Picture, render.f, render.frame, Begun, Done, yiq, dst)
    BY <1>1, <1>2, FrameGoesOn
  <1>4. CASE SpawnHead /\ UNCHANGED fieldVars
    <2>1. /\ looping' /\ len' = len /\ size' = size /\ Done' = Done
          /\ pass' = pass /\ yiq' = yiq /\ dst' = dst
      BY <1>4, SpawnDone DEF fieldVars
    <2>2. LoopInv' /\ HeadsKnown'  BY <1>0, <1>4, InvSpawnHead, KnownSpawn
    <2>3. PassInv' /\ FrameInv'  BY <1>1, <1>3, <2>1 DEF PassInv, FrameInv
    <2> QED  BY <1>3, <2>2, <2>3 DEF PluginsInv
  <1>5. ASSUME NEW h \in heads, RunChunk(h)  PROVE PluginsInv'
    <2>1. Call(h) /\ pass' = pass  BY <1>5 DEF RunChunk
    <2>2. looping' /\ len' = len /\ size' = size  BY <1>0, <2>1, CallDone
    <2>3. LoopInv' /\ HeadsKnown'  BY <1>0, <2>1, InvCall, KnownCall
    <2> DEFINE g == Picture
               f == render.f
               frame == render.frame
               begun == Begun
    <2>4. /\ GoodPicture(g) /\ GoodField(g, f) /\ PassAt(pass, g, f, frame, begun, len, size)
          /\ BuffersAre(g, f, yiq, dst) /\ FrameIs(g, f, frame, begun, Done, yiq, dst)
      BY <1>3
    <2> HIDE DEF g, f, frame, begun
    <2>5. BuffersAre(g, f, yiq', dst') /\ FrameIs(g, f, frame, begun, Done', yiq', dst')
      BY <1>0, <1>5, <2>4, ChunkDone
    <2>6. FrameInv'  BY <1>1, <1>3, <2>5 DEF FrameInv, g, f, frame, begun
    <2>7. PassInv'  BY <1>1, <1>3, <2>1, <2>2 DEF PassInv
    <2> QED  BY <1>3, <2>3, <2>6, <2>7 DEF PluginsInv
  <1>6. CASE Return /\ UNCHANGED fieldVars
    <2>1. ~looping' /\ yiq' = yiq /\ dst' = dst  BY <1>6, ReturnDone, <1>0 DEF fieldVars
    <2>2. LoopInv'  BY <1>0, <1>6, InvReturn
    <2>3. HeadsKnown'
      <3>1. UNCHANGED <<size, spawned, heads, calls>>  BY <1>6 DEF Return
      <3> QED  BY <1>0, <3>1, KnownStutter
    <2> DEFINE g == Picture
               f == render.f
               frame == render.frame
               begun == Begun
    <2>4. /\ GoodPicture(g) /\ GoodField(g, f) /\ PassAt(pass, g, f, frame, begun, len, size)
          /\ FrameIs(g, f, frame, begun, Done, yiq, dst)
      BY <1>3
    <2> HIDE DEF g, f, frame, begun
    <2>5. FrameIs(g, f, frame, begun, Done', yiq, dst)  BY <1>0, <1>6, <2>4, PassDone
    <2>6. FrameInv'  BY <1>1, <1>3, <2>1, <2>5 DEF FrameInv, g, f, frame, begun
    <2>7. PassInv'  BY <2>1 DEF PassInv
    <2> QED  BY <1>3, <2>2, <2>3, <2>6, <2>7 DEF PluginsInv
  <1> QED  BY <1>4, <1>5, <1>6 DEF RunLoop

\* A frame is done: its picture is the one shown.
LEMMA FrameEnds ==
  ASSUME PluginsInv, EndFrame
  PROVE  PluginsInv'
  <1> DEFINE g == Picture
             f == render.f
             frame == render.frame
             passes == Passes(f, g.h)
  <1>0. HostInv /\ LoopInv /\ HeadsKnown /\ RenderInv /\ FrameInv  BY DEF PluginsInv
  <1>1. /\ render.on /\ ~looping /\ render.todo = <<>>
        /\ render' = [render EXCEPT !.on = FALSE, !.frame = frame + 1]
        /\ UNCHANGED hostVars /\ UNCHANGED loopVars /\ dst' = dst
    BY DEF EndFrame, fieldVars
  <1>2. Renders /\ GoodField(g, f) /\ frame \in 0..MaxFrames /\ frame < MaxFrames
    BY <1>0, <1>1 DEF RenderInv
  <1>3. GoodPicture(g)  BY <1>0, <1>2, PictureKnown DEF HostInv
  <1>4. HostInv' /\ Picture' = g /\ Renders'  BY <1>0, <1>1, <1>2, HostStutter
  <1>5. LoopInv' /\ HeadsKnown' /\ looping' = looping  BY <1>0, <1>1, LoopStutter
  <1>6. /\ render'.on = FALSE /\ render'.frame = frame + 1 /\ render'.f = f
        /\ render' = [on |-> render'.on, frame |-> render'.frame, todo |-> render'.todo, f |-> render'.f]
    <2> DEFINE r == render
               s == render'
               next == frame + 1
               off == FALSE
    <2>1. r = [on |-> r.on, frame |-> r.frame, todo |-> r.todo, f |-> r.f]  BY <1>0 DEF RenderInv
    <2>2. s = [r EXCEPT !.on = off, !.frame = next]  BY <1>1
    <2> HIDE DEF r, s, next, off
    <2>3. s = [on |-> off, frame |-> next, todo |-> r.todo, f |-> r.f]  BY <2>1, <2>2
    <2>4. s.on = off /\ s.frame = next /\ s.f = r.f /\ s.todo = r.todo  BY <2>3
    <2>5. s = [on |-> s.on, frame |-> s.frame, todo |-> s.todo, f |-> s.f]  BY <2>3, <2>4
    <2> QED  BY <2>4, <2>5 DEF r, s, next, off
  <1>7. RenderInv'
    <2>1. frame + 1 \in 0..MaxFrames  BY <1>2, MaxFramesAssumption
    <2>2. f.field \in Fields  BY <1>0 DEF RenderInv
    <2>3. render'.on \in BOOLEAN /\ ~render'.on  BY <1>6
    <2>4. render'.frame \in 0..MaxFrames /\ render'.f.field \in Fields  BY <1>6, <2>1, <2>2
    <2>5. GoodField(Picture', render'.f)  BY <1>2, <1>4, <1>6
    <2>6. ~looping'  BY <1>1, <1>5
    <2> QED  BY <1>4, <1>6, <2>3, <2>4, <2>5, <2>6 DEF RenderInv
  <1>8. Shown(g, f, frame, dst)
    <2>1. BuffersAre(g, f, yiq, dst) /\ FrameIs(g, f, frame, Begun, Done, yiq, dst)
      BY <1>0, <1>1 DEF FrameInv
    <2>2. Done = Int  BY <1>1 DEF Done
    <2>3. Begun = 2 * Len(Views(f.field, g.h)) + 1
      <3> DEFINE height == g.h
      <3>1. height \in Nat \ {0} /\ f.field \in Fields  BY <1>2, <1>3 DEF GoodPicture, GoodField
      <3> HIDE DEF height, f
      <3>2. PassesListed(f, height)  BY <3>1, PassesAre
      <3>3. Len(Passes(f, height)) = 2 * Len(Views(f.field, height)) + 1
            /\ Len(Views(f.field, height)) \in {1, 2}
        BY <3>2 DEF PassesListed
      <3>4. Begun = Len(Passes(f, height)) - Len(render.todo)  BY DEF Begun, f, height
      <3>5. Len(render.todo) = 0  BY <1>1
      <3> QED  BY <3>3, <3>4, <3>5 DEF height
    <2> DEFINE L == Length(g)
    <2>4. L \in Nat \ {0} /\ g.rect.top \in Int  BY <1>3 DEF GoodPicture, Length
    <2>5. ASSUME NEW m \in 0..(g.h - 1), NEW column \in 0..(L - 1)
          PROVE  dst[m * L + column] = Wanted(g, f, frame, m, column)
      <3>1. PixelIs(g, f, frame, Begun, Int, dst, m, column)
        BY <2>1, <2>2 DEF FrameIs, PixelsAre
      <3> DEFINE a == m - g.rect.top
      <3>2. a \in Int /\ column \in Int  BY <2>4
      <3>3. a * L + column \in Int
        <4> HIDE DEF a, L
        <4>1. a * L \in Int  BY <2>4, <3>2
        <4> QED  BY <3>2, <4>1
      <3>4. IsWritten(g, f, Begun, Int, m, column)  BY <2>3, <3>3 DEF IsWritten
      <3> QED  BY <3>1, <3>4 DEF PixelIs
    <2> QED  BY <2>1, <2>5 DEF Shown, BuffersAre
  <1>9. ShownInv'
    <2>1. frame \in Int  BY <1>2
    <2>2. render'.frame - 1 = frame  BY <1>6, <2>1
    <2>3. Shown(Picture', render'.f, render'.frame - 1, dst')  BY <1>1, <1>4, <1>6, <1>8, <2>2
    <2> QED  BY <2>3 DEF ShownInv
  <1>10. ~render'.on /\ ~looping'  BY <1>1, <1>5, <1>6
  <1> QED  BY <1>4, <1>5, <1>7, <1>9, <1>10 DEF PluginsInv, TodoInv, PassInv, FrameInv

\* A step that leaves frames and loops alone.
LEMMA FrameRests ==
  ASSUME PluginsInv, HostInv', session' = session, UNCHANGED <<loopVars, fieldVars, render>>
  PROVE  PluginsInv'
  <1>0. HostInv /\ LoopInv /\ HeadsKnown /\ RenderInv /\ TodoInv /\ PassInv /\ FrameInv /\ ShownInv
    BY DEF PluginsInv
  <1>1. UNCHANGED loopVars /\ pass' = pass /\ yiq' = yiq /\ dst' = dst /\ render' = render
    BY DEF fieldVars
  <1>2. LoopInv' /\ HeadsKnown' /\ Done' = Done /\ looping' = looping /\ len' = len /\ size' = size
    BY <1>0, <1>1, LoopStutter
  <1>3. Picture' = Picture /\ (Renders' <=> Renders)  BY DEF Picture, Renders
  <1>4. Begun' = Begun  BY <1>1, <1>3 DEF Begun
  <1>5. RenderInv'
    <2>1. render'.on = render.on /\ render'.frame = render.frame /\ render'.f = render.f  BY <1>1
    <2> QED  BY <1>0, <1>1, <1>2, <1>3, <2>1 DEF RenderInv
  <1>6. TodoInv' /\ ShownInv'  BY <1>0, <1>1, <1>3 DEF TodoInv, ShownInv
  <1>7. PassInv' /\ FrameInv'  BY <1>0, <1>1, <1>2, <1>3, <1>4 DEF PassInv, FrameInv
  <1> QED  BY <1>2, <1>5, <1>6, <1>7 DEF PluginsInv

\* A session's users do not change what it is about.
LEMMA SessionStays ==
  ASSUME HostsNext
  PROVE  session' = session
BY DEF HostsNext, Change, Notified, Save, Load, SaveTo, SaveChosen, Act

\* Each step keeps the invariant.
LEMMA PluginsKept ==
  ASSUME PluginsInv, [Next]_pluginVars
  PROVE  PluginsInv'
  <1>0. HostInv  BY DEF PluginsInv
  <1>1. CASE RenderFrame  BY <1>1, FrameBegins
  <1>2. CASE StartPass  BY <1>2, PassBegins
  <1>3. CASE RunLoop  BY <1>3, LoopRuns
  <1>4. CASE EndFrame  BY <1>4, FrameEnds
  <1>5. CASE ~render.on /\ HostsNext /\ UNCHANGED <<loopVars, fieldVars, render>>
    <2>1. HostInv'  BY <1>0, <1>5, HostInvKept
    <2>2. session' = session  BY <1>5, SessionStays
    <2> QED  BY <1>5, <2>1, <2>2, FrameRests
  <1>6. CASE UNCHANGED pluginVars
    <2>1. UNCHANGED hostVars /\ UNCHANGED <<loopVars, fieldVars, render>>  BY <1>6 DEF pluginVars
    <2>2. HostInv' /\ session' = session  BY <1>0, <2>1, HostStutter
    <2> QED  BY <2>1, <2>2, FrameRests
  <1> QED  BY <1>1, <1>2, <1>3, <1>4, <1>5, <1>6 DEF Next

-----------------------------------------------------------------------------
(* What the invariant says of the properties                                  *)

\* A picture shown row by row is the reference place by place.
LEMMA ShownAsReference ==
  ASSUME PluginsInv
  PROVE  FrameAsReference
  <1> DEFINE g == Picture
             f == render.f
             frame == render.frame - 1
             length == g.w + g.pad
             Row(k) == IF g.dst_flip THEN g.h - 1 - (k \div length) ELSE k \div length
  <1> SUFFICES ASSUME Renders, ~render.on, render.frame > 0, NEW k \in DOMAIN dst
               PROVE  dst[k] = IF k % length >= g.w THEN {}
                               ELSE Expected(g, f, frame, Row(k), k % length)
    BY DEF FrameAsReference
  <1>1. HostInv /\ ShownInv  BY DEF PluginsInv
  <1>2. GoodPicture(g)  BY <1>1, PictureKnown DEF HostInv
  <1>3. g.w \in Nat \ {0} /\ g.h \in Nat \ {0} /\ g.pad \in Nat  BY <1>2 DEF GoodPicture
  <1>4. Shown(g, f, frame, dst)  BY <1>1 DEF ShownInv
  <1> DEFINE m == k \div length
             column == k % length
             height == g.h
  <1>5. length \in Nat \ {0} /\ height \in Nat /\ Length(g) = length  BY <1>3 DEF Length
  <1>6. k \in 0..(length * height - 1)  BY <1>4, <1>5 DEF Shown
  <1>7. /\ m \in Nat /\ column \in Nat /\ column < length /\ k = m * length + column /\ k \in Nat
    <2> HIDE DEF length, height
    <2>1. k \in Nat  BY <1>5, <1>6
    <2> QED  BY <1>5, <2>1, DivisionFacts
  <1>8. m \in 0..(height - 1) /\ column \in 0..(length - 1)
    <2> HIDE DEF m, column, length, height
    <2>1. m * length \in Nat /\ height * length \in Nat /\ length * height = height * length
      BY <1>5, <1>7
    <2>2. m * length < height * length  BY <1>5, <1>6, <1>7, <2>1
    <2>3. m + 1 <= height  BY <1>5, <1>7, <2>2, TimesBelow
    <2> QED  BY <1>5, <1>7, <2>3
  <1>9. dst[m * length + column] = Wanted(g, f, frame, m, column)
    <2> HIDE DEF m, column, f, frame
    <2> QED  BY <1>4, <1>5, <1>8 DEF Shown
  <1>10. MemoryRow(g, m) = Row(k)  BY DEF MemoryRow
  <1> HIDE DEF m, length
  <1>11. dst[k] = Wanted(g, f, frame, m, column)  BY <1>7, <1>9
  <1> HIDE DEF column, f, frame, Row
  <1>12. dst[k] = IF column >= g.w THEN {} ELSE Expected(g, f, frame, Row(k), column)
    BY <1>10, <1>11 DEF Wanted
  <1> QED  BY <1>12 DEF column

\* Settings and loops are within their ranges.
LEMMA ShowsTypeOK ==
  ASSUME PluginsInv
  PROVE  TypeOK
  <1>0. HostInv /\ LoopInv /\ RenderInv  BY DEF PluginsInv
  <1>1. \A h \in HostsOf(session) : InRange(SettingsOf(h))  BY <1>0, HostInvShows
  <1>2. render.frame \in 0..MaxFrames /\ render.f.field \in Fields  BY <1>0 DEF RenderInv
  <1>3. ASSUME NEW h \in heads  PROVE h.from \in 0..len /\ h.to \in h.from..len
    <2>1. h.from \in Nat /\ h.to \in Nat /\ len \in Nat /\ from \in Nat
      BY <1>0 DEF LoopInv, LoopType
    <2>2. h.from <= h.to /\ h.to <= from /\ from <= len
      BY <1>0 DEF LoopInv, HeadsPlaced, CutsAddUp
    <2> QED  BY <2>1, <2>2
  <1> QED  BY <1>1, <1>2, <1>3 DEF TypeOK

\* The settings stay those meant.
LEMMA KeptStep ==
  ASSUME PluginsInv, KeptInv, [Next]_pluginVars
  PROVE  KeptInv'
  <1>0. HostInv  BY DEF PluginsInv
  <1>1. CASE HostsNext  BY <1>0, <1>1, KeptKept
  <1>2. CASE UNCHANGED hostVars
    <2>1. UNCHANGED <<session, params, disk, intended>>  BY <1>2 DEF hostVars
    <2> QED  BY <2>1, KeptStutter
  <1> QED
    BY <1>1, <1>2 DEF Next, RenderFrame, StartPass, RunLoop, EndFrame, pluginVars

-----------------------------------------------------------------------------
\* What is true of every reachable state, whatever the sessions are about: of the
\* hosts' settings, of the loop that runs and of the samples and pixels it is at.
THEOREM Invariant == Spec => []PluginsInv
  <1>1. PluginsInit => PluginsInv  BY PluginsAtStart
  <1>2. PluginsInv /\ [Next]_pluginVars => PluginsInv'  BY PluginsKept
  <1> QED  BY <1>1, <1>2, PTL DEF Spec

\* The settings stay in the ranges of their controls in every host, whatever the
\* presets say and whatever controls are left at, and chunks of rows stay in their
\* buffers (settings/core.rs's readers, with_rows).
THEOREM TypeCorrect == Spec => []TypeOK
  <1>1. PluginsInv => TypeOK  BY ShowsTypeOK
  <1> QED  BY <1>1, Invariant, PTL

\* Every pixel of every rendered frame is the one that the frame's field, number and
\* rectangle call for: yiq_fielding.rs's views, blits and loops together, for every
\* size, layer and rectangle of the hosts, and every way to split the rows.
THEOREM FramesAreTheReference == Spec => []FrameAsReference
  <1>1. PluginsInv => FrameAsReference  BY ShownAsReference
  <1> QED  BY <1>1, Invariant, PTL

\* In each of a frame's loops every row is handed to one call (with_rows).
THEOREM EveryRowOnceInFrames == Spec => []EveryRowOnce
  <1>1. PluginsInv => EveryRowOnce  BY InvSuffices DEF PluginsInv
  <1> QED  BY <1>1, Invariant, PTL

\* A control is disabled exactly when its setting has no part in the effect, for every
\* list of settings with groups in groups (update_controls_disabled, SettingsBlock).
THEOREM ControlsShowTheEffect == Spec => []ControlsFollowGroups
  <1>1. PluginsInv => ControlsFollowGroups  BY HostInvShows DEF PluginsInv
  <1> QED  BY <1>1, Invariant, PTL

\* Settings go from host to host, through parameters, sliders and presets, and are
\* what the users meant. What a file stands for that no host wrote is an assumption:
\* the files of the model checking say it key by key.
THEOREM SettingsAreMeant == FilesSayWhatIsRead => (Spec => []LooksKept)
  <1> SUFFICES ASSUME FilesSayWhatIsRead  PROVE Spec => []LooksKept
    OBVIOUS
  <1>1. PluginsInit => PluginsInv /\ KeptInv
    BY PluginsAtStart, KeptAtStart DEF PluginsInv, PluginsInit
  <1>2. PluginsInv /\ KeptInv /\ [Next]_pluginVars => (PluginsInv /\ KeptInv)'
    BY PluginsKept, KeptStep
  <1>3. PluginsInv /\ KeptInv => LooksKept  BY KeptShows DEF PluginsInv, HostInv
  <1> QED  BY <1>1, <1>2, <1>3, PTL DEF Spec

=============================================================================
