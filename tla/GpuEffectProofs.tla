-------------------------- MODULE GpuEffectProofs --------------------------
(***************************************************************************)
(* That a call delivers the planes of the CPU, whatever the settings, the  *)
(* random numbers and the length of the clip. The invariant speaks of what *)
(* the device will hold when it has executed the queue: a step of the      *)
(* device does not change it, and a step of the host adds to it.           *)
(***************************************************************************)
EXTENDS GpuStagesProofs

-----------------------------------------------------------------------------
(* The device after a command, and after all that was submitted            *)

OnFrame == {"write_plane", "copy", "filter", "dispatch"}

UniformsFor(params_, c) == IF c.uniform \in DOMAIN params_ THEN params_[c.uniform] ELSE <<>>
RowsFor(data_, c) == IF c.slot \in DOMAIN data_ THEN data_[c.slot] ELSE <<>>

FrameAfter(b, dev, c) ==
  CASE c.op = "write_plane" -> [b EXCEPT ![c.plane] = c.signal]
    [] c.op = "copy" -> [b EXCEPT ![c.to] = b[c.from]]
    [] c.op = "filter" -> FilterShader(c, b)
    [] c.op = "dispatch" -> Shader(c, UniformsFor(dev.params, c), RowsFor(dev.data, c), b)

DataAfter(data_, c) ==
  IF c.slot <= Len(data_) THEN [data_ EXCEPT ![c.slot] = c.rows] ELSE Append(data_, c.rows)

\* ok: each dispatch has read what it was encoded for.
Apply(dev, c) ==
  [planes |-> IF c.op \in OnFrame THEN [dev.planes EXCEPT ![c.at] = FrameAfter(dev.planes[c.at], dev, c)]
              ELSE dev.planes,
   data |-> IF c.op = "write_data" THEN DataAfter(dev.data, c) ELSE dev.data,
   params |-> IF c.op = "write_params" THEN [dev.params EXCEPT ![c.slot] = c.values] ELSE dev.params,
   ok |-> dev.ok /\ (c.op = "dispatch" => RowsFor(dev.data, c) = c.rows)]

Run(dev, commands) ==
  LET after[n \in 0 .. Len(commands)] == IF n = 0 THEN dev ELSE Apply(after[n - 1], commands[n])
  IN after[Len(commands)]

\* A device: two frames, a list of control buffers and the ring of uniforms.
IsDevice(dev) ==
  /\ dev.planes = [at \in {0, 1} |-> dev.planes[at]] /\ \A at \in {0, 1} : IsFrame(dev.planes[at])
  /\ IsList(dev.data)
  /\ dev.params = [n \in 1 .. RingSize |-> dev.params[n]]
  /\ dev.ok \in BOOLEAN
  /\ dev = [planes |-> dev.planes, data |-> dev.data, params |-> dev.params, ok |-> dev.ok]

\* A command for frames at one of the places `ats'.
CommandOK(c, ats) ==
  /\ c.op \in OnFrame \cup {"write_data", "write_params"}
  /\ c.op \in OnFrame => c.at \in ats
  /\ c.op = "dispatch" => c.entry \in Entries /\ c.uniform \in 0 .. RingSize
  /\ c.op = "write_data" => c.slot \in Nat \ {0}

Commands(cs, ats) == IsList(cs) /\ \A n \in 1 .. Len(cs) : CommandOK(cs[n], ats)

\* The device after each of the commands.
LEMMA RunFold ==
  ASSUME NEW a, NEW s, IsList(s)
  PROVE  \E f : /\ f[0] = a
                /\ \A n \in 1 .. Len(s) : f[n] = Apply(f[n - 1], s[n])
                /\ Run(a, s) = f[Len(s)]
<1> DEFINE G(g, m) == [n \in 0 .. m |-> IF n = 0 THEN a ELSE Apply(g[n - 1], s[n])]
           S == {m \in Nat : \E g : g = G(g, m)}
<1>1. 0 \in S
  <2> DEFINE g == [n \in 0 .. 0 |-> a]
  <2>1. g = G(g, 0) OBVIOUS
  <2> QED BY <2>1
<1>2. ASSUME NEW m \in Nat, m \in S PROVE m + 1 \in S
  <2>1. PICK g : g = G(g, m) BY <1>2
  <2> DEFINE h == [n \in 0 .. m + 1 |-> IF n <= m THEN g[n] ELSE Apply(g[m], s[m + 1])]
  <2>2. ASSUME NEW n \in 0 .. m + 1 PROVE h[n] = G(h, m + 1)[n]
    <3>1. CASE n = 0 BY <2>1, <3>1
    <3>2. CASE n \in 1 .. m
      <4>1. g[n] = Apply(g[n - 1], s[n]) BY <2>1, <3>2
      <4>2. h[n] = g[n] /\ h[n - 1] = g[n - 1] BY <3>2
      <4> QED BY <3>2, <4>1, <4>2
    <3>3. CASE n = m + 1 BY <3>3
    <3> QED BY <3>1, <3>2, <3>3
  <2>3. h = G(h, m + 1)
    <3>1. DOMAIN h = 0 .. m + 1 /\ DOMAIN G(h, m + 1) = 0 .. m + 1 OBVIOUS
    <3> QED BY <2>2, <3>1
  <2> HIDE DEF h
  <2>4. \E k : k = G(k, m + 1) BY <2>3
  <2>5. m + 1 \in Nat OBVIOUS
  <2> HIDE DEF G
  <2> QED BY <2>4, <2>5
<1>3. Len(s) \in S
  <2> HIDE DEF S
  <2>1. Len(s) \in Nat BY DEF IsList
  <2> QED BY <1>1, <1>2, <2>1, Induction
<1>4. \E g : g = G(g, Len(s)) BY <1>3
<1> DEFINE f == CHOOSE g : g = G(g, Len(s))
<1>5. f = G(f, Len(s)) BY <1>4
<1>6. Run(a, s) = f[Len(s)] BY DEF Run
<1> HIDE DEF f
<1>7. f[0] = a /\ \A n \in 1 .. Len(s) : f[n] = Apply(f[n - 1], s[n])
  <2>1. Len(s) \in Nat BY DEF IsList
  <2> QED BY <1>5, <2>1
<1> QED BY <1>6, <1>7

\* No commands change nothing.
LEMMA RunNone == ASSUME NEW a PROVE Run(a, <<>>) = a
<1> DEFINE s == <<>>
<1>1. IsList(s) /\ Len(s) = 0 BY ShortLists
<1> HIDE DEF s
<1>2. Run(a, s) = a BY <1>1, RunFold
<1> QED BY <1>2 DEF s

\* One command is applied.
LEMMA RunOne == ASSUME NEW a, NEW c PROVE Run(a, <<c>>) = Apply(a, c)
<1> DEFINE s == <<c>>
<1>2. IsList(s) /\ Len(s) = 1 /\ s[1] = c BY ShortLists
<1> HIDE DEF s
<1>3. Run(a, s) = Apply(a, c)
  <2>1. PICK f : /\ f[0] = a
                 /\ \A n \in 1 .. Len(s) : f[n] = Apply(f[n - 1], s[n])
                 /\ Run(a, s) = f[Len(s)] BY <1>2, RunFold
  <2>2. f[1] = Apply(f[0], s[1]) BY <1>2, <2>1
  <2> QED BY <1>2, <2>1, <2>2
<1> QED BY <1>3 DEF s

\* Commands behind others find what those have left.
LEMMA RunJoined ==
  ASSUME NEW a, NEW s, NEW t, NEW u, IsList(s), IsList(t), IsList(u), Joins(s, t, u)
  PROVE  Run(a, u) = Run(Run(a, s), t)
<1> DEFINE mid == Run(a, s)
<1>1. /\ Len(u) = Len(s) + Len(t) /\ Len(s) \in Nat /\ Len(t) \in Nat
      /\ \A n \in 1 .. Len(s) : u[n] = s[n]
      /\ \A n \in 1 .. Len(t) : u[Len(s) + n] = t[n]
  BY DEF Joins
<1>2. PICK f : /\ f[0] = a
               /\ \A n \in 1 .. Len(u) : f[n] = Apply(f[n - 1], u[n])
               /\ Run(a, u) = f[Len(u)]
  BY RunFold
<1>3. PICK g : /\ g[0] = a
               /\ \A n \in 1 .. Len(s) : g[n] = Apply(g[n - 1], s[n])
               /\ mid = g[Len(s)]
  BY RunFold
<1> HIDE DEF mid
<1>4. PICK h : /\ h[0] = mid
               /\ \A n \in 1 .. Len(t) : h[n] = Apply(h[n - 1], t[n])
               /\ Run(mid, t) = h[Len(t)]
  BY RunFold
<1>5. f[Len(s)] = g[Len(s)]
  <2> DEFINE S == {n \in Nat : n <= Len(s) => f[n] = g[n]}
  <2>1. 0 \in S BY <1>2, <1>3
  <2>2. ASSUME NEW n \in Nat, n \in S PROVE n + 1 \in S
    <3>1. SUFFICES ASSUME n + 1 <= Len(s) PROVE f[n + 1] = g[n + 1] OBVIOUS
    <3>2. n + 1 \in 1 .. Len(s) /\ n + 1 \in 1 .. Len(u) /\ (n + 1) - 1 = n BY <1>1, <3>1
    <3>3. f[n + 1] = Apply(f[n], u[n + 1]) BY <1>2, <3>2
    <3>4. g[n + 1] = Apply(g[n], s[n + 1]) BY <1>3, <3>2
    <3>5. u[n + 1] = s[n + 1] BY <1>1, <3>2
    <3>6. f[n] = g[n] BY <2>2, <1>1, <3>1
    <3> QED BY <3>3, <3>4, <3>5, <3>6
  <2>3. Len(s) \in S
    <3> HIDE DEF S
    <3> QED BY <1>1, <2>1, <2>2, Induction
  <2> QED BY <1>1, <2>3
<1>6. f[Len(s) + Len(t)] = h[Len(t)]
  <2> DEFINE S == {n \in Nat : n <= Len(t) => f[Len(s) + n] = h[n]}
  <2>1. 0 \in S BY <1>1, <1>3, <1>4, <1>5
  <2>2. ASSUME NEW n \in Nat, n \in S PROVE n + 1 \in S
    <3>1. SUFFICES ASSUME n + 1 <= Len(t) PROVE f[Len(s) + (n + 1)] = h[n + 1] OBVIOUS
    <3>2. /\ n + 1 \in 1 .. Len(t) /\ Len(s) + (n + 1) \in 1 .. Len(u)
          /\ (Len(s) + (n + 1)) - 1 = Len(s) + n /\ (n + 1) - 1 = n
      BY <1>1, <3>1
    <3>3. f[Len(s) + (n + 1)] = Apply(f[Len(s) + n], u[Len(s) + (n + 1)]) BY <1>2, <3>2
    <3>4. h[n + 1] = Apply(h[n], t[n + 1]) BY <1>4, <3>2
    <3>5. u[Len(s) + (n + 1)] = t[n + 1] BY <1>1, <3>2
    <3>6. f[Len(s) + n] = h[n] BY <2>2, <1>1, <3>1
    <3> QED BY <3>3, <3>4, <3>5, <3>6
  <2>3. Len(t) \in S
    <3> HIDE DEF S
    <3> QED BY <1>1, <2>1, <2>2, Induction
  <2> QED BY <1>1, <2>3
<1>7. Run(a, u) = Run(mid, t) BY <1>1, <1>2, <1>4, <1>6
<1> QED BY <1>7 DEF mid

\* The same, for a concatenation.
LEMMA RunConcat ==
  ASSUME NEW a, NEW s, NEW t, IsList(s), IsList(t)
  PROVE  Run(a, s \o t) = Run(Run(a, s), t)
<1>1. IsList(s \o t) /\ Joins(s, t, s \o t) BY ListConcat
<1> QED BY <1>1, RunJoined

\* What encode_effect has encoded after each of its steps.
LEMMA EncodeFold ==
  ASSUME NEW at, NEW oversized, NEW a, NEW s, IsList(s)
  PROVE  \E f : /\ f[0] = a
                /\ \A n \in 1 .. Len(s) : f[n] = EncodeStep(f[n - 1], at, s[n], oversized)
                /\ Encode(a, at, s, oversized) = f[Len(s)]
<1> DEFINE G(g, m) == [n \in 0 .. m |-> IF n = 0 THEN a ELSE EncodeStep(g[n - 1], at, s[n], oversized)]
           S == {m \in Nat : \E g : g = G(g, m)}
<1>1. 0 \in S
  <2> DEFINE g == [n \in 0 .. 0 |-> a]
  <2>1. g = G(g, 0) OBVIOUS
  <2> QED BY <2>1
<1>2. ASSUME NEW m \in Nat, m \in S PROVE m + 1 \in S
  <2>1. PICK g : g = G(g, m) BY <1>2
  <2> DEFINE h == [n \in 0 .. m + 1 |-> IF n <= m THEN g[n] ELSE EncodeStep(g[m], at, s[m + 1], oversized)]
  <2>2. ASSUME NEW n \in 0 .. m + 1 PROVE h[n] = G(h, m + 1)[n]
    <3>1. CASE n = 0 BY <2>1, <3>1
    <3>2. CASE n \in 1 .. m
      <4>1. g[n] = EncodeStep(g[n - 1], at, s[n], oversized) BY <2>1, <3>2
      <4>2. h[n] = g[n] /\ h[n - 1] = g[n - 1] BY <3>2
      <4> QED BY <3>2, <4>1, <4>2
    <3>3. CASE n = m + 1 BY <3>3
    <3> QED BY <3>1, <3>2, <3>3
  <2>3. h = G(h, m + 1)
    <3>1. DOMAIN h = 0 .. m + 1 /\ DOMAIN G(h, m + 1) = 0 .. m + 1 OBVIOUS
    <3> QED BY <2>2, <3>1
  <2> HIDE DEF h
  <2>4. \E k : k = G(k, m + 1) BY <2>3
  <2>5. m + 1 \in Nat OBVIOUS
  <2> HIDE DEF G
  <2> QED BY <2>4, <2>5
<1>3. Len(s) \in S
  <2> HIDE DEF S
  <2>1. Len(s) \in Nat BY DEF IsList
  <2> QED BY <1>1, <1>2, <2>1, Induction
<1>4. \E g : g = G(g, Len(s)) BY <1>3
<1> DEFINE f == CHOOSE g : g = G(g, Len(s))
<1>5. f = G(f, Len(s)) BY <1>4
<1>6. Encode(a, at, s, oversized) = f[Len(s)] BY DEF Encode
<1> HIDE DEF f
<1>7. f[0] = a /\ \A n \in 1 .. Len(s) : f[n] = EncodeStep(f[n - 1], at, s[n], oversized)
  <2>1. Len(s) \in Nat BY DEF IsList
  <2> QED BY <1>5, <2>1
<1> QED BY <1>6, <1>7

-----------------------------------------------------------------------------
(* What no command does                                                    *)

\* A shader writes buffers of the frame.
LEMMA ShaderKeepsFrame ==
  ASSUME NEW c, c.entry \in Entries, NEW u, NEW rows, NEW b, IsFrame(b)
  PROVE  IsFrame(Shader(c, u, rows, b))
<1>1. ASSUME NEW x, IsFrame(x), NEW p, NEW y PROVE IsFrame([x EXCEPT ![p] = y])
  BY <1>1 DEF IsFrame
<1>2. ASSUME NEW x, IsFrame(x), NEW p, NEW y, NEW q, NEW z PROVE IsFrame([x EXCEPT ![p] = y, ![q] = z])
  BY <1>2 DEF IsFrame
<1>3. ASSUME NEW x, IsFrame(x), NEW p, NEW y, NEW q, NEW z, NEW r, NEW w
      PROVE IsFrame([x EXCEPT ![p] = y, ![q] = z, ![r] = w])
  BY <1>3 DEF IsFrame
<1>4. ASSUME NEW mode PROVE IsFrame(DemodulateShader(mode, u, b)) BY <1>3 DEF DemodulateShader
<1>5. CASE c.entry = "luma_box" BY <1>1, <1>5 DEF Shader
<1>6. CASE c.entry = "chroma_into_luma" BY <1>1, <1>6 DEF Shader
<1>7. CASE c.entry = "noise" BY <1>1, <1>7 DEF Shader
<1>8. CASE c.entry = "snow" BY <1>1, <1>8 DEF Shader
<1>9. CASE c.entry = "shift_y" BY <1>1, <1>9 DEF Shader
<1>10. CASE c.entry = "shift_all" BY <1>3, <1>10 DEF Shader
<1>11. CASE c.entry = "chroma_phase" BY <1>2, <1>11 DEF Shader
<1>12. CASE c.entry = "phase" BY <1>2, <1>12 DEF Shader
<1>13. CASE c.entry = "chroma_delay" BY <1>2, <1>13 DEF Shader
<1>14. CASE c.entry = "loss" BY <1>2, <1>14 DEF Shader
<1>15. CASE c.entry = "chroma_vert_blend" BY <1>2, <1>15 DEF Shader
<1>16. CASE c.entry = "yiq_to_rgba8" BY <1>1, <1>16 DEF Shader
<1>17. CASE c.entry = "demodulate_box" BY <1>4, <1>17 DEF Shader
<1>18. CASE c.entry = "demodulate_notch" BY <1>4, <1>18 DEF Shader
<1>19. CASE c.entry = "demodulate_one_line" BY <1>4, <1>19 DEF Shader
<1>20. CASE c.entry = "demodulate_two_line" BY <1>4, <1>20 DEF Shader
<1> QED BY <1>5, <1>6, <1>7, <1>8, <1>9, <1>10, <1>11, <1>12, <1>13, <1>14, <1>15, <1>16, <1>17, <1>18,
  <1>19, <1>20 DEF Entries

\* A command leaves a frame a frame.
LEMMA FrameAfterIsFrame ==
  ASSUME NEW b, IsFrame(b), NEW dev, NEW c, NEW ats, CommandOK(c, ats), c.op \in OnFrame
  PROVE  IsFrame(FrameAfter(b, dev, c))
<1>1. CASE c.op = "write_plane" BY <1>1 DEF FrameAfter, IsFrame
<1>2. CASE c.op = "copy" BY <1>2 DEF FrameAfter, IsFrame
<1>3. CASE c.op = "filter"
  <2>1. FrameAfter(b, dev, c) = FilterShader(c, b) BY <1>3 DEF FrameAfter
  <2>2. DOMAIN b = BufferNames BY DEF IsFrame
  <2>3. IsFrame(FilterShader(c, b)) BY <2>2 DEF FilterShader, IsFrame
  <2> QED BY <2>1, <2>3
<1>4. CASE c.op = "dispatch"
  <2> DEFINE u == UniformsFor(dev.params, c)
             rows == RowsFor(dev.data, c)
  <2>1. FrameAfter(b, dev, c) = Shader(c, u, rows, b) BY <1>4 DEF FrameAfter
  <2> HIDE DEF u, rows
  <2>2. c.entry \in Entries BY <1>4 DEF CommandOK
  <2> QED BY <2>1, <2>2, ShaderKeepsFrame
<1> QED BY <1>1, <1>2, <1>3, <1>4 DEF OnFrame

\* Control buffers are replaced or added.
LEMMA DataAfterIs ==
  ASSUME NEW d, IsList(d), NEW c, c.slot \in Nat \ {0}
  PROVE  LET r == DataAfter(d, c)
         IN /\ IsList(r) /\ Len(r) >= Len(d) /\ Len(r) \in Nat
            /\ c.slot <= Len(d) + 1 => r[c.slot] = c.rows /\ c.slot \in DOMAIN r
            /\ \A n \in DOMAIN d : n # c.slot => n \in DOMAIN r /\ r[n] = d[n]
<1> DEFINE x == c.rows
           k == c.slot
           r == DataAfter(d, c)
<1>1. PICK X : d \in Seq(X) BY DEF IsList
<1>2. CASE k <= Len(d)
  <2>1. r = [d EXCEPT ![k] = x] BY <1>2 DEF DataAfter
  <2> HIDE DEF r, x
  <2>2. r \in Seq(X \cup {x})
    <3>1. d = [n \in 1 .. Len(d) |-> d[n]] /\ Len(d) \in Nat /\ \A n \in 1 .. Len(d) : d[n] \in X BY <1>1
    <3>2. r = [n \in 1 .. Len(d) |-> IF n = k THEN x ELSE d[n]] BY <2>1, <3>1
    <3>3. \A n \in 1 .. Len(d) : r[n] \in X \cup {x} BY <3>1, <3>2
    <3> QED BY <3>1, <3>2, <3>3
  <2>3. Len(r) = Len(d) /\ DOMAIN r = DOMAIN d /\ Len(d) \in Nat /\ DOMAIN d = 1 .. Len(d) BY <1>1, <2>1, <2>2
  <2>4. IsList(r) BY <2>2 DEF IsList
  <2>5. k \in DOMAIN d BY <1>2, <2>3
  <2> QED BY <2>1, <2>3, <2>4, <2>5 DEF r, x
<1>3. CASE ~(k <= Len(d))
  <2>1. r = Append(d, x) BY <1>3 DEF DataAfter
  <2> HIDE DEF r, x
  <2>2. d \in Seq(X \cup {x})
    <3>1. d = [n \in 1 .. Len(d) |-> d[n]] /\ Len(d) \in Nat /\ \A n \in 1 .. Len(d) : d[n] \in X BY <1>1
    <3> QED BY <3>1
  <2>3. r \in Seq(X \cup {x}) /\ Len(r) = Len(d) + 1 /\ r[Len(d) + 1] = x /\ \A n \in 1 .. Len(d) : r[n] = d[n]
    BY <2>1, <2>2
  <2>4. IsList(r) BY <2>3 DEF IsList
  <2>5. Len(d) \in Nat /\ DOMAIN d = 1 .. Len(d) /\ DOMAIN r = 1 .. Len(d) + 1 BY <1>1, <2>3
  <2>6. k <= Len(d) + 1 => k = Len(d) + 1 BY <1>3, <2>5
  <2> QED BY <2>3, <2>4, <2>5, <2>6 DEF r, x
<1> QED BY <1>2, <1>3

\* A command leaves a device.
LEMMA ApplyIsDevice ==
  ASSUME NEW dev, IsDevice(dev), NEW c, CommandOK(c, {0, 1})
  PROVE  IsDevice(Apply(dev, c))
<1> DEFINE r == Apply(dev, c)
<1>1. r.planes = [at \in {0, 1} |-> r.planes[at]] /\ \A at \in {0, 1} : IsFrame(r.planes[at])
  <2>1. CASE c.op \in OnFrame
    <3> DEFINE f == FrameAfter(dev.planes[c.at], dev, c)
    <3>1. c.at \in {0, 1} BY <2>1 DEF CommandOK
    <3>2. IsFrame(dev.planes[c.at]) BY <3>1 DEF IsDevice
    <3>3. IsFrame(f) BY <2>1, <3>2, FrameAfterIsFrame
    <3>4. r.planes = [dev.planes EXCEPT ![c.at] = f] BY <2>1 DEF Apply
    <3> HIDE DEF f, r
    <3> QED BY <3>1, <3>3, <3>4 DEF IsDevice
  <2>2. CASE c.op \notin OnFrame
    <3>1. r.planes = dev.planes BY <2>2 DEF Apply
    <3> HIDE DEF r
    <3> QED BY <3>1 DEF IsDevice
  <2> QED BY <2>1, <2>2
<1>2. IsList(r.data)
  <2>1. CASE c.op = "write_data"
    <3>1. r.data = DataAfter(dev.data, c) BY <2>1 DEF Apply
    <3>2. c.slot \in Nat \ {0} BY <2>1 DEF CommandOK
    <3> HIDE DEF r
    <3>3. IsList(DataAfter(dev.data, c)) BY <3>2, DataAfterIs DEF IsDevice
    <3> QED BY <3>1, <3>3
  <2>2. CASE c.op # "write_data" BY <2>2 DEF Apply, IsDevice
  <2> QED BY <2>1, <2>2
<1>3. r.params = [n \in 1 .. RingSize |-> r.params[n]] BY DEF Apply, IsDevice
<1>4. r.ok \in BOOLEAN BY DEF Apply, IsDevice
<1>5. r = [planes |-> r.planes, data |-> r.data, params |-> r.params, ok |-> r.ok] BY DEF Apply
<1> HIDE DEF r
<1>6. IsDevice(r) BY <1>1, <1>2, <1>3, <1>4, <1>5 DEF IsDevice
<1> QED BY <1>6 DEF r

\* Commands put together, and those for fewer places.
LEMMA CommandsConcat ==
  ASSUME NEW ats, NEW s, NEW t, Commands(s, ats), Commands(t, ats)
  PROVE  Commands(s \o t, ats)
<1> DEFINE u == s \o t
<1>1. IsList(u) /\ Joins(s, t, u) BY ListConcat DEF Commands
<1> HIDE DEF u
<1>2. ASSUME NEW n \in 1 .. Len(u) PROVE CommandOK(u[n], ats)
  <2>1. CASE n <= Len(s)
    <3>1. n \in 1 .. Len(s) /\ u[n] = s[n] BY <1>1, <2>1 DEF Joins
    <3> QED BY <3>1 DEF Commands
  <2>2. CASE ~(n <= Len(s))
    <3>1. n - Len(s) \in 1 .. Len(t) /\ Len(s) + (n - Len(s)) = n BY <1>1, <2>2 DEF Joins
    <3>2. u[Len(s) + (n - Len(s))] = t[n - Len(s)] BY <1>1, <3>1 DEF Joins
    <3>3. u[n] = t[n - Len(s)] BY <3>1, <3>2
    <3> QED BY <3>1, <3>3 DEF Commands
  <2> QED BY <2>1, <2>2
<1>3. Commands(u, ats) BY <1>1, <1>2 DEF Commands
<1> QED BY <1>3 DEF u

\* No commands, and one.
LEMMA CommandsShort ==
  ASSUME NEW ats, NEW c
  PROVE  Commands(<<>>, ats) /\ (CommandOK(c, ats) => Commands(<<c>>, ats))
<1> DEFINE s == <<>>
           t == <<c>>
<1>1. IsList(s) /\ Len(s) = 0 /\ IsList(t) /\ Len(t) = 1 /\ t[1] = c BY ShortLists
<1> HIDE DEF s, t
<1>2. Commands(s, ats) BY <1>1 DEF Commands
<1>3. CommandOK(c, ats) => Commands(t, ats) BY <1>1 DEF Commands
<1> QED BY <1>2, <1>3 DEF s, t

\* Commands for some places are commands for more places.
LEMMA CommandsFor ==
  ASSUME NEW ats, NEW bts, ats \subseteq bts, NEW s, Commands(s, ats)
  PROVE  Commands(s, bts)
BY DEF Commands, CommandOK

\* After the first command, the others are left.
LEMMA CommandsTail ==
  ASSUME NEW ats, NEW s, Commands(s, ats), s # <<>>
  PROVE  /\ CommandOK(Head(s), ats) /\ Commands(Tail(s), ats)
         /\ s = <<Head(s)>> \o Tail(s)
<1>1. PICK X : s \in Seq(X) BY DEF Commands, IsList
<1>2. /\ Len(s) \in Nat /\ Len(s) # 0 /\ Tail(s) \in Seq(X) /\ Len(Tail(s)) = Len(s) - 1 /\ Head(s) = s[1]
      /\ \A n \in 1 .. Len(s) - 1 : Tail(s)[n] = s[n + 1]
  BY <1>1
<1> DEFINE h == <<Head(s)>>
           t == Tail(s)
           u == h \o t
<1>3. IsList(h) /\ Len(h) = 1 /\ h[1] = s[1] BY <1>2, ShortLists
<1>4. IsList(t) BY <1>2 DEF IsList
<1>5. CommandOK(Head(s), ats) /\ \A n \in 1 .. Len(t) : CommandOK(t[n], ats) BY <1>2 DEF Commands
<1>6. Len(t) = Len(s) - 1 /\ \A n \in 1 .. Len(t) : t[n] = s[n + 1] BY <1>2
<1> HIDE DEF h, t
<1>7. IsList(u) /\ Joins(h, t, u) BY <1>3, <1>4, ListConcat
<1> HIDE DEF u
<1>8. Len(u) = Len(s) BY <1>2, <1>3, <1>6, <1>7 DEF Joins
<1>9. ASSUME NEW n \in 1 .. Len(u) PROVE u[n] = s[n]
  <2>1. CASE n = 1 BY <1>3, <1>7, <2>1 DEF Joins
  <2>2. CASE n # 1
    <3>1. n - 1 \in 1 .. Len(t) /\ 1 + (n - 1) = n BY <1>2, <1>6, <1>8, <2>2
    <3>2. u[Len(h) + (n - 1)] = t[n - 1] BY <1>7, <3>1 DEF Joins
    <3>3. t[n - 1] = s[(n - 1) + 1] BY <1>6, <3>1
    <3>4. (n - 1) + 1 = n BY <1>2, <1>8
    <3> QED BY <1>3, <3>1, <3>2, <3>3, <3>4
  <2> QED BY <2>1, <2>2
<1>10. IsList(s) BY DEF Commands
<1>11. s = u BY <1>7, <1>8, <1>9, <1>10, SameList
<1>12. Commands(t, ats) BY <1>4, <1>5 DEF Commands
<1> QED BY <1>5, <1>11, <1>12 DEF u, h, t

\* The device stays a device.
LEMMA RunIsDevice ==
  ASSUME NEW dev, IsDevice(dev), NEW s, Commands(s, {0, 1})
  PROVE  IsDevice(Run(dev, s))
<1>1. IsList(s) /\ Len(s) \in Nat BY DEF Commands, IsList
<1>2. PICK f : /\ f[0] = dev
               /\ \A n \in 1 .. Len(s) : f[n] = Apply(f[n - 1], s[n])
               /\ Run(dev, s) = f[Len(s)]
  BY <1>1, RunFold
<1> DEFINE S == {n \in Nat : n <= Len(s) => IsDevice(f[n])}
<1>3. 0 \in S BY <1>2
<1>4. ASSUME NEW n \in Nat, n \in S PROVE n + 1 \in S
  <2>1. SUFFICES ASSUME n + 1 <= Len(s) PROVE IsDevice(f[n + 1]) OBVIOUS
  <2>2. n + 1 \in 1 .. Len(s) /\ (n + 1) - 1 = n BY <1>1, <2>1
  <2>3. f[n + 1] = Apply(f[n], s[n + 1]) BY <1>2, <2>2
  <2>4. IsDevice(f[n]) BY <1>1, <1>4, <2>1
  <2>5. CommandOK(s[n + 1], {0, 1}) BY <2>2 DEF Commands
  <2> QED BY <2>3, <2>4, <2>5, ApplyIsDevice
<1>5. Len(s) \in S
  <2> HIDE DEF S
  <2> QED BY <1>1, <1>3, <1>4, Induction
<1> QED BY <1>1, <1>2, <1>5

\* A dispatch that has read something else is not undone.
LEMMA RunOk ==
  ASSUME NEW dev, IsDevice(dev), NEW s, Commands(s, {0, 1}), Run(dev, s).ok
  PROVE  dev.ok
<1>1. IsList(s) /\ Len(s) \in Nat BY DEF Commands, IsList
<1>2. PICK f : /\ f[0] = dev
               /\ \A n \in 1 .. Len(s) : f[n] = Apply(f[n - 1], s[n])
               /\ Run(dev, s) = f[Len(s)]
  BY <1>1, RunFold
<1> DEFINE S == {n \in Nat : n <= Len(s) => (f[n].ok => dev.ok)}
<1>3. 0 \in S BY <1>2
<1>4. ASSUME NEW n \in Nat, n \in S PROVE n + 1 \in S
  <2>1. SUFFICES ASSUME n + 1 <= Len(s) PROVE f[n + 1].ok => dev.ok OBVIOUS
  <2>2. n + 1 \in 1 .. Len(s) /\ (n + 1) - 1 = n BY <1>1, <2>1
  <2>3. f[n + 1] = Apply(f[n], s[n + 1]) BY <1>2, <2>2
  <2>4. f[n].ok => dev.ok BY <1>1, <1>4, <2>1
  <2>5. Apply(f[n], s[n + 1]).ok => f[n].ok BY DEF Apply
  <2> QED BY <2>3, <2>4, <2>5
<1>5. Len(s) \in S
  <2> HIDE DEF S
  <2> QED BY <1>1, <1>3, <1>4, Induction
<1> QED BY <1>1, <1>2, <1>5

-----------------------------------------------------------------------------
(* Commands for other places                                               *)

\* The device with one frame replaced.
WithFrame(dev, at, x) ==
  [planes |-> [dev.planes EXCEPT ![at] = x], data |-> dev.data, params |-> dev.params, ok |-> dev.ok]

\* A command for another place neither reads nor writes the frame.
LEMMA ApplyElsewhere ==
  ASSUME NEW dev, IsDevice(dev), NEW c, CommandOK(c, {0, 1}),
         NEW at, at \in {0, 1}, c.op \in OnFrame => c.at # at, NEW x
  PROVE  /\ Apply(WithFrame(dev, at, x), c) = WithFrame(Apply(dev, c), at, x)
         /\ Apply(dev, c).planes[at] = dev.planes[at]
<1> DEFINE d == WithFrame(dev, at, x)
<1>1. d.data = dev.data /\ d.params = dev.params /\ d.ok = dev.ok /\ d.planes = [dev.planes EXCEPT ![at] = x]
  BY DEF WithFrame
<1> HIDE DEF d
<1>2. CASE c.op \in OnFrame
  <2> DEFINE b == dev.planes[c.at]
             y == FrameAfter(b, dev, c)
             z == FrameAfter(d.planes[c.at], d, c)
             p == [dev.planes EXCEPT ![c.at] = y]
  <2>1. c.at \in {0, 1} /\ c.at # at BY <1>2 DEF CommandOK
  <2>2. d.planes[c.at] = b BY <1>1, <2>1 DEF IsDevice
  <2>3. z = y BY <1>1, <2>2 DEF FrameAfter
  <2>4. Apply(dev, c) = [planes |-> p, data |-> dev.data, params |-> dev.params,
                         ok |-> dev.ok /\ (c.op = "dispatch" => RowsFor(dev.data, c) = c.rows)]
    BY <1>2 DEF Apply, OnFrame
  <2>5. Apply(d, c) = [planes |-> [d.planes EXCEPT ![c.at] = z], data |-> d.data, params |-> d.params,
                       ok |-> d.ok /\ (c.op = "dispatch" => RowsFor(d.data, c) = c.rows)]
    BY <1>2 DEF Apply, OnFrame
  <2> HIDE DEF y, z
  <2>6. [d.planes EXCEPT ![c.at] = z] = [p EXCEPT ![at] = x] BY <1>1, <2>1, <2>3 DEF IsDevice
  <2>7. p[at] = dev.planes[at] BY <2>1 DEF IsDevice
  <2> HIDE DEF p, b
  <2>8. Apply(d, c) = WithFrame(Apply(dev, c), at, x) BY <1>1, <2>4, <2>5, <2>6 DEF WithFrame
  <2> QED BY <2>4, <2>7, <2>8 DEF d
<1>3. CASE c.op \notin OnFrame
  <2> DEFINE data_ == IF c.op = "write_data" THEN DataAfter(dev.data, c) ELSE dev.data
             params_ == IF c.op = "write_params" THEN [dev.params EXCEPT ![c.slot] = c.values] ELSE dev.params
  <2>1. Apply(dev, c) = [planes |-> dev.planes, data |-> data_, params |-> params_,
                         ok |-> dev.ok /\ (c.op = "dispatch" => RowsFor(dev.data, c) = c.rows)]
    BY <1>3 DEF Apply
  <2>2. Apply(d, c) = [planes |-> d.planes, data |-> data_, params |-> params_,
                       ok |-> dev.ok /\ (c.op = "dispatch" => RowsFor(dev.data, c) = c.rows)]
    BY <1>1, <1>3 DEF Apply
  <2> HIDE DEF data_, params_
  <2>3. Apply(d, c) = WithFrame(Apply(dev, c), at, x) BY <1>1, <2>1, <2>2 DEF WithFrame
  <2> QED BY <2>1, <2>3 DEF d
<1> QED BY <1>2, <1>3

\* f are the device's states, one after each command.
RunsAs(dev, s, f) ==
  /\ f[0] = dev
  /\ \A n \in 1 .. Len(s) : f[n] = Apply(f[n - 1], s[n])
  /\ Run(dev, s) = f[Len(s)]

\* There are such states.
LEMMA RunRunsAs == ASSUME NEW dev, NEW s, IsList(s) PROVE \E f : RunsAs(dev, s, f)
BY RunFold DEF RunsAs

\* Places of frames, and a place that is none of them.
Places(ats) == ats \subseteq {0, 1}
Elsewhere(at, ats) == at \in {0, 1} /\ at \notin ats /\ ats \subseteq {0, 1}
LeavesFrame(dev, s, at, x) ==
  /\ Run(WithFrame(dev, at, x), s) = WithFrame(Run(dev, s), at, x)
  /\ Run(dev, s).planes[at] = dev.planes[at]

\* The same for a list of commands.
LEMMA RunElsewhere ==
  ASSUME NEW dev, IsDevice(dev), NEW ats, NEW s, Commands(s, ats), NEW at, Elsewhere(at, ats), NEW x
  PROVE  LeavesFrame(dev, s, at, x)
<1> USE DEF Elsewhere
<1> DEFINE d == WithFrame(dev, at, x)
<1>1. IsList(s) /\ Len(s) \in Nat BY DEF Commands, IsList
<1> HIDE DEF d
<1>a. PICK f : RunsAs(dev, s, f) BY <1>1, RunRunsAs
<1>b. PICK g : RunsAs(d, s, g) BY <1>1, RunRunsAs
<1>2. /\ f[0] = dev
      /\ \A n \in 1 .. Len(s) : f[n] = Apply(f[n - 1], s[n])
      /\ Run(dev, s) = f[Len(s)]
  BY <1>a DEF RunsAs
<1>3. /\ g[0] = d
      /\ \A n \in 1 .. Len(s) : g[n] = Apply(g[n - 1], s[n])
      /\ Run(d, s) = g[Len(s)]
  BY <1>b DEF RunsAs
<1> DEFINE P(n) == /\ IsDevice(f[n]) /\ g[n] = WithFrame(f[n], at, x)
                   /\ f[n].planes[at] = dev.planes[at]
           S == {n \in Nat : n <= Len(s) => P(n)}
<1>4. 0 \in S BY <1>2, <1>3 DEF d
<1>5. ASSUME NEW n \in Nat, n \in S PROVE n + 1 \in S
  <2>1. SUFFICES ASSUME n + 1 <= Len(s) PROVE P(n + 1) OBVIOUS
  <2>2. n + 1 \in 1 .. Len(s) /\ (n + 1) - 1 = n BY <1>1, <2>1
  <2> DEFINE c == s[n + 1]
             a == f[n]
  <2>3. f[n + 1] = Apply(a, c) /\ g[n + 1] = Apply(g[n], c) BY <1>2, <1>3, <2>2
  <2>4. P(n) BY <1>1, <1>5, <2>1
  <2>5. CommandOK(c, ats) BY <2>2 DEF Commands
  <2>9. IsDevice(a) /\ g[n] = WithFrame(a, at, x) /\ a.planes[at] = dev.planes[at] BY <2>4
  <2> HIDE DEF c, a, P, S
  <2>6. CommandOK(c, {0, 1}) BY <2>5 DEF CommandOK
  <2>11. at \in {0, 1} /\ (c.op \in OnFrame => c.at # at) BY <2>5 DEF CommandOK
  <2>7. IsDevice(Apply(a, c)) BY <2>6, <2>9, ApplyIsDevice
  <2>8. /\ Apply(WithFrame(a, at, x), c) = WithFrame(Apply(a, c), at, x)
        /\ Apply(a, c).planes[at] = a.planes[at]
    BY <2>6, <2>9, <2>11, ApplyElsewhere
  <2>10. P(n + 1) BY <2>3, <2>7, <2>8, <2>9 DEF P, a
  <2> QED BY <2>10 DEF P
<1>6. Len(s) \in S
  <2> HIDE DEF S
  <2> HIDE DEF P
  <2>1. \A n \in Nat : n \in S => n + 1 \in S BY <1>5
  <2> QED BY <1>1, <1>4, <2>1, Induction
<1>7. P(Len(s)) BY <1>1, <1>6
<1> HIDE DEF S
<1>8. /\ Run(d, s) = WithFrame(Run(dev, s), at, x)
      /\ Run(dev, s).planes[at] = dev.planes[at]
  BY <1>2, <1>3, <1>7
<1> QED BY <1>8 DEF d, LeavesFrame

\* The frame itself is as it was.
LEMMA RunKeepsFrame ==
  ASSUME NEW dev, IsDevice(dev), NEW ats, NEW s, Commands(s, ats), NEW at, Elsewhere(at, ats)
  PROVE  Run(dev, s).planes[at] = dev.planes[at]
<1>1. LeavesFrame(dev, s, at, 0) BY RunElsewhere
<1> QED BY <1>1 DEF LeavesFrame

-----------------------------------------------------------------------------
(* What encode_effect has encoded after a step                             *)

IsEncoding(acc) ==
  /\ acc = [writes |-> acc.writes, commands |-> acc.commands, data_index |-> acc.data_index,
            ring_idx |-> acc.ring_idx, values |-> acc.values, pending_error |-> acc.pending_error]
  /\ IsList(acc.writes) /\ IsList(acc.commands) /\ acc.data_index \in Nat \ {0} /\ acc.ring_idx \in Nat \ {0}
  /\ acc.pending_error \in BOOLEAN

\* The command of a step that has one and no slot of its own.
SingleCommand(at, step) ==
  CASE step.op = "copy" -> CopyCommand(at, step.from, step.to)
    [] step.op = "filter" -> FilterCommand(at, step.entry, step.coeffs)
    [] step.op = "pass" -> Dispatch(at, step.entry, step.group, 1, 0, <<>>)

\* An element appended is a list put behind.
LEMMA AppendIsConcat == ASSUME NEW s, IsList(s), NEW x PROVE Append(s, x) = s \o <<x>>
<1>1. PICK X : s \in Seq(X) BY DEF IsList
<1> DEFINE Y == X \cup {x}
           t == <<x>>
           a == Append(s, x)
           u == s \o t
<1>2. s \in Seq(Y)
  <2>1. s = [n \in 1 .. Len(s) |-> s[n]] /\ Len(s) \in Nat /\ \A n \in 1 .. Len(s) : s[n] \in X BY <1>1
  <2> QED BY <2>1
<1>3. x \in Y OBVIOUS
<1> HIDE DEF Y
<1>4. a \in Seq(Y) /\ Len(a) = Len(s) + 1 /\ a[Len(s) + 1] = x /\ \A n \in 1 .. Len(s) : a[n] = s[n]
  BY <1>2, <1>3
<1>5. Len(s) \in Nat BY <1>2
<1>6. IsList(t) /\ Len(t) = 1 /\ t[1] = x BY ShortLists
<1> HIDE DEF t, a
<1>7. IsList(u) /\ Joins(s, t, u) BY <1>6, ListConcat
<1> HIDE DEF u
<1>8. IsList(a) BY <1>4 DEF IsList
<1>9. Len(u) = Len(a) BY <1>4, <1>6, <1>7 DEF Joins
<1>10. ASSUME NEW n \in 1 .. Len(a) PROVE a[n] = u[n]
  <2>1. CASE n \in 1 .. Len(s) BY <1>4, <1>7, <2>1 DEF Joins
  <2>2. CASE n = Len(s) + 1
    <3>1. 1 \in 1 .. Len(t) BY <1>6
    <3>2. u[Len(s) + 1] = t[1] BY <1>7, <3>1 DEF Joins
    <3> QED BY <1>4, <1>6, <2>2, <3>2
  <2> QED BY <1>4, <1>5, <2>1, <2>2
<1>11. a = u BY <1>7, <1>8, <1>9, <1>10, SameList
<1> QED BY <1>11 DEF a, u, t

\* A list with an element more is a list.
LEMMA ListAppend ==
  ASSUME NEW s, IsList(s), NEW x
  PROVE  LET a == Append(s, x)
         IN /\ IsList(a) /\ Len(s) \in Nat /\ Len(a) = Len(s) + 1
            /\ a[Len(s) + 1] = x /\ \A n \in 1 .. Len(s) : a[n] = s[n]
<1>1. PICK X : s \in Seq(X) BY DEF IsList
<1> DEFINE Y == X \cup {x}
           a == Append(s, x)
<1>2. s \in Seq(Y)
  <2>1. s = [n \in 1 .. Len(s) |-> s[n]] /\ Len(s) \in Nat /\ \A n \in 1 .. Len(s) : s[n] \in X BY <1>1
  <2> QED BY <2>1
<1>3. x \in Y OBVIOUS
<1> HIDE DEF Y
<1>4. a \in Seq(Y) /\ Len(a) = Len(s) + 1 /\ a[Len(s) + 1] = x /\ \A n \in 1 .. Len(s) : a[n] = s[n]
  BY <1>2, <1>3
<1>5. Len(s) \in Nat BY <1>2
<1>6. IsList(a) BY <1>4 DEF IsList
<1> QED BY <1>4, <1>5, <1>6

\* A step with one command.
LEMMA EncodeSingle ==
  ASSUME NEW acc, IsEncoding(acc), NEW at, NEW step, step.op \in {"copy", "filter", "pass"}, NEW oversized
  PROVE  LET r == EncodeStep(acc, at, step, oversized)
         IN /\ IsEncoding(r) /\ r.writes = acc.writes
            /\ r.commands = Append(acc.commands, SingleCommand(at, step))
            /\ r.data_index = acc.data_index /\ r.ring_idx = acc.ring_idx
            /\ r.values = acc.values /\ r.pending_error = acc.pending_error
<1> DEFINE c == SingleCommand(at, step)
           cs == Append(acc.commands, c)
           r == EncodeStep(acc, at, step, oversized)
<1>1. r = [acc EXCEPT !.commands = cs]
  <2>1. CASE step.op = "copy" BY <2>1 DEF EncodeStep, SingleCommand
  <2>2. CASE step.op = "filter" BY <2>2 DEF EncodeStep, SingleCommand
  <2>3. CASE step.op = "pass" BY <2>3 DEF EncodeStep, SingleCommand
  <2> QED BY <2>1, <2>2, <2>3
<1>2. IsList(cs) BY ListAppend DEF IsEncoding
<1> HIDE DEF cs, r
<1>3. r = [writes |-> acc.writes, commands |-> cs, data_index |-> acc.data_index,
           ring_idx |-> acc.ring_idx, values |-> acc.values, pending_error |-> acc.pending_error]
  BY <1>1 DEF IsEncoding
<1>4. IsEncoding(r) BY <1>2, <1>3 DEF IsEncoding
<1> QED BY <1>3, <1>4 DEF cs, r

\* What is encoded after a step that sets uniforms.
WithEncoded(acc, at, step, r) ==
  LET values == Changed(acc.values, step.set)
  IN /\ IsEncoding(r) /\ r.writes = Append(acc.writes, WriteParams(acc.ring_idx, values))
     /\ r.commands = Append(acc.commands, Dispatch(at, step.entry, step.group, acc.ring_idx, 0, <<>>))
     /\ r.data_index = acc.data_index /\ r.ring_idx = acc.ring_idx + 1
     /\ r.values = values /\ r.pending_error = acc.pending_error

\* A step that sets uniforms.
LEMMA EncodeWith ==
  ASSUME NEW acc, IsEncoding(acc), NEW at, NEW step, step.op = "pass_with", NEW oversized
  PROVE  WithEncoded(acc, at, step, EncodeStep(acc, at, step, oversized))
<1> DEFINE c == Dispatch(at, step.entry, step.group, acc.ring_idx, 0, <<>>)
           cs == Append(acc.commands, c)
           values == Changed(acc.values, step.set)
           ws == Append(acc.writes, WriteParams(acc.ring_idx, values))
           u == EncodeUniform(acc, step.set)
           r == EncodeStep(acc, at, step, oversized)
<1>1. u = [acc EXCEPT !.ring_idx = @ + 1, !.values = values, !.writes = ws] BY DEF EncodeUniform, Changed
<1>2. IsList(cs) /\ IsList(ws) BY ListAppend DEF IsEncoding
<1> HIDE DEF values, ws
<1>3. u = [writes |-> ws, commands |-> acc.commands, data_index |-> acc.data_index,
           ring_idx |-> acc.ring_idx + 1, values |-> values, pending_error |-> acc.pending_error]
  BY <1>1 DEF IsEncoding
<1>4. r = [u EXCEPT !.commands = Append(@, c)] BY DEF EncodeStep
<1> HIDE DEF u, c, r
<1>5. r = [writes |-> ws, commands |-> cs, data_index |-> acc.data_index,
           ring_idx |-> acc.ring_idx + 1, values |-> values, pending_error |-> acc.pending_error]
  BY <1>3, <1>4
<1> HIDE DEF cs
<1>6. IsEncoding(r) BY <1>2, <1>5 DEF IsEncoding
<1> QED BY <1>5, <1>6 DEF cs, r, c, ws, values, WithEncoded

\* The dispatches of a step on the rows in a slot.
DataCommands(at, step, slot) ==
  [n \in DOMAIN step.entries |-> Dispatch(at, step.entries[n], step.group, 1, slot, step.rows)]

\* They are one or two.
LEMMA DataCommandsAre ==
  ASSUME NEW at, NEW step, NEW slot, StepOK(step), step.op = "data"
  PROVE  LET D(n) == Dispatch(at, step.entries[n], step.group, 1, slot, step.rows)
             cs == DataCommands(at, step, slot)
         IN /\ Len(step.entries) = 1 => cs = <<D(1)>> /\ step.entries[1] \in Entries
            /\ Len(step.entries) # 1 => cs = <<D(1), D(2)>> /\ step.entries[1] \in Entries
                                        /\ step.entries[2] \in Entries
<1> DEFINE D(n) == Dispatch(at, step.entries[n], step.group, 1, slot, step.rows)
           cs == DataCommands(at, step, slot)
<1>1. PICK e \in Entries, f \in Entries : step.entries \in {<<e>>, <<e, f>>} BY DEF StepOK
<1>2. CASE step.entries = <<e>>
  <2>1. Len(step.entries) = 1 /\ DOMAIN step.entries = {1} /\ step.entries[1] = e BY <1>2
  <2>2. cs = [n \in {1} |-> D(n)] BY <2>1 DEF DataCommands
  <2> HIDE DEF D, cs
  <2>3. cs = <<D(1)>> BY <2>2
  <2> QED BY <2>1, <2>3 DEF D, cs
<1>3. CASE step.entries = <<e, f>>
  <2>1. /\ Len(step.entries) = 2 /\ DOMAIN step.entries = {1, 2}
        /\ step.entries[1] = e /\ step.entries[2] = f
    BY <1>3
  <2>2. cs = [n \in {1, 2} |-> D(n)] BY <2>1 DEF DataCommands
  <2> HIDE DEF D, cs
  <2>3. cs = <<D(1), D(2)>> BY <2>2
  <2> QED BY <2>1, <2>3 DEF D, cs
<1> QED BY <1>1, <1>2, <1>3

\* What is encoded after a step on rows of controls: nothing new, an error, or a
\* slot and its dispatches.
RowsEncoded(acc, at, step, r) ==
  /\ IsEncoding(r) /\ r.ring_idx = acc.ring_idx /\ r.values = acc.values
  /\ \/ r = acc /\ (step.empty \/ acc.pending_error)
     \/ /\ r.pending_error /\ r.writes = acc.writes /\ r.commands = acc.commands
        /\ r.data_index = acc.data_index + 1
     \/ /\ ~step.empty /\ ~acc.pending_error /\ ~r.pending_error
        /\ r.writes = Append(acc.writes, WriteData(acc.data_index, step.rows))
        /\ r.commands = acc.commands \o DataCommands(at, step, acc.data_index)
        /\ r.data_index = acc.data_index + 1

\* A step on rows of controls.
LEMMA EncodeRows ==
  ASSUME NEW acc, IsEncoding(acc), NEW at, NEW step, StepOK(step), step.op = "data", NEW oversized
  PROVE  RowsEncoded(acc, at, step, EncodeStep(acc, at, step, oversized))
<1> DEFINE r == EncodeStep(acc, at, step, oversized)
           cs == DataCommands(at, step, acc.data_index)
           all == acc.commands \o cs
           ws == Append(acc.writes, WriteData(acc.data_index, step.rows))
           next == acc.data_index + 1
           p == [acc EXCEPT !.data_index = @ + 1]
<1>1. r = EncodeData(acc, at, step, oversized) BY DEF EncodeStep
<1>2. p = [writes |-> acc.writes, commands |-> acc.commands, data_index |-> next,
           ring_idx |-> acc.ring_idx, values |-> acc.values, pending_error |-> acc.pending_error]
  BY DEF IsEncoding
<1>3. CASE step.empty \/ acc.pending_error
  <2>1. r = acc BY <1>1, <1>3 DEF EncodeData
  <2> HIDE DEF r
  <2> QED BY <1>3, <2>1 DEF r, RowsEncoded
<1>4. CASE ~(step.empty \/ acc.pending_error) /\ step.rows[1] \in oversized
  <2>1. r = [p EXCEPT !.pending_error = TRUE] BY <1>1, <1>4 DEF EncodeData
  <2> HIDE DEF r, p
  <2>2. r = [writes |-> acc.writes, commands |-> acc.commands, data_index |-> next,
             ring_idx |-> acc.ring_idx, values |-> acc.values, pending_error |-> TRUE]
    BY <1>2, <2>1
  <2>3. IsEncoding(r) BY <2>2 DEF IsEncoding
  <2> QED BY <2>2, <2>3 DEF r, RowsEncoded
<1>5. CASE ~(step.empty \/ acc.pending_error) /\ step.rows[1] \notin oversized
  <2>1. r = [p EXCEPT !.writes = Append(@, WriteData(acc.data_index, step.rows)), !.commands = @ \o cs]
    BY <1>1, <1>5 DEF EncodeData, DataCommands
  <2>2. IsList(cs)
    <3>1. cs = <<Dispatch(at, step.entries[1], step.group, 1, acc.data_index, step.rows)>>
          \/ cs = <<Dispatch(at, step.entries[1], step.group, 1, acc.data_index, step.rows),
                    Dispatch(at, step.entries[2], step.group, 1, acc.data_index, step.rows)>>
      BY DataCommandsAre
    <3> HIDE DEF cs
    <3> QED BY <3>1, ShortLists
  <2> HIDE DEF cs, r, p
  <2>3. r = [writes |-> ws, commands |-> all, data_index |-> next,
             ring_idx |-> acc.ring_idx, values |-> acc.values, pending_error |-> acc.pending_error]
    BY <1>2, <2>1
  <2>4. IsList(all) /\ IsList(ws) BY <2>2, ListConcat, ListAppend DEF IsEncoding
  <2> HIDE DEF all, ws
  <2>5. IsEncoding(r) BY <2>3, <2>4 DEF IsEncoding
  <2>6. acc.pending_error = FALSE BY <1>5 DEF IsEncoding
  <2>7. /\ r.writes = ws /\ r.commands = all /\ r.data_index = next
        /\ r.ring_idx = acc.ring_idx /\ r.values = acc.values /\ r.pending_error = FALSE
    BY <2>3, <2>6
  <2>8. ~step.empty /\ ~acc.pending_error BY <1>5
  <2> QED BY <2>5, <2>7, <2>8 DEF r, cs, all, ws, RowsEncoded
<1> QED BY <1>3, <1>4, <1>5

-----------------------------------------------------------------------------
(* What the commands of one step do                                        *)

\* The device still holds what was written.
Holds(dev, w) ==
  /\ w.op = "write_data" => w.slot \in DOMAIN dev.data /\ dev.data[w.slot] = w.rows
  /\ w.op = "write_params" /\ w.slot \in 1 .. RingSize => dev.params[w.slot] = w.values

Kept(dev, ws) == \A n \in 1 .. Len(ws) : Holds(dev, ws[n])

\* A shader looks at its name and its bind group.
LEMMA ShaderOfDispatch ==
  ASSUME NEW c, NEW d, c.entry = d.entry, c.group = d.group, NEW u, NEW rows, NEW b
  PROVE  Shader(c, u, rows, b) = Shader(d, u, rows, b)
BY DEF Shader

\* A command on the frame of its place.
LEMMA ApplyHere ==
  ASSUME NEW dev, IsDevice(dev), NEW at, at \in {0, 1}, NEW b, NEW c, c.at = at,
         c.op \in OnFrame, c.op = "dispatch" => RowsFor(dev.data, c) = c.rows
  PROVE  Apply(WithFrame(dev, at, b), c) = WithFrame(dev, at, FrameAfter(b, dev, c))
<1> DEFINE d == WithFrame(dev, at, b)
           y == FrameAfter(b, dev, c)
           z == FrameAfter(d.planes[c.at], d, c)
<1>1. d.data = dev.data /\ d.params = dev.params /\ d.ok = dev.ok /\ d.planes = [dev.planes EXCEPT ![at] = b]
  BY DEF WithFrame
<1> HIDE DEF d
<1>2. d.planes[c.at] = b BY <1>1 DEF IsDevice
<1>3. z = y BY <1>1, <1>2 DEF FrameAfter
<1>4. Apply(d, c) = [planes |-> [d.planes EXCEPT ![c.at] = z], data |-> d.data, params |-> d.params,
                     ok |-> d.ok /\ (c.op = "dispatch" => RowsFor(d.data, c) = c.rows)]
  BY DEF Apply, OnFrame
<1> HIDE DEF y, z
<1>5. (d.ok /\ (c.op = "dispatch" => RowsFor(d.data, c) = c.rows)) = dev.ok BY <1>1 DEF IsDevice
<1>6. [d.planes EXCEPT ![c.at] = z] = [dev.planes EXCEPT ![at] = y] BY <1>1, <1>3 DEF IsDevice
<1>7. Apply(d, c) = WithFrame(dev, at, y) BY <1>1, <1>4, <1>5, <1>6 DEF WithFrame
<1> QED BY <1>7 DEF d, y

\* What a dispatch does to the frame of its place, if its slots hold u and rows.
LEMMA DispatchHere ==
  ASSUME NEW dev, IsDevice(dev), NEW at, at \in {0, 1}, NEW b, NEW entry, NEW group, NEW uniform, NEW slot,
         NEW rows, NEW u, uniform \in 1 .. RingSize, dev.params[uniform] = u,
         slot \in DOMAIN dev.data => dev.data[slot] = rows, slot \notin DOMAIN dev.data => rows = <<>>
  PROVE  Apply(WithFrame(dev, at, b), Dispatch(at, entry, group, uniform, slot, rows))
           = WithFrame(dev, at, ShaderOf(entry, group, u, rows, b))
<1> DEFINE c == Dispatch(at, entry, group, uniform, slot, rows)
<1>1. /\ c.op = "dispatch" /\ c.at = at /\ c.entry = entry /\ c.group = group /\ c.uniform = uniform
      /\ c.slot = slot /\ c.rows = rows
  BY DEF Dispatch
<1> HIDE DEF c
<1>2. RowsFor(dev.data, c) = rows BY <1>1 DEF RowsFor
<1>3. UniformsFor(dev.params, c) = u BY <1>1 DEF UniformsFor, IsDevice
<1>4. FrameAfter(b, dev, c) = Shader(c, u, rows, b) BY <1>1, <1>2, <1>3 DEF FrameAfter
<1>5. Shader(c, u, rows, b) = ShaderOf(entry, group, u, rows, b) BY <1>1, ShaderOfDispatch DEF ShaderOf
<1>6. Apply(WithFrame(dev, at, b), c) = WithFrame(dev, at, FrameAfter(b, dev, c))
  BY <1>1, <1>2, ApplyHere DEF OnFrame
<1> QED BY <1>4, <1>5, <1>6 DEF c

\* The writes a step has added, and the slots they take.
Takes(acc, r, nw) ==
  \/ nw = <<>> /\ r.ring_idx = acc.ring_idx /\ r.data_index = acc.data_index
  \/ nw = <<>> /\ r.ring_idx = acc.ring_idx /\ r.pending_error /\ r.data_index = acc.data_index + 1
  \/ /\ \E rows : nw = <<WriteData(acc.data_index, rows)>>
     /\ r.data_index = acc.data_index + 1 /\ r.ring_idx = acc.ring_idx
  \/ /\ \E values : nw = <<WriteParams(acc.ring_idx, values)>>
     /\ r.data_index = acc.data_index /\ r.ring_idx = acc.ring_idx + 1

\* On a device that holds what the step has written, its commands do to the
\* frame what the step means.
Performs(base, at, acc, step, r, nw, nc) ==
  \A dev, b : IsDevice(dev) /\ Kept(dev, nw) /\ dev.params[1] = base /\ ~r.pending_error =>
    Run(WithFrame(dev, at, b), nc)
      = WithFrame(dev, at, BuffersAfter(base, [b |-> b, values |-> acc.values, ring |-> acc.ring_idx], step))

\* r is what is encoded after the step: the writes nw and the commands nc are new.
StepAdds(base, at, acc, step, r, nw, nc) ==
  /\ IsEncoding(r) /\ (acc.pending_error => r.pending_error)
  /\ r.writes = acc.writes \o nw /\ r.commands = acc.commands \o nc
  /\ Commands(nw, {}) /\ Takes(acc, r, nw)
  /\ r.values = IF step.op = "pass_with" THEN Changed(acc.values, step.set) ELSE acc.values
  /\ r.ring_idx = IF step.op = "pass_with" THEN acc.ring_idx + 1 ELSE acc.ring_idx
  /\ (step.op = "pass_with" => acc.ring_idx <= RingSize) =>
       Commands(nc, {at}) /\ Performs(base, at, acc, step, r, nw, nc)

\* A list is itself with nothing behind it.
LEMMA ConcatNone == ASSUME NEW s, IsList(s) PROVE s = s \o <<>>
<1> DEFINE t == <<>>
           u == s \o t
<1>1. IsList(t) /\ Len(t) = 0 BY ShortLists
<1> HIDE DEF t
<1>2. IsList(u) /\ Joins(s, t, u) BY <1>1, ListConcat
<1> HIDE DEF u
<1>3. Len(s) = Len(u) /\ \A n \in 1 .. Len(s) : s[n] = u[n] BY <1>1, <1>2 DEF Joins
<1>4. s = u BY <1>2, <1>3, SameList
<1> QED BY <1>4 DEF u, t

\* A copy, a filter or a pass on the base uniforms.
LEMMA SingleAdds ==
  ASSUME NEW base, NEW at, at \in {0, 1}, NEW acc, IsEncoding(acc), NEW step, StepOK(step),
         step.op \in {"copy", "filter", "pass"}, NEW oversized
  PROVE  \E nw, nc : StepAdds(base, at, acc, step, EncodeStep(acc, at, step, oversized), nw, nc)
<1> DEFINE r == EncodeStep(acc, at, step, oversized)
           c == SingleCommand(at, step)
           nw == <<>>
           nc == <<c>>
           m(b) == [b |-> b, values |-> acc.values, ring |-> acc.ring_idx]
<1>1. /\ IsEncoding(r) /\ r.writes = acc.writes /\ r.commands = Append(acc.commands, c)
      /\ r.data_index = acc.data_index /\ r.ring_idx = acc.ring_idx
      /\ r.values = acc.values /\ r.pending_error = acc.pending_error
  BY EncodeSingle
<1> HIDE DEF r
<1>2. c.op = (IF step.op = "pass" THEN "dispatch" ELSE step.op) /\ c.at = at
  BY DEF SingleCommand, CopyCommand, FilterCommand, Dispatch
<1>3. CommandOK(c, {at})
  <2>1. step.op = "pass" => c.entry \in Entries /\ c.uniform = 1
    BY DEF SingleCommand, Dispatch, StepOK
  <2> QED BY <1>2, <2>1 DEF CommandOK, OnFrame, RingSize
<1>4. ASSUME NEW dev, IsDevice(dev), dev.params[1] = base, NEW b
      PROVE Apply(WithFrame(dev, at, b), c) = WithFrame(dev, at, BuffersAfter(base, m(b), step))
  <2>1. CASE step.op = "copy"
    <3>1. c = CopyCommand(at, step.from, step.to) BY <2>1 DEF SingleCommand
    <3>2. FrameAfter(b, dev, c) = [b EXCEPT ![step.to] = b[step.from]] BY <3>1 DEF FrameAfter, CopyCommand
    <3>3. BuffersAfter(base, m(b), step) = [b EXCEPT ![step.to] = b[step.from]] BY <2>1 DEF BuffersAfter
    <3> HIDE DEF m, c
    <3>4. Apply(WithFrame(dev, at, b), c) = WithFrame(dev, at, FrameAfter(b, dev, c))
      BY <1>2, <1>4, <2>1, ApplyHere DEF OnFrame
    <3> QED BY <3>2, <3>3, <3>4
  <2>2. CASE step.op = "filter"
    <3>1. c = FilterCommand(at, step.entry, step.coeffs) BY <2>2 DEF SingleCommand
    <3>2. c.op = "filter" /\ c.entry = step.entry /\ c.coeffs = step.coeffs BY <3>1 DEF FilterCommand
    <3>3. BuffersAfter(base, m(b), step) = FilterShader(step, b) BY <2>2 DEF BuffersAfter
    <3> HIDE DEF m, c
    <3>4. FrameAfter(b, dev, c) = FilterShader(c, b) BY <3>2 DEF FrameAfter
    <3>5. FilterShader(c, b) = FilterShader(step, b) BY <3>2 DEF FilterShader
    <3>6. Apply(WithFrame(dev, at, b), c) = WithFrame(dev, at, FrameAfter(b, dev, c))
      BY <1>2, <1>4, <2>2, ApplyHere DEF OnFrame
    <3> QED BY <3>3, <3>4, <3>5, <3>6
  <2>3. CASE step.op = "pass"
    <3>1. c = Dispatch(at, step.entry, step.group, 1, 0, <<>>) BY <2>3 DEF SingleCommand
    <3>2. BuffersAfter(base, m(b), step) = ShaderOf(step.entry, step.group, base, <<>>, b)
      BY <2>3 DEF BuffersAfter
    <3> HIDE DEF m, c
    <3>3. 0 \notin DOMAIN dev.data BY <1>4 DEF IsDevice, IsList
    <3>4. 1 \in 1 .. RingSize BY DEF RingSize
    <3>5. Apply(WithFrame(dev, at, b), Dispatch(at, step.entry, step.group, 1, 0, <<>>))
            = WithFrame(dev, at, ShaderOf(step.entry, step.group, base, <<>>, b))
      BY <1>4, <3>3, <3>4, DispatchHere
    <3> QED BY <3>1, <3>2, <3>5
  <2> QED BY <2>1, <2>2, <2>3
<1> HIDE DEF c
<1>5. Commands(nc, {at}) BY <1>3, CommandsShort
<1>6. Commands(nw, {}) BY CommandsShort
<1>7. r.commands = acc.commands \o nc BY <1>1, AppendIsConcat DEF IsEncoding
<1>8. r.writes = acc.writes \o nw BY <1>1, ConcatNone DEF IsEncoding
<1>9. ASSUME NEW dev PROVE Run(dev, nc) = Apply(dev, c) BY RunOne
<1>10. Takes(acc, r, nw) BY <1>1 DEF Takes
<1> HIDE DEF nc, nw
<1>11. Performs(base, at, acc, step, r, nw, nc) BY <1>4, <1>9 DEF Performs
<1>12. StepAdds(base, at, acc, step, r, nw, nc) BY <1>1, <1>5, <1>6, <1>7, <1>8, <1>10, <1>11 DEF StepAdds
<1> QED BY <1>12 DEF r

\* A pass on uniforms of its own.
LEMMA WithAdds ==
  ASSUME NEW base, NEW at, at \in {0, 1}, NEW acc, IsEncoding(acc), NEW step, StepOK(step),
         step.op = "pass_with", NEW oversized
  PROVE  \E nw, nc : StepAdds(base, at, acc, step, EncodeStep(acc, at, step, oversized), nw, nc)
<1> DEFINE r == EncodeStep(acc, at, step, oversized)
           values == Changed(acc.values, step.set)
           k == acc.ring_idx
           w == WriteParams(k, values)
           c == Dispatch(at, step.entry, step.group, k, 0, <<>>)
           nw == <<w>>
           nc == <<c>>
           m(b) == [b |-> b, values |-> acc.values, ring |-> acc.ring_idx]
<1>1. /\ IsEncoding(r) /\ r.writes = Append(acc.writes, w) /\ r.commands = Append(acc.commands, c)
      /\ r.data_index = acc.data_index /\ r.ring_idx = k + 1
      /\ r.values = values /\ r.pending_error = acc.pending_error
  <2>1. WithEncoded(acc, at, step, r)
    <3> HIDE DEF values, k, w, c, nw, nc, m
    <3> QED BY EncodeWith
  <2> QED BY <2>1 DEF WithEncoded
<1> HIDE DEF r, values
<1>2. CommandOK(w, {}) BY DEF CommandOK, WriteParams, OnFrame
<1>3. k <= RingSize => k \in 1 .. RingSize /\ k \in 0 .. RingSize BY DEF IsEncoding, RingSize
<1>4. k <= RingSize => CommandOK(c, {at}) BY <1>3 DEF CommandOK, Dispatch, OnFrame, StepOK
<1>5. ASSUME NEW dev, IsDevice(dev), k \in 1 .. RingSize, dev.params[k] = values, NEW b
      PROVE Apply(WithFrame(dev, at, b), c) = WithFrame(dev, at, BuffersAfter(base, m(b), step))
  <2>1. BuffersAfter(base, m(b), step) = ShaderOf(step.entry, step.group, values, <<>>, b)
    BY DEF BuffersAfter, values
  <2> HIDE DEF m
  <2>2. 0 \notin DOMAIN dev.data BY <1>5 DEF IsDevice, IsList
  <2>3. Apply(WithFrame(dev, at, b), Dispatch(at, step.entry, step.group, k, 0, <<>>))
          = WithFrame(dev, at, ShaderOf(step.entry, step.group, values, <<>>, b))
    BY <1>5, <2>2, DispatchHere
  <2> QED BY <2>1, <2>3
<1>6. w.op = "write_params" /\ w.slot = k /\ w.values = values BY DEF WriteParams
<1>7. nw = <<WriteParams(k, values)>> OBVIOUS
<1> HIDE DEF c, w
<1>8. k <= RingSize => Commands(nc, {at}) BY <1>4, CommandsShort
<1>9. Commands(nw, {}) BY <1>2, CommandsShort
<1>10. r.commands = acc.commands \o nc BY <1>1, AppendIsConcat DEF IsEncoding
<1>11. r.writes = acc.writes \o nw BY <1>1, AppendIsConcat DEF IsEncoding
<1>12. ASSUME NEW dev PROVE Run(dev, nc) = Apply(dev, c) BY RunOne
<1>13. ASSUME NEW dev, Kept(dev, nw), k \in 1 .. RingSize PROVE dev.params[k] = values
  <2>1. Len(nw) = 1 /\ nw[1] = w OBVIOUS
  <2> HIDE DEF nw
  <2>2. Holds(dev, w) BY <1>13, <2>1 DEF Kept
  <2> QED BY <1>6, <1>13, <2>2 DEF Holds
<1>14. Takes(acc, r, nw) BY <1>1, <1>7 DEF Takes
<1> HIDE DEF nc, nw, m
<1>15. k <= RingSize => Performs(base, at, acc, step, r, nw, nc)
  <2>1. ASSUME k <= RingSize, NEW dev, NEW b, IsDevice(dev), Kept(dev, nw)
        PROVE Run(WithFrame(dev, at, b), nc) = WithFrame(dev, at, BuffersAfter(base, m(b), step))
    <3>1. k \in 1 .. RingSize BY <1>3, <2>1
    <3>2. dev.params[k] = values BY <1>13, <2>1, <3>1
    <3> QED BY <1>5, <1>12, <2>1, <3>1, <3>2
  <2> QED BY <2>1 DEF Performs, m
<1>16. StepAdds(base, at, acc, step, r, nw, nc)
  BY <1>1, <1>8, <1>9, <1>10, <1>11, <1>14, <1>15 DEF StepAdds, values
<1> QED BY <1>16 DEF r

\* Dispatches on rows of controls.
LEMMA DispatchesHere ==
  ASSUME NEW base, NEW at, at \in {0, 1}, NEW step, StepOK(step), step.op = "data", ~step.empty,
         NEW slot, NEW dev, IsDevice(dev), slot \in DOMAIN dev.data, dev.data[slot] = step.rows,
         dev.params[1] = base, NEW b, NEW m, m.b = b
  PROVE  Run(WithFrame(dev, at, b), DataCommands(at, step, slot))
           = WithFrame(dev, at, BuffersAfter(base, m, step))
<1> DEFINE D(n) == Dispatch(at, step.entries[n], step.group, 1, slot, step.rows)
           S(n, x) == ShaderOf(step.entries[n], step.group, base, step.rows, x)
           nc == DataCommands(at, step, slot)
<1>1. BuffersAfter(base, m, step) = DataMeaning(base, step, b) BY DEF BuffersAfter
<1>2. 1 \in 1 .. RingSize BY DEF RingSize
<1>3. ASSUME NEW n, NEW x PROVE Apply(WithFrame(dev, at, x), D(n)) = WithFrame(dev, at, S(n, x))
  BY <1>2, DispatchHere
<1>4. /\ Len(step.entries) = 1 => nc = <<D(1)>>
      /\ Len(step.entries) # 1 => nc = <<D(1), D(2)>>
  BY DataCommandsAre
<1>5. CASE Len(step.entries) = 1
  <2>1. DataMeaning(base, step, b) = S(1, b) BY <1>5 DEF DataMeaning
  <2> HIDE DEF D, S, nc
  <2>2. Run(WithFrame(dev, at, b), <<D(1)>>) = Apply(WithFrame(dev, at, b), D(1)) BY RunOne
  <2>3. Run(WithFrame(dev, at, b), nc) = WithFrame(dev, at, S(1, b)) BY <1>3, <1>4, <1>5, <2>2
  <2> QED BY <1>1, <2>1, <2>3 DEF nc
<1>6. CASE Len(step.entries) # 1
  <2>1. DataMeaning(base, step, b) = S(2, S(1, b)) BY <1>6 DEF DataMeaning
  <2> HIDE DEF D, S, nc
  <2> DEFINE w == WithFrame(dev, at, b)
             p == <<D(1)>>
             q == <<D(2)>>
  <2>2. nc = p \o q BY <1>4, <1>6, ShortConcat
  <2>3. IsList(p) /\ IsList(q) BY ShortLists
  <2>4. Run(w, p) = Apply(w, D(1)) BY RunOne
  <2>5. ASSUME NEW x PROVE Run(x, q) = Apply(x, D(2)) BY RunOne
  <2> HIDE DEF p, q
  <2>6. Run(w, p \o q) = Run(Run(w, p), q) BY <2>3, RunConcat
  <2>7. Apply(w, D(1)) = WithFrame(dev, at, S(1, b)) BY <1>3
  <2>8. Apply(WithFrame(dev, at, S(1, b)), D(2)) = WithFrame(dev, at, S(2, S(1, b))) BY <1>3
  <2>9. Run(w, nc) = WithFrame(dev, at, S(2, S(1, b))) BY <2>2, <2>4, <2>5, <2>6, <2>7, <2>8
  <2> QED BY <1>1, <2>1, <2>9 DEF nc
<1> QED BY <1>5, <1>6

\* They are commands for the frame of their place.
LEMMA DispatchesAreCommands ==
  ASSUME NEW at, NEW step, StepOK(step), step.op = "data", NEW slot
  PROVE  Commands(DataCommands(at, step, slot), {at})
<1> DEFINE D(n) == Dispatch(at, step.entries[n], step.group, 1, slot, step.rows)
           nc == DataCommands(at, step, slot)
<1>1. /\ Len(step.entries) = 1 => nc = <<D(1)>> /\ step.entries[1] \in Entries
      /\ Len(step.entries) # 1 => nc = <<D(1), D(2)>> /\ step.entries[1] \in Entries
                                  /\ step.entries[2] \in Entries
  BY DataCommandsAre
<1>2. ASSUME NEW n, step.entries[n] \in Entries PROVE CommandOK(D(n), {at})
  BY <1>2 DEF CommandOK, Dispatch, OnFrame, RingSize
<1> HIDE DEF D, nc
<1>3. CASE Len(step.entries) = 1
  <2>1. Commands(<<D(1)>>, {at}) BY <1>1, <1>2, <1>3, CommandsShort
  <2> QED BY <1>1, <1>3, <2>1 DEF nc
<1>4. CASE Len(step.entries) # 1
  <2> DEFINE p == <<D(1)>>
             q == <<D(2)>>
  <2>1. Commands(p, {at}) /\ Commands(q, {at}) BY <1>1, <1>2, <1>4, CommandsShort
  <2>2. nc = p \o q BY <1>1, <1>4, ShortConcat
  <2> HIDE DEF p, q
  <2>3. Commands(p \o q, {at}) BY <2>1, CommandsConcat
  <2> QED BY <2>2, <2>3 DEF nc
<1> QED BY <1>3, <1>4

\* Passes on rows of controls.
LEMMA RowsAdd ==
  ASSUME NEW base, NEW at, at \in {0, 1}, NEW acc, IsEncoding(acc), NEW step, StepOK(step),
         step.op = "data", NEW oversized
  PROVE  \E nw, nc : StepAdds(base, at, acc, step, EncodeStep(acc, at, step, oversized), nw, nc)
<1> DEFINE r == EncodeStep(acc, at, step, oversized)
           none == <<>>
           k == acc.data_index
           w == WriteData(k, step.rows)
           nw == <<w>>
           nc == DataCommands(at, step, k)
           m(b) == [b |-> b, values |-> acc.values, ring |-> acc.ring_idx]
<1>1. RowsEncoded(acc, at, step, r) BY EncodeRows
<1> HIDE DEF r
<1>2. Commands(none, {}) /\ Commands(none, {at}) BY CommandsShort
<1>3. acc.writes = acc.writes \o none /\ acc.commands = acc.commands \o none BY ConcatNone DEF IsEncoding
<1>4. none = <<>> OBVIOUS
<1>5. ASSUME NEW dev PROVE Run(dev, none) = dev BY RunNone
<1> HIDE DEF none
<1>6. CASE r = acc /\ (step.empty \/ acc.pending_error)
  <2>1. ASSUME NEW b, ~r.pending_error PROVE BuffersAfter(base, m(b), step) = b
    BY <1>6, <2>1 DEF BuffersAfter
  <2> HIDE DEF m
  <2>2. Performs(base, at, acc, step, r, none, none)
    <3>1. ASSUME NEW dev, NEW b, ~r.pending_error
          PROVE Run(WithFrame(dev, at, b), none) = WithFrame(dev, at, BuffersAfter(base, m(b), step))
      BY <1>5, <2>1, <3>1
    <3> QED BY <3>1 DEF Performs, m
  <2>3. Takes(acc, r, none) BY <1>4, <1>6 DEF Takes
  <2>4. StepAdds(base, at, acc, step, r, none, none) BY <1>2, <1>3, <1>6, <2>2, <2>3 DEF StepAdds
  <2> QED BY <2>4 DEF r
<1>7. CASE /\ r.pending_error /\ r.writes = acc.writes /\ r.commands = acc.commands
           /\ r.data_index = acc.data_index + 1
  <2>1. Performs(base, at, acc, step, r, none, none) BY <1>7 DEF Performs
  <2>2. Takes(acc, r, none) BY <1>1, <1>4, <1>7 DEF Takes, RowsEncoded
  <2>3. IsEncoding(r) /\ r.ring_idx = acc.ring_idx /\ r.values = acc.values BY <1>1 DEF RowsEncoded
  <2>4. StepAdds(base, at, acc, step, r, none, none) BY <1>2, <1>3, <1>7, <2>1, <2>2, <2>3 DEF StepAdds
  <2> QED BY <2>4 DEF r
<1>8. CASE /\ ~step.empty /\ ~acc.pending_error /\ ~r.pending_error
           /\ r.writes = Append(acc.writes, w) /\ r.commands = acc.commands \o nc
           /\ r.data_index = acc.data_index + 1
  <2>1. w.op = "write_data" /\ w.slot = k /\ w.rows = step.rows BY DEF WriteData
  <2>2. CommandOK(w, {}) BY <2>1 DEF CommandOK, OnFrame, IsEncoding
  <2>3. nw = <<WriteData(k, step.rows)>> OBVIOUS
  <2>4. Commands(nw, {}) BY <2>2, CommandsShort
  <2>5. r.writes = acc.writes \o nw BY <1>8, AppendIsConcat DEF IsEncoding
  <2>6. Commands(nc, {at}) BY DispatchesAreCommands
  <2>7. IsEncoding(r) /\ r.ring_idx = acc.ring_idx /\ r.values = acc.values BY <1>1 DEF RowsEncoded
  <2>8. Takes(acc, r, nw) BY <1>8, <2>3, <2>7 DEF Takes
  <2>9. Performs(base, at, acc, step, r, nw, nc)
    <3>1. ASSUME NEW dev, NEW b, IsDevice(dev), Kept(dev, nw), dev.params[1] = base
          PROVE Run(WithFrame(dev, at, b), nc) = WithFrame(dev, at, BuffersAfter(base, m(b), step))
      <4>1. Len(nw) = 1 /\ nw[1] = w OBVIOUS
      <4>2. m(b).b = b OBVIOUS
      <4> HIDE DEF nw, w, m
      <4>3. Holds(dev, w) BY <3>1, <4>1 DEF Kept
      <4>4. k \in DOMAIN dev.data /\ dev.data[k] = step.rows BY <2>1, <4>3 DEF Holds
      <4> HIDE DEF k
      <4>5. Run(WithFrame(dev, at, b), DataCommands(at, step, k)) = WithFrame(dev, at, BuffersAfter(base, m(b), step))
        BY <1>8, <3>1, <4>2, <4>4, DispatchesHere
      <4> QED BY <4>5
    <3> HIDE DEF nw, nc
    <3> QED BY <3>1 DEF Performs
  <2> HIDE DEF w, nc, nw
  <2>10. StepAdds(base, at, acc, step, r, nw, nc)
    BY <1>8, <2>4, <2>5, <2>6, <2>7, <2>8, <2>9 DEF StepAdds
  <2> QED BY <2>10 DEF r
<1> QED BY <1>1, <1>6, <1>7, <1>8 DEF RowsEncoded

\* Every step.
LEMMA EachStepAdds ==
  ASSUME NEW base, NEW at, at \in {0, 1}, NEW acc, IsEncoding(acc), NEW step, StepOK(step), NEW oversized
  PROVE  \E nw, nc : StepAdds(base, at, acc, step, EncodeStep(acc, at, step, oversized), nw, nc)
<1>1. CASE step.op \in {"copy", "filter", "pass"} BY <1>1, SingleAdds
<1>2. CASE step.op = "pass_with" BY <1>2, WithAdds
<1>3. CASE step.op = "data" BY <1>3, RowsAdd
<1> QED BY <1>1, <1>2, <1>3 DEF StepOK
-----------------------------------------------------------------------------
(* What the steps have encoded, one after the other                        *)

\* Each write has taken a slot of its own.
Taken(acc) ==
  \A n \in 1 .. Len(acc.writes) :
    /\ acc.writes[n].op = "write_data" => acc.writes[n].slot \in 1 .. acc.data_index - 1
    /\ acc.writes[n].op = "write_params" => acc.writes[n].slot \in 1 .. acc.ring_idx - 1

\* All of it is there, or there was an error.
AllKept(dev, acc) ==
  ~acc.pending_error => Len(dev.data) >= acc.data_index - 1 /\ Kept(dev, acc.writes)

\* The next write takes another slot, and leaves what the others have written.
LEMMA OneWriteKept ==
  ASSUME NEW dev, IsDevice(dev), NEW acc, IsEncoding(acc), Taken(acc), NEW r, IsEncoding(r),
         acc.pending_error => r.pending_error, NEW w, CommandOK(w, {}),
         \/ /\ \E rows : w = WriteData(acc.data_index, rows)
            /\ r.data_index = acc.data_index + 1 /\ r.ring_idx = acc.ring_idx
         \/ /\ \E values : w = WriteParams(acc.ring_idx, values)
            /\ r.data_index = acc.data_index /\ r.ring_idx = acc.ring_idx + 1,
         r.writes = Append(acc.writes, w)
  PROVE  Taken(r) /\ (AllKept(dev, acc) => AllKept(Apply(dev, w), r))
<1> DEFINE d == Apply(dev, w)
           L == Len(acc.writes)
<1>1. /\ L \in Nat /\ Len(r.writes) = L + 1 /\ r.writes[L + 1] = w
      /\ \A n \in 1 .. L : r.writes[n] = acc.writes[n]
  BY ListAppend DEF IsEncoding
<1>2. \A n \in 1 .. L + 1 : n \in 1 .. L \/ n = L + 1 BY <1>1
<1>3. acc.data_index \in Nat \ {0} /\ acc.ring_idx \in Nat \ {0} BY DEF IsEncoding
<1> HIDE DEF L
<1>4. CASE /\ \E rows : w = WriteData(acc.data_index, rows)
           /\ r.data_index = acc.data_index + 1 /\ r.ring_idx = acc.ring_idx
  <2>1. w.op = "write_data" /\ w.slot = acc.data_index BY <1>4 DEF WriteData
  <2>2. Taken(r)
    <3>1. ASSUME NEW n \in 1 .. L + 1
          PROVE /\ r.writes[n].op = "write_data" => r.writes[n].slot \in 1 .. r.data_index - 1
                /\ r.writes[n].op = "write_params" => r.writes[n].slot \in 1 .. r.ring_idx - 1
      <4>1. CASE n \in 1 .. L BY <1>1, <1>3, <1>4, <4>1 DEF Taken, L
      <4>2. CASE n = L + 1 BY <1>1, <1>3, <1>4, <2>1, <4>2
      <4> QED BY <1>2, <4>1, <4>2
    <3> QED BY <1>1, <3>1 DEF Taken
  <2>3. ASSUME ~r.pending_error, AllKept(dev, acc)
        PROVE Len(d.data) >= r.data_index - 1 /\ Kept(d, r.writes)
    <3> DEFINE e == dev.data
               f == DataAfter(e, w)
    <3>1. Len(e) >= acc.data_index - 1 /\ Kept(dev, acc.writes) BY <2>3 DEF AllKept
    <3>2. IsList(e) /\ Len(e) \in Nat /\ DOMAIN e = 1 .. Len(e) BY DEF IsDevice, IsList
    <3>3. w.slot <= Len(e) + 1 /\ w.slot \in Nat \ {0} BY <1>3, <2>1, <3>1, <3>2
    <3>4. d.data = f /\ d.params = dev.params BY <2>1 DEF Apply
    <3> HIDE DEF e, f, d
    <3>5. /\ IsList(f) /\ Len(f) >= Len(e) /\ Len(f) \in Nat
          /\ w.slot <= Len(e) + 1 => f[w.slot] = w.rows /\ w.slot \in DOMAIN f
          /\ \A n \in DOMAIN e : n # w.slot => n \in DOMAIN f /\ f[n] = e[n]
      BY <3>2, <3>3, DataAfterIs DEF f
    <3>6. DOMAIN f = 1 .. Len(f) BY <3>5 DEF IsList
    <3>7. Len(d.data) >= r.data_index - 1 BY <1>3, <1>4, <2>1, <3>3, <3>4, <3>5, <3>6
    <3>8. ASSUME NEW n \in 1 .. L + 1 PROVE Holds(d, r.writes[n])
      <4>1. CASE n \in 1 .. L
        <5> DEFINE x == acc.writes[n]
        <5>1. Holds(dev, x) /\ r.writes[n] = x BY <1>1, <3>1, <4>1 DEF Kept, L
        <5>2. x.op = "write_data" => x.slot # w.slot
          <6>1. x.op = "write_data" => x.slot \in 1 .. acc.data_index - 1 BY <4>1 DEF Taken, L
          <6> HIDE DEF x
          <6> QED BY <1>3, <2>1, <6>1
        <5> HIDE DEF x
        <5>3. x.op = "write_data" => x.slot \in DOMAIN f /\ f[x.slot] = x.rows
          BY <3>5, <5>1, <5>2 DEF Holds, e
        <5>4. Holds(d, x) BY <3>4, <5>1, <5>3 DEF Holds
        <5> QED BY <5>1, <5>4
      <4>2. CASE n = L + 1
        <5>1. Holds(d, w) BY <2>1, <3>3, <3>4, <3>5 DEF Holds
        <5> QED BY <1>1, <4>2, <5>1
      <4> QED BY <1>2, <4>1, <4>2
    <3>9. Kept(d, r.writes) BY <1>1, <3>8 DEF Kept
    <3> QED BY <3>7, <3>9
  <2> QED BY <2>2, <2>3 DEF AllKept
<1>5. CASE /\ \E values : w = WriteParams(acc.ring_idx, values)
           /\ r.data_index = acc.data_index /\ r.ring_idx = acc.ring_idx + 1
  <2>1. w.op = "write_params" /\ w.slot = acc.ring_idx BY <1>5 DEF WriteParams
  <2>2. Taken(r)
    <3>1. ASSUME NEW n \in 1 .. L + 1
          PROVE /\ r.writes[n].op = "write_data" => r.writes[n].slot \in 1 .. r.data_index - 1
                /\ r.writes[n].op = "write_params" => r.writes[n].slot \in 1 .. r.ring_idx - 1
      <4>1. CASE n \in 1 .. L BY <1>1, <1>3, <1>5, <4>1 DEF Taken, L
      <4>2. CASE n = L + 1 BY <1>1, <1>3, <1>5, <2>1, <4>2
      <4> QED BY <1>2, <4>1, <4>2
    <3> QED BY <1>1, <3>1 DEF Taken
  <2>3. ASSUME ~r.pending_error, AllKept(dev, acc)
        PROVE Len(d.data) >= r.data_index - 1 /\ Kept(d, r.writes)
    <3>1. Len(dev.data) >= acc.data_index - 1 /\ Kept(dev, acc.writes) BY <2>3 DEF AllKept
    <3>2. d.data = dev.data /\ d.params = [dev.params EXCEPT ![w.slot] = w.values] BY <2>1 DEF Apply
    <3> HIDE DEF d
    <3>3. ASSUME NEW k \in 1 .. RingSize PROVE d.params[k] = IF k = w.slot THEN w.values ELSE dev.params[k]
      BY <3>2 DEF IsDevice
    <3>8. ASSUME NEW n \in 1 .. L + 1 PROVE Holds(d, r.writes[n])
      <4>1. CASE n \in 1 .. L
        <5> DEFINE x == acc.writes[n]
        <5>1. Holds(dev, x) /\ r.writes[n] = x BY <1>1, <3>1, <4>1 DEF Kept, L
        <5>2. x.op = "write_params" => x.slot # w.slot
          <6>1. x.op = "write_params" => x.slot \in 1 .. acc.ring_idx - 1 BY <4>1 DEF Taken, L
          <6> HIDE DEF x
          <6> QED BY <1>3, <2>1, <6>1
        <5> HIDE DEF x
        <5>4. Holds(d, x) BY <3>2, <3>3, <5>1, <5>2 DEF Holds
        <5> QED BY <5>1, <5>4
      <4>2. CASE n = L + 1
        <5>1. Holds(d, w) BY <2>1, <3>3 DEF Holds
        <5> QED BY <1>1, <4>2, <5>1
      <4> QED BY <1>2, <4>1, <4>2
    <3>9. Kept(d, r.writes) BY <1>1, <3>8 DEF Kept
    <3> QED BY <1>5, <3>1, <3>2, <3>9
  <2> QED BY <2>2, <2>3 DEF AllKept
<1> QED BY <1>4, <1>5

\* The same for a step, which writes or does not.
LEMMA WritesKept ==
  ASSUME NEW dev, IsDevice(dev), NEW acc, IsEncoding(acc), Taken(acc), NEW r, IsEncoding(r),
         acc.pending_error => r.pending_error, NEW nw, Commands(nw, {}), Takes(acc, r, nw),
         r.writes = acc.writes \o nw
  PROVE  Taken(r) /\ (AllKept(dev, acc) => AllKept(Run(dev, nw), r))
<1>1. CASE nw = <<>>
  <2>1. r.writes = acc.writes BY <1>1, ConcatNone DEF IsEncoding
  <2>2. Run(dev, nw) = dev BY <1>1, RunNone
  <2>3. /\ r.ring_idx = acc.ring_idx /\ r.data_index \in {acc.data_index, acc.data_index + 1}
        /\ ~r.pending_error => r.data_index = acc.data_index
    <3>1. ASSUME NEW w PROVE nw # <<w>>
      <4>1. SUFFICES ASSUME nw = <<w>> PROVE FALSE OBVIOUS
      <4>2. Len(nw) = 1 BY <4>1
      <4>3. Len(nw) = 0 BY <1>1
      <4> QED BY <4>2, <4>3
    <3> QED BY <3>1 DEF Takes
  <2>4. Taken(r)
    <3>1. acc.data_index \in Nat \ {0} BY DEF IsEncoding
    <3>2. 1 .. acc.data_index - 1 \subseteq 1 .. r.data_index - 1 BY <2>3, <3>1
    <3> QED BY <2>1, <2>3, <3>2 DEF Taken
  <2> QED BY <2>1, <2>2, <2>3, <2>4 DEF AllKept
<1>2. CASE nw # <<>>
  <2>1. PICK w : /\ nw = <<w>>
                 /\ \/ /\ \E rows : w = WriteData(acc.data_index, rows)
                       /\ r.data_index = acc.data_index + 1 /\ r.ring_idx = acc.ring_idx
                    \/ /\ \E values : w = WriteParams(acc.ring_idx, values)
                       /\ r.data_index = acc.data_index /\ r.ring_idx = acc.ring_idx + 1
    <3>1. CASE \E rows : nw = <<WriteData(acc.data_index, rows)>> BY <1>2, <3>1 DEF Takes
    <3>2. CASE \E values : nw = <<WriteParams(acc.ring_idx, values)>> BY <1>2, <3>2 DEF Takes
    <3> QED BY <1>2, <3>1, <3>2 DEF Takes
  <2>2. CommandOK(w, {})
    <3>1. Len(nw) = 1 /\ nw[1] = w BY <2>1
    <3> QED BY <3>1 DEF Commands
  <2>3. r.writes = Append(acc.writes, w) BY <2>1, AppendIsConcat DEF IsEncoding
  <2>4. Run(dev, nw) = Apply(dev, w) BY <2>1, RunOne
  <2>5. Taken(r) /\ (AllKept(dev, acc) => AllKept(Apply(dev, w), r)) BY <2>1, <2>2, <2>3, OneWriteKept
  <2> QED BY <2>4, <2>5
<1> QED BY <1>1, <1>2

\* What is encoded after some steps, and what it does to a frame with the
\* buffers b: m is what the steps mean.
Encoded(base, at, dev, b, acc, m) ==
  /\ IsEncoding(acc) /\ acc.ring_idx = m.ring /\ acc.values = m.values
  /\ Commands(acc.writes, {}) /\ Taken(acc) /\ AllKept(Run(dev, acc.writes), acc)
  /\ \A d : Kept(d, acc.writes) => d.params[1] = base
  /\ m.ring <= RingSize + 1 =>
       /\ Commands(acc.commands, {at})
       /\ \A d : IsDevice(d) /\ ~acc.pending_error /\ Kept(d, acc.writes) =>
            Run(WithFrame(d, at, b), acc.commands) = WithFrame(d, at, m.b)

\* What was written before a list of writes is what is written after a part of it.
LEMMA KeptBefore ==
  ASSUME NEW dev, NEW s, NEW t, IsList(s), IsList(t), Kept(dev, s \o t)
  PROVE  Kept(dev, s) /\ Kept(dev, t)
<1> DEFINE u == s \o t
<1>1. Joins(s, t, u) BY ListConcat
<1>2. Kept(dev, u) OBVIOUS
<1> HIDE DEF u
<1>3. ASSUME NEW n \in 1 .. Len(s) PROVE Holds(dev, s[n])
  <2>1. n \in 1 .. Len(u) /\ u[n] = s[n] BY <1>1 DEF Joins
  <2> QED BY <1>2, <2>1 DEF Kept
<1>4. ASSUME NEW n \in 1 .. Len(t) PROVE Holds(dev, t[n])
  <2>1. Len(s) + n \in 1 .. Len(u) /\ u[Len(s) + n] = t[n] BY <1>1 DEF Joins
  <2> QED BY <1>2, <2>1 DEF Kept
<1> QED BY <1>3, <1>4 DEF Kept

\* A step more.
LEMMA EncodedNext ==
  ASSUME NEW base, NEW at, at \in {0, 1}, NEW dev, IsDevice(dev), NEW b, NEW acc, NEW m,
         Encoded(base, at, dev, b, acc, m), NEW step, StepOK(step), NEW oversized
  PROVE  Encoded(base, at, dev, b, EncodeStep(acc, at, step, oversized), Meaning(base, m, step))
<1> DEFINE r == EncodeStep(acc, at, step, oversized)
           n == Meaning(base, m, step)
<1>1. IsEncoding(acc) BY DEF Encoded
<1>2. PICK nw, nc : StepAdds(base, at, acc, step, r, nw, nc) BY <1>1, EachStepAdds
<1>3. /\ n.b = BuffersAfter(base, m, step)
      /\ n.values = IF step.op = "pass_with" THEN Changed(m.values, step.set) ELSE m.values
      /\ n.ring = IF step.op = "pass_with" THEN m.ring + 1 ELSE m.ring
  BY DEF Meaning
<1> HIDE DEF r, n
<1>4. /\ IsEncoding(r) /\ (acc.pending_error => r.pending_error)
      /\ r.writes = acc.writes \o nw /\ r.commands = acc.commands \o nc
      /\ Commands(nw, {}) /\ Takes(acc, r, nw)
  BY <1>2 DEF StepAdds
<1>5. r.ring_idx = n.ring /\ r.values = n.values BY <1>2, <1>3 DEF StepAdds, Encoded
<1>6. Commands(acc.writes, {}) /\ Taken(acc) /\ AllKept(Run(dev, acc.writes), acc) BY DEF Encoded
<1>7. Commands(r.writes, {}) BY <1>4, <1>6, CommandsConcat
<1>8. IsDevice(Run(dev, acc.writes))
  <2>1. Commands(acc.writes, {0, 1}) BY <1>6, CommandsFor
  <2> QED BY <2>1, RunIsDevice
<1>9. Run(dev, r.writes) = Run(Run(dev, acc.writes), nw)
  <2>1. IsList(acc.writes) /\ IsList(nw) BY <1>4, <1>6 DEF Commands
  <2> QED BY <1>4, <2>1, RunConcat
<1>10. Taken(r) /\ AllKept(Run(dev, r.writes), r)
  <2> DEFINE d == Run(dev, acc.writes)
  <2>1. IsDevice(d) /\ AllKept(d, acc) BY <1>6, <1>8
  <2> HIDE DEF d
  <2>2. Taken(r) /\ (AllKept(d, acc) => AllKept(Run(d, nw), r)) BY <1>1, <1>4, <1>6, <2>1, WritesKept
  <2> QED BY <1>9, <2>1, <2>2 DEF d
<1>a. ASSUME NEW d, Kept(d, r.writes) PROVE Kept(d, acc.writes) /\ Kept(d, nw) /\ d.params[1] = base
  <2>1. IsList(acc.writes) /\ IsList(nw) BY <1>4, <1>6 DEF Commands
  <2>2. Kept(d, acc.writes) /\ Kept(d, nw) BY <1>4, <1>a, <2>1, KeptBefore
  <2> QED BY <2>2 DEF Encoded
<1>11. ASSUME n.ring <= RingSize + 1
       PROVE /\ Commands(r.commands, {at})
             /\ \A d : IsDevice(d) /\ ~r.pending_error /\ Kept(d, r.writes) =>
                  Run(WithFrame(d, at, b), r.commands) = WithFrame(d, at, n.b)
  <2>1. acc.ring_idx \in Nat /\ acc.ring_idx = m.ring BY <1>1 DEF IsEncoding, Encoded
  <2>2. m.ring <= RingSize + 1 BY <1>3, <1>11, <2>1 DEF RingSize
  <2>3. /\ Commands(acc.commands, {at})
        /\ \A d : IsDevice(d) /\ ~acc.pending_error /\ Kept(d, acc.writes) =>
             Run(WithFrame(d, at, b), acc.commands) = WithFrame(d, at, m.b)
    BY <2>2 DEF Encoded
  <2>4. step.op = "pass_with" => acc.ring_idx <= RingSize BY <1>3, <1>11, <2>1 DEF RingSize
  <2>5. Commands(nc, {at}) /\ Performs(base, at, acc, step, r, nw, nc)
    BY <1>2, <2>4 DEF StepAdds
  <2>6. Commands(r.commands, {at}) BY <1>4, <2>3, <2>5, CommandsConcat
  <2>7. ASSUME NEW d, IsDevice(d), ~r.pending_error, Kept(d, r.writes)
        PROVE Run(WithFrame(d, at, b), r.commands) = WithFrame(d, at, n.b)
    <3>1. IsList(acc.writes) /\ IsList(nw) /\ IsList(acc.commands) /\ IsList(nc)
      BY <1>4, <1>6, <2>3, <2>5 DEF Commands
    <3>2. Kept(d, acc.writes) /\ Kept(d, nw) /\ d.params[1] = base BY <1>a, <2>7
    <3>3. Run(WithFrame(d, at, b), r.commands) = Run(Run(WithFrame(d, at, b), acc.commands), nc)
      BY <1>4, <3>1, RunConcat
    <3>4. Run(WithFrame(d, at, b), acc.commands) = WithFrame(d, at, m.b) BY <1>4, <2>3, <2>7, <3>2
    <3> DEFINE k == [b |-> m.b, values |-> acc.values, ring |-> acc.ring_idx]
    <3>5. Run(WithFrame(d, at, m.b), nc) = WithFrame(d, at, BuffersAfter(base, k, step))
      BY <2>5, <2>7, <3>2 DEF Performs
    <3>6. k.b = m.b /\ k.values = m.values BY DEF Encoded
    <3> HIDE DEF k
    <3>7. BuffersAfter(base, k, step) = BuffersAfter(base, m, step) BY <3>6 DEF BuffersAfter
    <3> QED BY <1>3, <3>3, <3>4, <3>5, <3>7
  <2> QED BY <2>6, <2>7
<1>12. Encoded(base, at, dev, b, r, n) BY <1>4, <1>5, <1>7, <1>10, <1>a, <1>11 DEF Encoded
<1> QED BY <1>12 DEF r, n

\* f is what is encoded, and g what is meant, after each of the steps.
EncodesAs(acc, at, steps, oversized, f) ==
  /\ f[0] = acc
  /\ \A n \in 1 .. Len(steps) : f[n] = EncodeStep(f[n - 1], at, steps[n], oversized)
  /\ Encode(acc, at, steps, oversized) = f[Len(steps)]
MeansAs(base, m, steps, g) ==
  /\ g[0] = m
  /\ \A n \in 1 .. Len(steps) : g[n] = Meaning(base, g[n - 1], steps[n])
  /\ Means(base, m, steps) = g[Len(steps)]

\* There are such f and g.
LEMMA EncodeEncodesAs ==
  ASSUME NEW acc, NEW at, NEW steps, IsList(steps), NEW oversized
  PROVE  \E f : EncodesAs(acc, at, steps, oversized, f)
BY EncodeFold DEF EncodesAs

\* The same for what the steps mean.
LEMMA MeansMeansAs ==
  ASSUME NEW base, NEW m, NEW steps, IsList(steps)
  PROVE  \E g : MeansAs(base, m, steps, g)
BY MeansFold DEF MeansAs

\* All the steps.
LEMMA StepsEncoded ==
  ASSUME NEW base, NEW at, at \in {0, 1}, NEW dev, IsDevice(dev), NEW b, NEW acc, NEW m,
         Encoded(base, at, dev, b, acc, m), NEW steps, AllSteps(steps), NEW oversized
  PROVE  Encoded(base, at, dev, b, Encode(acc, at, steps, oversized), Means(base, m, steps))
<1>1. IsList(steps) /\ Len(steps) \in Nat BY DEF AllSteps, IsList
<1>a. PICK f : EncodesAs(acc, at, steps, oversized, f) BY <1>1, EncodeEncodesAs
<1>b. PICK g : MeansAs(base, m, steps, g) BY <1>1, MeansMeansAs
<1>2. /\ f[0] = acc
      /\ \A n \in 1 .. Len(steps) : f[n] = EncodeStep(f[n - 1], at, steps[n], oversized)
      /\ Encode(acc, at, steps, oversized) = f[Len(steps)]
  BY <1>a DEF EncodesAs
<1>3. /\ g[0] = m
      /\ \A n \in 1 .. Len(steps) : g[n] = Meaning(base, g[n - 1], steps[n])
      /\ Means(base, m, steps) = g[Len(steps)]
  BY <1>b DEF MeansAs
<1> DEFINE P(n) == Encoded(base, at, dev, b, f[n], g[n])
           S == {n \in Nat : n <= Len(steps) => P(n)}
<1>4. 0 \in S BY <1>2, <1>3
<1>5. ASSUME NEW n \in Nat, n \in S PROVE n + 1 \in S
  <2>1. SUFFICES ASSUME n + 1 <= Len(steps) PROVE P(n + 1) OBVIOUS
  <2>2. n + 1 \in 1 .. Len(steps) /\ (n + 1) - 1 = n BY <1>1, <2>1
  <2> DEFINE step == steps[n + 1]
             a == f[n]
             k == g[n]
  <2>3. f[n + 1] = EncodeStep(a, at, step, oversized) /\ g[n + 1] = Meaning(base, k, step)
    BY <1>2, <1>3, <2>2
  <2>4. Encoded(base, at, dev, b, a, k) BY <1>1, <1>5, <2>1
  <2>5. StepOK(step) BY <2>2 DEF AllSteps
  <2> HIDE DEF step, a, k, S
  <2>6. Encoded(base, at, dev, b, EncodeStep(a, at, step, oversized), Meaning(base, k, step))
    BY <2>4, <2>5, EncodedNext
  <2> QED BY <2>3, <2>6
<1>6. Len(steps) \in S
  <2> HIDE DEF S
  <2> HIDE DEF P
  <2>1. \A n \in Nat : n \in S => n + 1 \in S BY <1>5
  <2> QED BY <1>1, <1>4, <2>1, Induction
<1> QED BY <1>1, <1>2, <1>3, <1>6

-----------------------------------------------------------------------------
(* What a submitted effect leaves in the frame                             *)

NoDispatch(s) == \A n \in 1 .. Len(s) : s[n].op # "dispatch"

\* Where nothing is dispatched, nothing is misread.
LEMMA WritesOk ==
  ASSUME NEW dev, dev.ok \in BOOLEAN, NEW s, IsList(s), NoDispatch(s)
  PROVE  Run(dev, s).ok = dev.ok
<1>1. Len(s) \in Nat BY DEF IsList
<1>a. PICK f : RunsAs(dev, s, f) BY RunRunsAs
<1>2. /\ f[0] = dev
      /\ \A n \in 1 .. Len(s) : f[n] = Apply(f[n - 1], s[n])
      /\ Run(dev, s) = f[Len(s)]
  BY <1>a DEF RunsAs
<1> DEFINE S == {n \in Nat : n <= Len(s) => f[n].ok = dev.ok}
<1>3. 0 \in S BY <1>2
<1>4. ASSUME NEW n \in Nat, n \in S PROVE n + 1 \in S
  <2>1. SUFFICES ASSUME n + 1 <= Len(s) PROVE f[n + 1].ok = dev.ok OBVIOUS
  <2>2. n + 1 \in 1 .. Len(s) /\ (n + 1) - 1 = n BY <1>1, <2>1
  <2>3. f[n + 1] = Apply(f[n], s[n + 1]) BY <1>2, <2>2
  <2>4. f[n].ok = dev.ok BY <1>1, <1>4, <2>1
  <2>5. s[n + 1].op # "dispatch" BY <2>2 DEF NoDispatch
  <2>6. Apply(f[n], s[n + 1]).ok = dev.ok BY <2>4, <2>5 DEF Apply
  <2> QED BY <2>3, <2>6
<1>5. Len(s) \in S
  <2> HIDE DEF S
  <2> QED BY <1>1, <1>3, <1>4, Induction
<1> QED BY <1>1, <1>2, <1>5

\* Commands for no place dispatch nothing.
LEMMA WritesAreNoDispatch == ASSUME NEW s, Commands(s, {}) PROVE NoDispatch(s)
BY DEF Commands, CommandOK, NoDispatch, OnFrame

\* A frame replaced by itself.
LEMMA WithItsFrame ==
  ASSUME NEW dev, IsDevice(dev), NEW at, at \in {0, 1}
  PROVE  WithFrame(dev, at, dev.planes[at]) = dev
<1> DEFINE p == dev.planes
           q == [p EXCEPT ![at] = p[at]]
<1>1. p = q
  <2>1. p = [a \in {0, 1} |-> p[a]] BY DEF IsDevice
  <2> HIDE DEF p
  <2> QED BY <2>1
<1>2. WithFrame(dev, at, dev.planes[at]) = [planes |-> q, data |-> dev.data, params |-> dev.params, ok |-> dev.ok]
  BY DEF WithFrame
<1>3. dev = [planes |-> p, data |-> dev.data, params |-> dev.params, ok |-> dev.ok] BY DEF IsDevice
<1> HIDE DEF p, q
<1> QED BY <1>1, <1>2, <1>3

\* The planes in b are those the CPU computes for the field.
FieldShown(b, s, v, d) ==
  <<b["y"], b["i"], b["q"]>> = CpuEffectOnField(s.effect, v, d.events[v.at])

\* What encode_effect has before the first step: the base uniforms.
Start(v) ==
  [writes |-> <<>>, commands |-> <<>>, data_index |-> 1, ring_idx |-> 1,
   values |-> [frame |-> v.frame, angle |-> <<"none">>, delay |-> "unscaled"], pending_error |-> FALSE]
Base(v) == Changed(Start(v).values, NothingNew)

\* The base uniforms and nothing else are encoded at first.
LEMMA StartEncoded ==
  ASSUME NEW v, NEW at, at \in {0, 1}, NEW dev, IsDevice(dev), NEW b
  PROVE  Encoded(Base(v), at, dev, b, EncodeUniform(Start(v), NothingNew), [b |-> b, values |-> Base(v), ring |-> 2])
<1> DEFINE a == Start(v)
           base == Base(v)
           w == WriteParams(1, base)
           none == <<>>
           ws == Append(none, w)
           r == EncodeUniform(a, NothingNew)
           m == [b |-> b, values |-> base, ring |-> 2]
<1>1. a = [writes |-> a.writes, commands |-> a.commands, data_index |-> a.data_index,
           ring_idx |-> a.ring_idx, values |-> a.values, pending_error |-> a.pending_error]
  BY DEF Start
<1>a. a.writes = none /\ a.commands = none /\ a.data_index = 1 /\ a.ring_idx = 1 /\ a.pending_error = FALSE
  BY DEF Start
<1>2. r = [a EXCEPT !.ring_idx = @ + 1, !.values = base, !.writes = ws]
  BY DEF EncodeUniform, Changed, Base, Start
<1>3. none = <<>> /\ IsList(none) /\ Len(none) = 0 BY ShortLists
<1>4. w.op = "write_params" /\ w.slot = 1 /\ w.values = base BY DEF WriteParams
<1>5. m.b = b /\ m.values = base /\ m.ring = 2 OBVIOUS
<1>6. w = WriteParams(1, base) OBVIOUS
<1> HIDE DEF a, base, w, none, r, m
<1>7. IsList(ws) /\ Len(ws) = 1 /\ ws[1] = w
  <2>1. IsList(ws) /\ Len(ws) = Len(none) + 1 /\ ws[Len(none) + 1] = w BY <1>3, ListAppend
  <2> HIDE DEF ws
  <2> QED BY <1>3, <2>1
<1>8. ws = Append(none, w) OBVIOUS
<1> HIDE DEF ws
<1>9. r = [writes |-> ws, commands |-> a.commands, data_index |-> a.data_index,
           ring_idx |-> a.ring_idx + 1, values |-> base, pending_error |-> a.pending_error]
  BY <1>1, <1>2
<1>c. r = [writes |-> r.writes, commands |-> r.commands, data_index |-> r.data_index,
           ring_idx |-> r.ring_idx, values |-> r.values, pending_error |-> r.pending_error]
  BY <1>9
<1>b. /\ r.writes = ws /\ r.commands = none /\ r.data_index = 1 /\ r.ring_idx = 2
      /\ r.values = base /\ r.pending_error = FALSE
  <2>1. /\ r.writes = ws /\ r.commands = a.commands /\ r.data_index = a.data_index
        /\ r.ring_idx = a.ring_idx + 1 /\ r.values = base /\ r.pending_error = a.pending_error
    BY <1>9
  <2> QED BY <1>a, <2>1
<1>10. IsEncoding(a) /\ IsEncoding(r)
  <2>1. ASSUME NEW x, x = [writes |-> x.writes, commands |-> x.commands, data_index |-> x.data_index,
                          ring_idx |-> x.ring_idx, values |-> x.values, pending_error |-> x.pending_error],
               IsList(x.writes), IsList(x.commands), x.data_index \in Nat \ {0}, x.ring_idx \in Nat \ {0},
               x.pending_error \in BOOLEAN
        PROVE IsEncoding(x)
    BY <2>1, Zenon DEF IsEncoding
  <2>2. a.data_index \in Nat \ {0} /\ a.ring_idx \in Nat \ {0} /\ a.pending_error \in BOOLEAN
    <3>1. a.data_index = 1 /\ a.ring_idx = 1 BY <1>a
    <3>2. a.pending_error = FALSE BY <1>a
    <3>3. a.data_index \in Nat \ {0} /\ a.ring_idx \in Nat \ {0} BY <3>1
    <3>4. a.pending_error \in BOOLEAN BY <3>2, Zenon
    <3> QED BY <3>3, <3>4
  <2>3. r.data_index \in Nat \ {0} /\ r.ring_idx \in Nat \ {0} /\ r.pending_error \in BOOLEAN
    <3>1. r.data_index = 1 /\ r.ring_idx = 2 BY <1>b
    <3>2. r.pending_error = FALSE BY <1>b
    <3>3. r.data_index \in Nat \ {0} /\ r.ring_idx \in Nat \ {0} BY <3>1
    <3>4. r.pending_error \in BOOLEAN BY <3>2, Zenon
    <3> QED BY <3>3, <3>4
  <2>4. IsEncoding(a) BY <1>1, <1>a, <1>3, <2>1, <2>2
  <2>5. IsEncoding(r) BY <1>b, <1>c, <1>3, <1>7, <2>1, <2>3
  <2> QED BY <2>4, <2>5
<1>11. CommandOK(w, {}) BY <1>4 DEF CommandOK, OnFrame
<1>12. Commands(ws, {}) BY <1>7, <1>11 DEF Commands
<1>13. Taken(a) /\ AllKept(dev, a) BY <1>a, <1>3 DEF Taken, AllKept, Kept, IsDevice, IsList
<1>14. Taken(r) /\ AllKept(Apply(dev, w), r)
  <2>1. (\E values : w = WriteParams(a.ring_idx, values)) /\ r.data_index = a.data_index
        /\ r.ring_idx = a.ring_idx + 1
    BY <1>a, <1>6, <1>b
  <2>2. r.writes = Append(a.writes, w) BY <1>a, <1>8, <1>b
  <2>3. a.pending_error => r.pending_error BY <1>a
  <2>4. Taken(r) /\ (AllKept(dev, a) => AllKept(Apply(dev, w), r))
    BY <1>10, <1>11, <1>13, <2>1, <2>2, <2>3, OneWriteKept
  <2> QED BY <1>13, <2>4
<1>15. Run(dev, ws) = Apply(dev, w)
  <2> DEFINE one == <<w>>
  <2>1. IsList(one) /\ Len(one) = 1 /\ one[1] = w BY ShortLists
  <2> HIDE DEF one
  <2>2. ws = one BY <1>7, <2>1, SameList
  <2>3. Run(dev, <<w>>) = Apply(dev, w) BY RunOne
  <2> QED BY <2>2, <2>3 DEF one
<1>16. ASSUME NEW d, Kept(d, r.writes) PROVE d.params[1] = base
  <2>1. Kept(d, ws) BY <1>b, <1>16
  <2>2. Holds(d, w) BY <1>7, <2>1 DEF Kept
  <2> QED BY <1>4, <2>2 DEF Holds, RingSize
<1>17. Commands(r.commands, {at}) BY <1>3, <1>b, CommandsShort
<1>18. ASSUME NEW d PROVE Run(WithFrame(d, at, b), r.commands) = WithFrame(d, at, b)
  BY <1>3, <1>b, RunNone
<1>19. Encoded(base, at, dev, b, r, m)
  BY <1>5, <1>b, <1>10, <1>12, <1>14, <1>15, <1>16, <1>17, <1>18 DEF Encoded
<1> QED BY <1>19 DEF r, m, base, a

\* What encode_effect has encoded, and what it does to a frame with the image.
Delivers(dev, s, v, d, e) ==
  /\ IsEncoding(e) /\ Commands(e.writes, {}) /\ Commands(e.commands, {v.at})
  /\ LET r == Run(Run(dev, e.writes), e.commands)
     IN ~e.pending_error => r.ok = dev.ok /\ FieldShown(r.planes[v.at], s, v, d)

\* A device with the image in a frame has the CPU's planes in it after what
\* encode_effect has encoded.
LEMMA EncodeDelivers ==
  ASSUME NEW s, s \in SettingType, NEW v, v.at \in {0, 1}, v.height \in Nat, NEW d, NEW dev, IsDevice(dev),
         \A p \in Planes : dev.planes[v.at][p] = Input(p, v.image)
  PROVE  Delivers(dev, s, v, d, EncodeEffect(s, v, d))
<1> DEFINE at == v.at
           events == d.events[v.at]
           base == Base(v)
           b == dev.planes[at]
           m0 == [b |-> b, values |-> base, ring |-> 2]
           acc == EncodeUniform(Start(v), NothingNew)
           steps == EffectSteps(s, v, events)
           e == EncodeEffect(s, v, d)
           m == Means(base, m0, steps)
<1>1. e = Encode(acc, at, steps, d.oversized) BY DEF EncodeEffect, Start
<1>2. base.frame = v.frame /\ DOMAIN base = {"frame", "angle", "delay"}
  BY DEF Base, Changed, Start, NothingNew
<1>3. ForStages(base, s, v)
  <2> HIDE DEF base
  <2> QED BY <1>2 DEF ForStages, SettingType, Effect
<1>4. IsFrame(b) /\ at \in {0, 1} BY DEF IsDevice
<1>5. m0.b = b /\ m0.values = base /\ m0.ring = 2 OBVIOUS
<1>6. \A p \in Planes : m0.b[p] = Input(p, v.image) BY <1>5
<1>7. Encoded(base, at, dev, b, acc, m0) BY <1>4, StartEncoded
<1> HIDE DEF base, m0, acc, b
<1>8. LET r == m
      IN /\ <<r.b["y"], r.b["i"], r.b["q"]>> = CpuEffectOnField(s.effect, v, events)
         /\ r.ring <= 5 /\ AllSteps(EffectSteps(s, v, events))
  <2>1. IsFrame(m0.b) /\ DOMAIN m0.values = {"frame", "angle", "delay"} /\ m0.ring \in Nat /\ m0.ring <= 2
    BY <1>2, <1>4, <1>5
  <2> HIDE DEF events, at
  <2> QED BY <1>3, <1>6, <2>1, EffectStepsShowCpuEffect
<1>9. AllSteps(steps) BY <1>8
<1> HIDE DEF steps, e, at
<1>10. Encoded(base, at, dev, b, e, m) BY <1>1, <1>4, <1>7, <1>9, StepsEncoded
<1>11. m.ring <= RingSize + 1
  <2>1. m.ring <= 5 BY <1>8 DEF steps
  <2>2. m.ring = e.ring_idx /\ e.ring_idx \in Nat BY <1>10 DEF Encoded, IsEncoding
  <2> HIDE DEF m
  <2> QED BY <2>1, <2>2 DEF RingSize
<1>12. <<m.b["y"], m.b["i"], m.b["q"]>> = CpuEffectOnField(s.effect, v, events) BY <1>8 DEF steps
<1> HIDE DEF m, events
<1>13. IsEncoding(e) /\ Commands(e.writes, {}) /\ Commands(e.commands, {at}) BY <1>10, <1>11 DEF Encoded
<1>14. ASSUME ~e.pending_error
       PROVE LET r == Run(Run(dev, e.writes), e.commands)
             IN r.ok = dev.ok /\ FieldShown(r.planes[at], s, v, d)
  <2> DEFINE dev1 == Run(dev, e.writes)
             r == Run(dev1, e.commands)
  <2>1. Commands(e.writes, {0, 1}) BY <1>13, CommandsFor
  <2>2. IsDevice(dev1) BY <2>1, RunIsDevice
  <2>3. Kept(dev1, e.writes) BY <1>10, <1>14 DEF Encoded, AllKept
  <2>4. dev1.planes[at] = b
    <3>1. Elsewhere(at, {}) BY <1>4 DEF Elsewhere
    <3>2. Run(dev, e.writes).planes[at] = dev.planes[at] BY <1>13, <3>1, RunKeepsFrame
    <3> QED BY <3>2 DEF b
  <2>5. dev1.ok = dev.ok
    <3>1. NoDispatch(e.writes) BY <1>13, WritesAreNoDispatch
    <3> QED BY <1>13, <3>1, WritesOk DEF IsDevice, IsEncoding
  <2> HIDE DEF dev1
  <2>6. WithFrame(dev1, at, b) = dev1 BY <1>4, <2>2, <2>4, WithItsFrame
  <2>7. Run(WithFrame(dev1, at, b), e.commands) = WithFrame(dev1, at, m.b)
    BY <1>10, <1>11, <1>14, <2>2, <2>3 DEF Encoded
  <2>8. r = WithFrame(dev1, at, m.b) BY <2>6, <2>7
  <2> HIDE DEF r
  <2>9. r.planes[at] = m.b /\ r.ok = dev1.ok BY <1>4, <2>2, <2>8 DEF WithFrame, IsDevice
  <2>10. r.ok = dev.ok /\ FieldShown(r.planes[at], s, v, d) BY <1>12, <2>5, <2>9 DEF FieldShown, events
  <2> QED BY <2>10 DEF r, dev1
<1>15. Delivers(dev, s, v, d, e) BY <1>13, <1>14 DEF Delivers, at
<1> QED BY <1>15 DEF e

-----------------------------------------------------------------------------
(* The views of a frame                                                    *)

\* A list put behind nothing.
LEMMA NoneConcat == ASSUME NEW s, IsList(s) PROVE s = <<>> \o s
<1> DEFINE t == <<>>
           u == t \o s
<1>1. IsList(t) /\ Len(t) = 0 BY ShortLists
<1> HIDE DEF t
<1>2. IsList(u) /\ Joins(t, s, u) BY <1>1, ListConcat
<1> HIDE DEF u
<1>3. Len(s) = Len(u) BY <1>1, <1>2 DEF Joins
<1>4. ASSUME NEW n \in 1 .. Len(s) PROVE s[n] = u[n]
  <2>1. u[0 + n] = s[n] /\ 0 + n = n BY <1>1, <1>2, <1>4 DEF Joins
  <2> QED BY <2>1
<1>5. s = u BY <1>2, <1>3, <1>4, SameList
<1> QED BY <1>5 DEF u, t

\* One or two views, at different places, which are the CPU's.
ViewsOK(views, s, n) ==
  /\ IsList(views) /\ Len(views) \in {1, 2}
  /\ \A k \in 1 .. Len(views) : views[k].at \in {0, 1} /\ views[k].height \in Nat
  /\ Len(views) = 2 => views[1].at = 0 /\ views[2].at = 1
  /\ \A v \in CpuViews(s.field, s.height, n) : \E k \in 1 .. Len(views) : v = views[k]

\* Lists of one and of two views.
LEMMA OneView ==
  ASSUME NEW s, NEW n, NEW v, v.at \in {0, 1}, v.height \in Nat,
         \A w \in CpuViews(s.field, s.height, n) : w = v
  PROVE  ViewsOK(<<v>>, s, n)
<1> DEFINE l == <<v>>
<1>1. IsList(l) /\ Len(l) = 1 /\ l[1] = v BY ShortLists
<1> HIDE DEF l
<1>2. ViewsOK(l, s, n) BY <1>1 DEF ViewsOK
<1> QED BY <1>2 DEF l

\* The same for two.
LEMMA TwoViews ==
  ASSUME NEW s, NEW n, NEW v, NEW w, v.at = 0, v.height \in Nat, w.at = 1, w.height \in Nat,
         \A x \in CpuViews(s.field, s.height, n) : x = v \/ x = w
  PROVE  ViewsOK(<<v, w>>, s, n)
<1> DEFINE l == <<v, w>>
<1>1. IsList(l) /\ Len(l) = 2 /\ l[1] = v /\ l[2] = w BY ShortLists
<1> HIDE DEF l
<1>2. \A k \in 1 .. 2 : k = 1 \/ k = 2 OBVIOUS
<1>3. ViewsOK(l, s, n) BY <1>1, <1>2 DEF ViewsOK
<1> QED BY <1>3 DEF l

\* The runner's views are the CPU's.
LEMMA GpuViewsAre ==
  ASSUME NEW s, s \in SettingType, NEW n
  PROVE  ViewsOK(GpuViews(s, n), s, n)
<1> DEFINE h == s.height
           V(at, field) == View(at, field, h, n, 2 * n + at)
           W(field) == View(0, field, h, n, n)
<1>1. h \in Nat /\ h # 0 /\ s.field \in YiqField BY DEF SettingType
<1> HIDE DEF h
<1>2. ActualRows("upper", h) = (h + 1) \div 2 /\ ActualRows("lower", h) = h \div 2 BY DEF ActualRows
<1>3. ActualRows("upper", h) > 0 BY <1>1, <1>2
<1>4. /\ h = 1 => ~(ActualRows("lower", h) > 0)
      /\ h # 1 => ActualRows("lower", h) > 0
  BY <1>1, <1>2
<1>5. \A at, field : V(at, field).at = at /\ V(at, field).height = h BY DEF View
<1>6. \A field : W(field).at = 0 /\ W(field).height = h BY DEF View
<1>7. ASSUME NEW a, NEW b
      PROVE /\ When(TRUE, <<a>>) \o When(TRUE, <<b>>) = <<a, b>>
            /\ When(TRUE, <<a>>) \o When(FALSE, <<b>>) = <<a>>
            /\ When(FALSE, <<a>>) \o When(TRUE, <<b>>) = <<b>>
  <2>1. <<a, b>> = <<a>> \o <<b>> BY ShortConcat
  <2>2. IsList(<<a>>) /\ IsList(<<b>>) BY ShortLists
  <2>3. <<a>> = <<a>> \o <<>> BY <2>2, ConcatNone
  <2>4. <<b>> = <<>> \o <<b>> BY <2>2, NoneConcat
  <2>5. When(TRUE, <<a>>) = <<a>> /\ When(TRUE, <<b>>) = <<b>>
        /\ When(FALSE, <<a>>) = <<>> /\ When(FALSE, <<b>>) = <<>>
    BY DEF When
  <2> QED BY <2>1, <2>3, <2>4, <2>5
<1>8. CASE s.field = "interleaved_upper"
  <2> DEFINE a == V(0, "upper")
             b == V(1, "lower")
  <2>1. GpuViews(s, n) = When(ActualRows("upper", h) > 0, <<a>>) \o When(ActualRows("lower", h) > 0, <<b>>)
    BY <1>8 DEF GpuViews, h
  <2>2. \A v \in CpuViews(s.field, h, n) : v \in {View(0, "upper", h, n, 2 * n + 0), View(1, "lower", h, n, 2 * n + 1)}
                                           /\ ActualRows(v.field, h) > 0
    BY <1>8 DEF CpuViews
  <2>3. \A v \in CpuViews(s.field, h, n) : v \in {a, b} /\ ActualRows(v.field, h) > 0 BY <2>2
  <2>4. a.field = "upper" /\ b.field = "lower" BY DEF View
  <2>5. a.at = 0 /\ a.height = h /\ b.at = 1 /\ b.height = h BY <1>5
  <2> HIDE DEF a, b, V
  <2>6. CASE h = 1
    <3>1. GpuViews(s, n) = <<a>>
      <4>1. (ActualRows("upper", h) > 0) = TRUE /\ (ActualRows("lower", h) > 0) = FALSE BY <1>3, <1>4, <2>6
      <4> QED BY <1>7, <2>1, <4>1
    <3>2. \A v \in CpuViews(s.field, h, n) : v = a BY <1>4, <2>3, <2>4, <2>6
    <3>3. ViewsOK(<<a>>, s, n) BY <1>1, <2>5, <3>2, OneView DEF h
    <3> QED BY <3>1, <3>3
  <2>7. CASE h # 1
    <3>1. GpuViews(s, n) = <<a, b>>
      <4>1. (ActualRows("upper", h) > 0) = TRUE /\ (ActualRows("lower", h) > 0) = TRUE BY <1>3, <1>4, <2>7
      <4> QED BY <1>7, <2>1, <4>1
    <3>2. \A v \in CpuViews(s.field, h, n) : v = a \/ v = b BY <2>3
    <3>3. ViewsOK(<<a, b>>, s, n) BY <1>1, <2>5, <3>2, TwoViews DEF h
    <3> QED BY <3>1, <3>3
  <2> QED BY <2>6, <2>7
<1>9. CASE s.field = "interleaved_lower"
  <2> DEFINE a == V(0, "lower")
             b == V(1, "upper")
  <2>1. GpuViews(s, n) = When(ActualRows("lower", h) > 0, <<a>>) \o When(ActualRows("upper", h) > 0, <<b>>)
    BY <1>9 DEF GpuViews, h
  <2>2. \A v \in CpuViews(s.field, h, n) : v \in {View(1, "upper", h, n, 2 * n + 1), View(0, "lower", h, n, 2 * n + 0)}
                                           /\ ActualRows(v.field, h) > 0
    BY <1>9 DEF CpuViews
  <2>3. \A v \in CpuViews(s.field, h, n) : v \in {b, a} /\ ActualRows(v.field, h) > 0 BY <2>2
  <2>4. a.field = "lower" /\ b.field = "upper" BY DEF View
  <2>5. a.at = 0 /\ a.height = h /\ b.at = 1 /\ b.height = h BY <1>5
  <2> HIDE DEF a, b, V
  <2>6. CASE h = 1
    <3>1. GpuViews(s, n) = <<b>>
      <4>1. (ActualRows("upper", h) > 0) = TRUE /\ (ActualRows("lower", h) > 0) = FALSE BY <1>3, <1>4, <2>6
      <4> QED BY <1>7, <2>1, <4>1
    <3>2. \A v \in CpuViews(s.field, h, n) : v = b BY <1>4, <2>3, <2>4, <2>6
    <3>3. ViewsOK(<<b>>, s, n) BY <1>1, <2>5, <3>2, OneView DEF h
    <3> QED BY <3>1, <3>3
  <2>7. CASE h # 1
    <3>1. GpuViews(s, n) = <<a, b>>
      <4>1. (ActualRows("upper", h) > 0) = TRUE /\ (ActualRows("lower", h) > 0) = TRUE BY <1>3, <1>4, <2>7
      <4> QED BY <1>7, <2>1, <4>1
    <3>2. \A v \in CpuViews(s.field, h, n) : v = a \/ v = b BY <2>3
    <3>3. ViewsOK(<<a, b>>, s, n) BY <1>1, <2>5, <3>2, TwoViews DEF h
    <3> QED BY <3>1, <3>3
  <2> QED BY <2>6, <2>7
<1>10. CASE s.field \notin {"interleaved_upper", "interleaved_lower"}
  <2> DEFINE v == W(s.field)
  <2>1. GpuViews(s, n) = <<v>> BY <1>10 DEF GpuViews, h
  <2>2. \A w \in CpuViews(s.field, h, n) : w = v BY <1>10 DEF CpuViews
  <2>3. v.at = 0 /\ v.height = h BY <1>6
  <2> HIDE DEF v, W
  <2>4. ViewsOK(<<v>>, s, n) BY <1>1, <2>2, <2>3, OneView DEF h
  <2> QED BY <2>1, <2>4
<1> QED BY <1>8, <1>9, <1>10

-----------------------------------------------------------------------------
(* Uploads and downloads                                                   *)

\* Two commands, one after the other.
LEMMA RunTwo == ASSUME NEW dev, NEW a, NEW b PROVE Run(dev, <<a, b>>) = Apply(Apply(dev, a), b)
<1>1. IsList(<<a>>) /\ IsList(<<b>>) BY ShortLists
<1>2. Run(dev, <<a>> \o <<b>>) = Run(Run(dev, <<a>>), <<b>>) BY <1>1, RunConcat
<1>3. <<a, b>> = <<a>> \o <<b>> BY ShortConcat
<1> QED BY <1>2, <1>3, RunOne

\* Three commands.
LEMMA RunThree ==
  ASSUME NEW dev, NEW a, NEW b, NEW c
  PROVE  Run(dev, <<a, b, c>>) = Apply(Apply(Apply(dev, a), b), c)
<1>1. IsList(<<a, b>>) /\ IsList(<<c>>) BY ShortLists
<1>2. Run(dev, <<a, b>> \o <<c>>) = Run(Run(dev, <<a, b>>), <<c>>) BY <1>1, RunConcat
<1>3. <<a, b, c>> = <<a, b>> \o <<c>> BY ShortConcat
<1>4. Run(dev, <<a, b>>) = Apply(Apply(dev, a), b) BY RunTwo
<1> QED BY <1>2, <1>3, <1>4, RunOne

\* The commands of two and three.
LEMMA CommandsTwoThree ==
  ASSUME NEW ats, NEW a, NEW b, NEW c, CommandOK(a, ats), CommandOK(b, ats), CommandOK(c, ats)
  PROVE  /\ Commands(<<a, b>>, ats) /\ Commands(<<a, b, c>>, ats)
         /\ a.op # "dispatch" /\ b.op # "dispatch" /\ c.op # "dispatch" => NoDispatch(<<a, b, c>>)
<1> DEFINE p == <<a, b>>
           q == <<a, b, c>>
<1>1. IsList(p) /\ Len(p) = 2 /\ p[1] = a /\ p[2] = b BY ShortLists
<1>2. IsList(q) /\ Len(q) = 3 /\ q[1] = a /\ q[2] = b /\ q[3] = c BY ShortLists
<1> HIDE DEF p, q
<1>3. \A n \in 1 .. 2 : n = 1 \/ n = 2 OBVIOUS
<1>4. \A n \in 1 .. 3 : n = 1 \/ n = 2 \/ n = 3 OBVIOUS
<1>5. Commands(p, ats) BY <1>1, <1>3 DEF Commands
<1>6. Commands(q, ats) BY <1>2, <1>4 DEF Commands
<1>7. a.op # "dispatch" /\ b.op # "dispatch" /\ c.op # "dispatch" => NoDispatch(q)
  BY <1>2, <1>4 DEF NoDispatch
<1> QED BY <1>5, <1>6, <1>7 DEF p, q

\* A buffer written, and a buffer copied.
Written(b, p, x) == [b EXCEPT ![p] = x]
CopiedIn(b, p, q) == [b EXCEPT ![q] = b[p]]

\* Buffers with three of them written.
LEMMA ThreeWritten ==
  ASSUME NEW b, IsFrame(b), NEW p, p \in BufferNames, NEW q, q \in BufferNames, NEW r, r \in BufferNames,
         p # q, p # r, q # r, NEW x, NEW y, NEW z
  PROVE  LET c == Written(Written(Written(b, p, x), q, y), r, z)
         IN c[p] = x /\ c[q] = y /\ c[r] = z
BY DEF IsFrame, Written

\* The planes of the image, staged for a frame the runner has.
WritePlanes(v) ==
  << WritePlane(v.at, "y", InputOf(v).y), WritePlane(v.at, "i", InputOf(v).i),
     WritePlane(v.at, "q", InputOf(v).q) >>

\* A frame shows the image.
ImageShown(b, v) == \A p \in Planes : b[p] = Input(p, v.image)

\* What uploading leaves in the frame.
LEMMA WritePlanesLoad ==
  ASSUME NEW dev, IsDevice(dev), NEW v, v.at \in {0, 1}
  PROVE  /\ Commands(WritePlanes(v), {v.at}) /\ NoDispatch(WritePlanes(v))
         /\ ImageShown(Run(dev, WritePlanes(v)).planes[v.at], v)
<1> DEFINE at == v.at
           W(p, x) == WritePlane(at, p, x)
           x == InputOf(v).y
           y == InputOf(v).i
           z == InputOf(v).q
           b0 == dev.planes[at]
<1>1. at \in {0, 1} OBVIOUS
<1>2. x = Input("y", v.image) /\ y = Input("i", v.image) /\ z = Input("q", v.image) BY DEF InputOf
<1>3. WritePlanes(v) = <<W("y", x), W("i", y), W("q", z)>> BY DEF WritePlanes
<1>4. \A p, k : W(p, k).op = "write_plane" /\ W(p, k).at = at /\ W(p, k).plane = p /\ W(p, k).signal = k
  BY DEF WritePlane
<1>5. IsFrame(b0) BY <1>1 DEF IsDevice
<1> HIDE DEF at, W, x, y, z, b0
<1>6. \A p, k : CommandOK(W(p, k), {at}) /\ W(p, k).op # "dispatch" BY <1>4 DEF CommandOK, OnFrame
<1>7. Commands(WritePlanes(v), {at}) /\ NoDispatch(WritePlanes(v)) BY <1>3, <1>6, CommandsTwoThree
<1>8. ASSUME NEW b, NEW p, NEW k PROVE Apply(WithFrame(dev, at, b), W(p, k)) = WithFrame(dev, at, Written(b, p, k))
  <2> DEFINE c == W(p, k)
  <2>1. c.op = "write_plane" /\ c.at = at /\ c.plane = p /\ c.signal = k BY <1>4
  <2> HIDE DEF c
  <2>2. FrameAfter(b, dev, c) = Written(b, p, k) BY <2>1 DEF FrameAfter, Written
  <2>3. Apply(WithFrame(dev, at, b), c) = WithFrame(dev, at, FrameAfter(b, dev, c))
    BY <1>1, <2>1, ApplyHere DEF OnFrame
  <2> QED BY <2>2, <2>3 DEF c
<1> DEFINE b3 == Written(Written(Written(b0, "y", x), "i", y), "q", z)
<1>9. WithFrame(dev, at, b0) = dev BY <1>1, WithItsFrame DEF b0
<1>10. Run(dev, WritePlanes(v)) = Apply(Apply(Apply(dev, W("y", x)), W("i", y)), W("q", z))
  <2> DEFINE c1 == W("y", x)
             c2 == W("i", y)
             c3 == W("q", z)
  <2>1. WritePlanes(v) = <<c1, c2, c3>> BY <1>3
  <2> HIDE DEF c1, c2, c3
  <2>2. Run(dev, <<c1, c2, c3>>) = Apply(Apply(Apply(dev, c1), c2), c3) BY RunThree
  <2> QED BY <2>1, <2>2 DEF c1, c2, c3
<1>11. b3["y"] = x /\ b3["i"] = y /\ b3["q"] = z
  <2>1. "y" \in BufferNames /\ "i" \in BufferNames /\ "q" \in BufferNames BY DEF BufferNames, Planes
  <2>2. "y" # "i" /\ "y" # "q" /\ "i" # "q" OBVIOUS
  <2> QED BY <1>5, <2>1, <2>2, ThreeWritten
<1>12. Run(dev, WritePlanes(v)) = WithFrame(dev, at, b3) BY <1>8, <1>9, <1>10
<1> HIDE DEF b3
<1>13. WithFrame(dev, at, b3).planes[at] = b3 BY <1>1 DEF WithFrame, IsDevice
<1>14. ImageShown(Run(dev, WritePlanes(v)).planes[at], v) BY <1>2, <1>11, <1>12, <1>13 DEF ImageShown, Planes
<1> QED BY <1>7, <1>14 DEF at

\* The commands that read a field back, and what they deliver.
Readback(s, at) == IF s.output = "yiq" THEN Download(at) ELSE RgbaDownload(at)
DeliveredIn(b, s, v, d) ==
  LET expected == CpuEffectOnField(s.effect, v, d.events[v.at])
  IN IF s.output = "yiq" THEN <<b.out_y, b.out_i, b.out_q>> = expected
     ELSE b.out_y = <<"rgba8", expected[1], expected[2], expected[3]>>

\* A copy of a buffer.
LEMMA CopyHere ==
  ASSUME NEW dev, IsDevice(dev), NEW at, at \in {0, 1}, NEW b, NEW from, NEW to
  PROVE  /\ Apply(WithFrame(dev, at, b), CopyCommand(at, from, to)) = WithFrame(dev, at, CopiedIn(b, from, to))
         /\ CommandOK(CopyCommand(at, from, to), {at})
<1> DEFINE c == CopyCommand(at, from, to)
<1>1. c.op = "copy" /\ c.at = at /\ c.from = from /\ c.to = to BY DEF CopyCommand
<1> HIDE DEF c
<1>2. FrameAfter(b, dev, c) = CopiedIn(b, from, to) BY <1>1 DEF FrameAfter, CopiedIn
<1>3. Apply(WithFrame(dev, at, b), c) = WithFrame(dev, at, FrameAfter(b, dev, c))
  BY <1>1, ApplyHere DEF OnFrame
<1>4. CommandOK(c, {at}) BY <1>1 DEF CommandOK, OnFrame
<1> QED BY <1>2, <1>3, <1>4 DEF c

\* Reading back the planes.
LEMMA DownloadDelivers ==
  ASSUME NEW dev, IsDevice(dev), NEW at, at \in {0, 1}
  PROVE  LET r == Run(dev, Download(at))
         IN /\ Commands(Download(at), {at}) /\ r.ok = dev.ok
            /\ r.planes[at].out_y = dev.planes[at].y /\ r.planes[at].out_i = dev.planes[at].i
            /\ r.planes[at].out_q = dev.planes[at].q
<1> DEFINE C(p, q) == CopyCommand(at, p, q)
           b0 == dev.planes[at]
           b1 == CopiedIn(b0, "y", "out_y")
           b2 == CopiedIn(b1, "i", "out_i")
           b3 == CopiedIn(b2, "q", "out_q")
           r == Run(dev, Download(at))
<1>1. Download(at) = <<C("y", "out_y"), C("i", "out_i"), C("q", "out_q")>> BY DEF Download
<1>2. ASSUME NEW b, NEW p, NEW q
      PROVE /\ Apply(WithFrame(dev, at, b), C(p, q)) = WithFrame(dev, at, CopiedIn(b, p, q))
            /\ CommandOK(C(p, q), {at})
  BY CopyHere
<1>4. IsFrame(b0) BY DEF IsDevice
<1>5. WithFrame(dev, at, b0) = dev BY WithItsFrame
<1> HIDE DEF C, b0
<1>6. Commands(Download(at), {at}) BY <1>1, <1>2, CommandsTwoThree
<1>7. r = Apply(Apply(Apply(dev, C("y", "out_y")), C("i", "out_i")), C("q", "out_q"))
  <2> DEFINE c1 == C("y", "out_y")
             c2 == C("i", "out_i")
             c3 == C("q", "out_q")
  <2>1. Download(at) = <<c1, c2, c3>> BY <1>1
  <2> HIDE DEF c1, c2, c3
  <2>2. Run(dev, <<c1, c2, c3>>) = Apply(Apply(Apply(dev, c1), c2), c3) BY RunThree
  <2> QED BY <2>1, <2>2 DEF c1, c2, c3
<1>8. b3.out_y = b0.y /\ b3.out_i = b0.i /\ b3.out_q = b0.q
  BY <1>4 DEF CopiedIn, IsFrame, BufferNames, Planes, ScratchOf, StagingOf
<1> HIDE DEF b1, b2, b3, r
<1>9. r = WithFrame(dev, at, b3) BY <1>2, <1>5, <1>7 DEF b1, b2, b3
<1>10. r.planes[at] = b3 /\ r.ok = dev.ok BY <1>9 DEF WithFrame, IsDevice
<1> QED BY <1>6, <1>8, <1>10 DEF b0, r

\* Reading back the converted image.
LEMMA RgbaDownloadDelivers ==
  ASSUME NEW dev, IsDevice(dev), NEW at, at \in {0, 1}
  PROVE  LET r == Run(dev, RgbaDownload(at))
             b == dev.planes[at]
         IN /\ Commands(RgbaDownload(at), {at}) /\ r.ok = dev.ok
            /\ r.planes[at].out_y = <<"rgba8", b.y, b.i, b.q>>
<1> DEFINE C == CopyCommand(at, "sy", "out_y")
           D == Dispatch(at, "yiq_to_rgba8", MainGroup, 0, 0, <<>>)
           b0 == dev.planes[at]
           x == <<"rgba8", b0.y, b0.i, b0.q>>
           b1 == [b0 EXCEPT !.sy = x]
           b2 == CopiedIn(b1, "sy", "out_y")
           r == Run(dev, RgbaDownload(at))
<1>1. RgbaDownload(at) = <<D, C>> BY DEF RgbaDownload
<1>2. Apply(WithFrame(dev, at, b1), C) = WithFrame(dev, at, b2) /\ CommandOK(C, {at})
  <2> HIDE DEF b1
  <2> QED BY CopyHere
<1>3. CommandOK(D, {at}) BY DEF CommandOK, Dispatch, OnFrame, Entries, RingSize
<1>4. Apply(WithFrame(dev, at, b0), D) = WithFrame(dev, at, b1)
  <2>1. D.op = "dispatch" /\ D.at = at /\ D.entry = "yiq_to_rgba8" /\ D.slot = 0 /\ D.rows = <<>> BY DEF Dispatch
  <2> HIDE DEF D
  <2>2. 0 \notin DOMAIN dev.data BY DEF IsDevice, IsList
  <2>3. RowsFor(dev.data, D) = D.rows BY <2>1, <2>2 DEF RowsFor
  <2>4. FrameAfter(b0, dev, D) = Shader(D, UniformsFor(dev.params, D), RowsFor(dev.data, D), b0)
    BY <2>1 DEF FrameAfter
  <2>5. \A u, rows : Shader(D, u, rows, b0) = b1 BY <2>1 DEF Shader
  <2>6. Apply(WithFrame(dev, at, b0), D) = WithFrame(dev, at, FrameAfter(b0, dev, D))
    BY <2>1, <2>3, ApplyHere DEF OnFrame
  <2> QED BY <2>4, <2>5, <2>6
<1>5. WithFrame(dev, at, b0) = dev BY WithItsFrame
<1>6. IsFrame(b0) BY DEF IsDevice
<1>7. b2.out_y = x
  <2> HIDE DEF x, b0
  <2> QED BY <1>6 DEF CopiedIn, IsFrame, BufferNames, Planes, ScratchOf, StagingOf
<1> HIDE DEF C, D, b1, b2, r
<1>8. Commands(RgbaDownload(at), {at}) BY <1>1, <1>2, <1>3, CommandsTwoThree
<1>9. r = Apply(Apply(dev, D), C)
  <2>1. Run(dev, <<D, C>>) = Apply(Apply(dev, D), C) BY RunTwo
  <2> QED BY <1>1, <2>1 DEF r
<1>10. r = WithFrame(dev, at, b2) BY <1>2, <1>4, <1>5, <1>9
<1>11. r.planes[at] = b2 /\ r.ok = dev.ok BY <1>10 DEF WithFrame, IsDevice
<1> QED BY <1>7, <1>8, <1>11 DEF r

\* A view of a runner, and what reading it back leaves in its frame.
IsView(v) == v.at \in {0, 1} /\ v.height \in Nat
ReadInto(dev, s, v, d) ==
  LET r == Run(dev, Readback(s, v.at))
  IN /\ Commands(Readback(s, v.at), {v.at}) /\ r.ok = dev.ok
     /\ DeliveredIn(r.planes[v.at], s, v, d)

\* Reading back a field with the CPU's planes delivers them.
LEMMA ReadbackDelivers ==
  ASSUME NEW dev, IsDevice(dev), NEW s, NEW v, IsView(v), NEW d, FieldShown(dev.planes[v.at], s, v, d)
  PROVE  ReadInto(dev, s, v, d)
<1> DEFINE at == v.at
           b == dev.planes[at]
           expected == CpuEffectOnField(s.effect, v, d.events[at])
           r == Run(dev, Readback(s, at))
<1>1. at \in {0, 1} /\ expected = <<b.y, b.i, b.q>> BY DEF FieldShown, IsView
<1>2. CASE s.output = "yiq"
  <2>1. Readback(s, at) = Download(at) BY <1>2 DEF Readback
  <2> HIDE DEF at, expected
  <2>2. LET q == Run(dev, Download(at))
        IN /\ Commands(Download(at), {at}) /\ q.ok = dev.ok
           /\ q.planes[at].out_y = dev.planes[at].y /\ q.planes[at].out_i = dev.planes[at].i
           /\ q.planes[at].out_q = dev.planes[at].q
    BY <1>1, DownloadDelivers
  <2> HIDE DEF r, b
  <2>3. /\ Commands(Readback(s, at), {at}) /\ r.ok = dev.ok
        /\ r.planes[at].out_y = b.y /\ r.planes[at].out_i = b.i /\ r.planes[at].out_q = b.q
    BY <2>1, <2>2 DEF r, b
  <2>4. DeliveredIn(r.planes[at], s, v, d) BY <1>1, <1>2, <2>3 DEF DeliveredIn, expected, at
  <2> QED BY <2>3, <2>4 DEF ReadInto, r, at
<1>3. CASE s.output # "yiq"
  <2>1. Readback(s, at) = RgbaDownload(at) BY <1>3 DEF Readback
  <2> HIDE DEF at, expected
  <2>2. LET q == Run(dev, RgbaDownload(at))
            k == dev.planes[at]
        IN /\ Commands(RgbaDownload(at), {at}) /\ q.ok = dev.ok
           /\ q.planes[at].out_y = <<"rgba8", k.y, k.i, k.q>>
    BY <1>1, RgbaDownloadDelivers
  <2> HIDE DEF r, b
  <2>3. /\ Commands(Readback(s, at), {at}) /\ r.ok = dev.ok
        /\ r.planes[at].out_y = <<"rgba8", b.y, b.i, b.q>>
    BY <2>1, <2>2 DEF r, b
  <2>4. expected[1] = b.y /\ expected[2] = b.i /\ expected[3] = b.q BY <1>1
  <2>5. DeliveredIn(r.planes[at], s, v, d) BY <1>3, <2>3, <2>4 DEF DeliveredIn, expected, at
  <2> QED BY <2>3, <2>5 DEF ReadInto, r, at
<1> QED BY <1>2, <1>3

-----------------------------------------------------------------------------
(* The inductive invariant: what the device will hold when it has executed *)
(* what was submitted                                                      *)

DeviceNow == [planes |-> planes, data |-> data, params |-> params, ok |-> TRUE]
After == Run(DeviceNow, queue)
Views == GpuViews(setting, frame_num)

\* The views that are left are the last ones of the frame.
Rest(views, left) ==
  /\ IsList(left) /\ Len(left) <= Len(views)
  /\ \A n \in 1 .. Len(left) : left[n] = views[Len(views) - Len(left) + n]
Submitted == 1 .. Len(Views) - Len(todo)

\* The call under way. What an earlier call has left staged goes with the first
\* field, so that it cannot touch a field that was submitted.
HostInv ==
  /\ setting \in Settings /\ draw \in Draws /\ frame_num \in 0 .. LastFrame
  /\ status \in {"encoding", "waiting", "done", "failed"}
  /\ uploaded \subseteq {0, 1}
  /\ Rest(Views, todo)
  /\ status \in {"waiting", "done"} => todo = <<>>
  /\ status = "done" => queue = <<>>
  /\ status = "encoding" /\ Submitted # {} => staged = <<>>

\* What is submitted and staged is for frames the runner has, and each dispatch
\* that is submitted will read what it was encoded for.
DeviceInv ==
  /\ IsDevice(DeviceNow)
  /\ Commands(queue, uploaded) /\ Commands(staged, uploaded) /\ NoDispatch(staged)
  /\ After.ok

\* The fields submitted so far will have the CPU's planes, and those read back
\* will be delivered.
FieldsInv ==
  /\ status = "encoding" =>
       \A n \in Submitted :
         Views[n].at \in uploaded /\ FieldShown(After.planes[Views[n].at], setting, Views[n], draw)
  /\ status \in {"waiting", "done"} =>
       \A n \in 1 .. Len(Views) : DeliveredIn(After.planes[Views[n].at], setting, Views[n], draw)

IInv == HostInv /\ DeviceInv /\ FieldsInv

-----------------------------------------------------------------------------
(* The submissions                                                         *)

\* The buffers that upload_frame creates, and what the runner has after it.
Loaded(v) == [b \in BufferNames |-> IF b \in Planes THEN InputOf(v)[b] ELSE Scrap]
Created(dev, ats, v) == IF v.at \in ats THEN dev ELSE WithFrame(dev, v.at, Loaded(v))
Uploads(ats, v) == IF v.at \in ats THEN WritePlanes(v) ELSE <<>>

\* They are a frame with the image.
LEMMA LoadedIs == ASSUME NEW v PROVE IsFrame(Loaded(v)) /\ ImageShown(Loaded(v), v)
<1> DEFINE l == Loaded(v)
<1>1. IsFrame(l) BY DEF Loaded, IsFrame
<1>2. l["y"] = InputOf(v)["y"] /\ l["i"] = InputOf(v)["i"] /\ l["q"] = InputOf(v)["q"]
  BY Names DEF Loaded, Planes
<1>3. /\ InputOf(v)["y"] = Input("y", v.image) /\ InputOf(v)["i"] = Input("i", v.image)
      /\ InputOf(v)["q"] = Input("q", v.image)
  BY DEF InputOf
<1> HIDE DEF l
<1>4. ASSUME NEW p \in Planes PROVE l[p] = Input(p, v.image)
  <2>1. p = "y" \/ p = "i" \/ p = "q" BY <1>4 DEF Planes
  <2> QED BY <1>2, <1>3, <2>1
<1>5. ImageShown(l, v) BY <1>4 DEF ImageShown
<1> QED BY <1>1, <1>5 DEF l

\* A device with a frame replaced is a device.
LEMMA WithFrameIsDevice ==
  ASSUME NEW dev, IsDevice(dev), NEW at, at \in {0, 1}, NEW x, IsFrame(x)
  PROVE  IsDevice(WithFrame(dev, at, x)) /\ WithFrame(dev, at, x).planes[at] = x
<1> DEFINE d == WithFrame(dev, at, x)
<1>1. /\ d.planes = [dev.planes EXCEPT ![at] = x] /\ d.data = dev.data /\ d.params = dev.params /\ d.ok = dev.ok
      /\ d = [planes |-> d.planes, data |-> d.data, params |-> d.params, ok |-> d.ok]
  BY DEF WithFrame
<1> HIDE DEF d
<1>2. d.planes = [a \in {0, 1} |-> d.planes[a]] /\ \A a \in {0, 1} : IsFrame(d.planes[a])
  BY <1>1 DEF IsDevice
<1>3. d.planes[at] = x BY <1>1 DEF IsDevice
<1>4. IsDevice(d) BY <1>1, <1>2 DEF IsDevice
<1> QED BY <1>3, <1>4 DEF d

\* It makes no difference to what is submitted already whether upload_frame
\* creates the buffers before it is executed or after it.
CreatesBefore(dev, ats, v, q) ==
  /\ IsDevice(Created(dev, ats, v))
  /\ Run(Created(dev, ats, v), q) = Created(Run(dev, q), ats, v)

\* What is submitted already is for other frames.
LEMMA CreatedRuns ==
  ASSUME NEW dev, IsDevice(dev), NEW ats, Places(ats), NEW q, Commands(q, ats), NEW v, IsView(v)
  PROVE  CreatesBefore(dev, ats, v, q)
<1> DEFINE at == v.at
           x == Loaded(v)
<1>1. at \in {0, 1} /\ IsFrame(x) BY LoadedIs DEF IsView
<1>2. CASE at \in ats BY <1>2 DEF Created, CreatesBefore
<1>3. CASE at \notin ats
  <2>1. /\ Created(dev, ats, v) = WithFrame(dev, at, x)
        /\ Created(Run(dev, q), ats, v) = WithFrame(Run(dev, q), at, x)
    BY <1>3 DEF Created
  <2> HIDE DEF at, x
  <2>a. Elsewhere(at, ats) BY <1>1, <1>3 DEF Elsewhere, Places
  <2>b. LeavesFrame(dev, q, at, x) BY <2>a, RunElsewhere
  <2>2. Run(WithFrame(dev, at, x), q) = WithFrame(Run(dev, q), at, x) BY <2>b DEF LeavesFrame
  <2>3. IsDevice(WithFrame(dev, at, x)) BY <1>1, WithFrameIsDevice
  <2> QED BY <2>1, <2>2, <2>3 DEF CreatesBefore
<1> QED BY <1>2, <1>3

\* When what is staged and uploaded has been executed, the frame has the image.
RightSoFar(dev) == dev.ok
UploadsLoad(dev, ats, st, v) ==
  LET r == Run(Run(Created(dev, ats, v), st), Uploads(ats, v))
  IN /\ Commands(Uploads(ats, v), {v.at}) /\ NoDispatch(Uploads(ats, v))
     /\ IsDevice(r) /\ r.ok /\ ImageShown(r.planes[v.at], v)
     /\ st = <<>> => \A at \in {0, 1} : at # v.at => r.planes[at] = dev.planes[at]

\* It has, whether upload_frame has created the buffers or upload_into has staged writes.
LEMMA UploadLoads ==
  ASSUME NEW dev, IsDevice(dev), RightSoFar(dev), NEW ats, Places(ats), NEW st, Commands(st, ats),
         NoDispatch(st), NEW v, IsView(v)
  PROVE  UploadsLoad(dev, ats, st, v)
<1> DEFINE at == v.at
           x == Loaded(v)
           c == Created(dev, ats, v)
           up == Uploads(ats, v)
           d == Run(c, st)
           r == Run(d, up)
<1>1. at \in {0, 1} /\ IsFrame(x) /\ ImageShown(x, v) BY LoadedIs DEF IsView
<1>a. dev.ok BY DEF RightSoFar
<1>2. IsDevice(c)
  <2>1. CASE at \in ats BY <2>1 DEF Created
  <2>2. CASE at \notin ats
    <3>1. c = WithFrame(dev, at, x) BY <2>2 DEF Created
    <3> HIDE DEF c, at, x
    <3> QED BY <1>1, <3>1, WithFrameIsDevice
  <2> QED BY <2>1, <2>2
<1>3. c.ok = dev.ok /\ \A a \in {0, 1} : a # at => c.planes[a] = dev.planes[a]
  <2>1. CASE at \in ats BY <2>1 DEF Created
  <2>2. CASE at \notin ats
    <3>1. c = WithFrame(dev, at, x) BY <2>2 DEF Created
    <3> HIDE DEF c, at, x
    <3> QED BY <1>1, <3>1 DEF WithFrame, IsDevice
  <2> QED BY <2>1, <2>2
<1>4. at \notin ats => c.planes[at] = x
  <2>1. SUFFICES ASSUME at \notin ats PROVE c.planes[at] = x OBVIOUS
  <2>2. c = WithFrame(dev, at, x) BY <2>1 DEF Created
  <2> HIDE DEF c, at, x
  <2> QED BY <1>1, <2>2, WithFrameIsDevice
<1>5. Commands(up, {at}) /\ NoDispatch(up)
  <2>1. CASE at \in ats
    <3>1. up = WritePlanes(v) BY <2>1 DEF Uploads
    <3>2. Commands(WritePlanes(v), {v.at}) /\ NoDispatch(WritePlanes(v)) BY WritePlanesLoad DEF IsView
    <3> QED BY <3>1, <3>2
  <2>2. CASE at \notin ats
    <3>1. up = <<>> BY <2>2 DEF Uploads
    <3>2. Len(up) = 0 BY <3>1
    <3>3. Commands(<<>>, {at}) BY CommandsShort
    <3> QED BY <3>1, <3>2, <3>3 DEF NoDispatch
  <2> QED BY <2>1, <2>2
<1>6. at \in ats => up = WritePlanes(v) BY DEF Uploads
<1>7. at \notin ats => up = <<>> BY DEF Uploads
<1> HIDE DEF c, up, x
<1>8. Commands(st, {0, 1}) BY CommandsFor DEF Places
<1>9. IsDevice(d) BY <1>2, <1>8, RunIsDevice
<1>10. d.ok = c.ok BY <1>2, WritesOk DEF IsDevice, Commands
<1> HIDE DEF at
<1>11. Commands(up, {0, 1}) BY <1>1, <1>5, CommandsFor
<1> HIDE DEF d
<1>12. IsDevice(r) BY <1>9, <1>11, RunIsDevice
<1>13. r.ok = d.ok BY <1>5, <1>9, WritesOk DEF IsDevice, Commands
<1>14. ImageShown(r.planes[at], v)
  <2>1. CASE at \in ats
    <3>1. /\ Commands(WritePlanes(v), {v.at}) /\ NoDispatch(WritePlanes(v))
          /\ ImageShown(Run(d, WritePlanes(v)).planes[v.at], v)
      BY <1>9, WritePlanesLoad DEF IsView
    <3> QED BY <1>6, <2>1, <3>1 DEF at
  <2>2. CASE at \notin ats
    <3>a. Elsewhere(at, ats) BY <1>1, <2>2 DEF Elsewhere, Places
    <3>1. Run(c, st).planes[at] = c.planes[at] BY <1>2, <3>a, RunKeepsFrame
    <3>2. r = d BY <1>7, <2>2, RunNone
    <3> QED BY <1>1, <1>4, <2>2, <3>1, <3>2 DEF d
  <2> QED BY <2>1, <2>2
<1>15. ASSUME st = <<>>, NEW a, a \in {0, 1}, a # at PROVE r.planes[a] = dev.planes[a]
  <2>1. d = c BY <1>15, RunNone DEF d
  <2>2. Elsewhere(a, {at}) BY <1>1, <1>15 DEF Elsewhere
  <2>3. Run(d, up).planes[a] = d.planes[a] BY <1>5, <1>9, <2>2, RunKeepsFrame
  <2> QED BY <1>3, <1>15, <2>1, <2>3
<1> HIDE DEF r
<1>16. r.ok BY <1>3, <1>a, <1>10, <1>13
<1> QED BY <1>5, <1>12, <1>14, <1>15, <1>16 DEF UploadsLoad, r, d, c, up, at

\* When an effect has been submitted behind q, the device will have the CPU's
\* planes in its frame, and other frames are as q leaves them.
SubmissionDelivers(dev, ats, q, st, s, v, d) ==
  LET e == EncodeEffect(s, v, d)
      all == q \o st \o Uploads(ats, v) \o e.writes \o e.commands
      r == Run(Created(dev, ats, v), all)
  IN /\ Commands(all, ats \cup {v.at}) /\ IsDevice(r) /\ r.ok /\ FieldShown(r.planes[v.at], s, v, d)
     /\ st = <<>> => \A at \in {0, 1} : at # v.at => r.planes[at] = Run(dev, q).planes[at]

\* Lists one behind the other, executed and typed.
LEMMA RunFive ==
  ASSUME NEW dev, NEW ats, NEW a, NEW b, NEW c, NEW d, NEW e, Commands(a, ats), Commands(b, ats),
         Commands(c, ats), Commands(d, ats), Commands(e, ats)
  PROVE  /\ Commands(a \o b \o c \o d \o e, ats)
         /\ Run(dev, a \o b \o c \o d \o e) = Run(Run(Run(Run(Run(dev, a), b), c), d), e)
<1> DEFINE ab == a \o b
           abc == ab \o c
           abcd == abc \o d
           all == abcd \o e
<1>1. Commands(ab, ats) BY CommandsConcat
<1>2. IsList(a) /\ IsList(b) /\ IsList(c) /\ IsList(d) /\ IsList(e) BY DEF Commands
<1>3. Run(dev, a \o b) = Run(Run(dev, a), b) BY <1>2, RunConcat
<1>4. Run(dev, ab) = Run(Run(dev, a), b) BY <1>3
<1> HIDE DEF ab
<1>5. Commands(abc, ats) /\ IsList(ab) BY <1>1, CommandsConcat DEF Commands
<1>6. Run(dev, ab \o c) = Run(Run(dev, ab), c) BY <1>2, <1>5, RunConcat
<1>7. Run(dev, abc) = Run(Run(Run(dev, a), b), c) BY <1>4, <1>6
<1> HIDE DEF abc
<1>8. Commands(abcd, ats) /\ IsList(abc) BY <1>5, CommandsConcat DEF Commands
<1>9. Run(dev, abc \o d) = Run(Run(dev, abc), d) BY <1>2, <1>8, RunConcat
<1>10. Run(dev, abcd) = Run(Run(Run(Run(dev, a), b), c), d) BY <1>7, <1>9
<1> HIDE DEF abcd
<1>11. Commands(all, ats) /\ IsList(abcd) BY <1>8, CommandsConcat DEF Commands
<1>12. Run(dev, abcd \o e) = Run(Run(dev, abcd), e) BY <1>2, <1>11, RunConcat
<1>13. Run(dev, all) = Run(Run(Run(Run(Run(dev, a), b), c), d), e) BY <1>10, <1>12
<1> HIDE DEF all
<1> QED BY <1>11, <1>13 DEF all, abcd, abc, ab

\* It does.
LEMMA SubmissionsDeliver ==
  ASSUME NEW dev, IsDevice(dev), NEW ats, Places(ats), NEW q, Commands(q, ats), RightSoFar(Run(dev, q)),
         NEW st, Commands(st, ats), NoDispatch(st), NEW s, s \in SettingType,
         NEW v, IsView(v), NEW d, ~EncodeEffect(s, v, d).pending_error
  PROVE  SubmissionDelivers(dev, ats, q, st, s, v, d)
<1> DEFINE at == v.at
           e == EncodeEffect(s, v, d)
           bts == ats \cup {at}
           c == Created(dev, ats, v)
           up == Uploads(ats, v)
           a0 == Run(dev, q)
           a1 == Created(a0, ats, v)
           a2 == Run(Run(a1, st), up)
           a3 == Run(a2, e.writes)
           a4 == Run(a3, e.commands)
           all == q \o st \o up \o e.writes \o e.commands
<1>0. at \in {0, 1} /\ v.height \in Nat BY DEF IsView
<1>1. Commands(q, {0, 1}) BY CommandsFor DEF Places
<1>2. IsDevice(a0) /\ RightSoFar(a0) BY <1>1, RunIsDevice
<1>3. IsDevice(c) /\ Run(c, q) = a1
  <2>1. CreatesBefore(dev, ats, v, q) BY CreatedRuns
  <2> QED BY <2>1 DEF CreatesBefore
<1> HIDE DEF a0
<1>a. UploadsLoad(a0, ats, st, v) BY <1>2, UploadLoads
<1>4. /\ Commands(up, {at}) /\ NoDispatch(up)
      /\ IsDevice(a2) /\ a2.ok /\ ImageShown(a2.planes[at], v)
      /\ st = <<>> => \A k \in {0, 1} : k # at => a2.planes[k] = a0.planes[k]
  BY <1>a DEF UploadsLoad
<1> HIDE DEF a1, a2, e, c
<1>5. Delivers(a2, s, v, d, e)
  <2>1. \A p \in Planes : a2.planes[v.at][p] = Input(p, v.image) BY <1>4 DEF ImageShown
  <2>2. IsDevice(a2) BY <1>4
  <2> QED BY <1>0, <2>1, <2>2, EncodeDelivers DEF e
<1>6. Commands(e.writes, {}) /\ Commands(e.commands, {at}) BY <1>5 DEF Delivers
<1>7. a4.ok = a2.ok /\ FieldShown(a4.planes[at], s, v, d) BY <1>5 DEF Delivers, e
<1>8. /\ Commands(q, bts) /\ Commands(st, bts) /\ Commands(up, bts) /\ Commands(e.writes, bts)
      /\ Commands(e.commands, bts)
  <2>1. ats \subseteq bts /\ {at} \subseteq bts /\ {} \subseteq bts OBVIOUS
  <2>2. Commands(up, {at}) BY <1>4
  <2> HIDE DEF bts, up, at
  <2> QED BY <1>6, <2>1, <2>2, CommandsFor
<1> HIDE DEF up
<1>9. Commands(all, bts) /\ Run(c, all) = Run(Run(Run(Run(Run(c, q), st), up), e.writes), e.commands)
  <2> HIDE DEF bts
  <2> QED BY <1>8, RunFive
<1>10. Run(c, all) = a4 BY <1>3, <1>9 DEF a2
<1>11. IsDevice(a3) /\ IsDevice(a4)
  <2>1. Commands(e.writes, {0, 1}) /\ Commands(e.commands, {0, 1})
    <3>1. {at} \subseteq {0, 1} /\ {} \subseteq {0, 1} BY <1>0
    <3> HIDE DEF at
    <3> QED BY <1>6, <3>1, CommandsFor
  <2>2. IsDevice(a2) BY <1>4
  <2>3. IsDevice(a3) BY <2>1, <2>2, RunIsDevice
  <2> HIDE DEF a3
  <2> QED BY <2>1, <2>3, RunIsDevice
<1>12. ASSUME st = <<>>, NEW k, k \in {0, 1}, k # at PROVE a4.planes[k] = a0.planes[k]
  <2>1. a2.planes[k] = a0.planes[k] BY <1>4, <1>12
  <2>2. Elsewhere(k, {}) /\ Elsewhere(k, {at}) BY <1>0, <1>12 DEF Elsewhere
  <2>3. IsDevice(a2) BY <1>4
  <2> HIDE DEF at
  <2>4. Run(a2, e.writes).planes[k] = a2.planes[k] BY <1>6, <2>2, <2>3, RunKeepsFrame
  <2>5. a3.planes[k] = a2.planes[k] BY <2>4
  <2> HIDE DEF a3
  <2>6. Run(a3, e.commands).planes[k] = a3.planes[k] BY <1>6, <1>11, <2>2, RunKeepsFrame
  <2> QED BY <2>1, <2>5, <2>6
<1> HIDE DEF a4, all
<1>13. a4.ok BY <1>4, <1>7
<1>14. LET r == Run(c, all)
       IN /\ Commands(all, ats \cup {at}) /\ IsDevice(r) /\ r.ok /\ FieldShown(r.planes[at], s, v, d)
          /\ st = <<>> => \A k \in {0, 1} : k # at => r.planes[k] = a0.planes[k]
  BY <1>7, <1>9, <1>10, <1>11, <1>12, <1>13
<1> QED BY <1>14 DEF SubmissionDelivers, all, c, up, e, at, a0


\* A list without a dispatch behind another one.
LEMMA NoDispatchConcat ==
  ASSUME NEW s, NEW t, IsList(s), IsList(t), NoDispatch(s), NoDispatch(t)
  PROVE  NoDispatch(s \o t)
<1> DEFINE u == s \o t
<1>1. IsList(u) /\ Joins(s, t, u) BY ListConcat
<1> HIDE DEF u
<1>2. ASSUME NEW n \in 1 .. Len(u) PROVE u[n].op # "dispatch"
  <2>1. CASE n <= Len(s)
    <3>1. n \in 1 .. Len(s) /\ u[n] = s[n] BY <1>1, <2>1 DEF Joins
    <3> QED BY <3>1 DEF NoDispatch
  <2>2. CASE ~(n <= Len(s))
    <3>1. n - Len(s) \in 1 .. Len(t) /\ Len(s) + (n - Len(s)) = n BY <1>1, <2>2 DEF Joins
    <3>2. u[Len(s) + (n - Len(s))] = t[n - Len(s)] BY <1>1, <3>1 DEF Joins
    <3> QED BY <3>1, <3>2 DEF NoDispatch
  <2> QED BY <2>1, <2>2
<1>3. NoDispatch(u) BY <1>2 DEF NoDispatch
<1> QED BY <1>3 DEF u

\* What encode_effect writes before its commands needs no frame.
EncodingWrites(e) == Commands(e.writes, {}) /\ NoDispatch(e.writes)

\* A failed encoding (encode_effect) has written control rows and uniforms only.
LEMMA EncodeWrites ==
  ASSUME NEW dev, IsDevice(dev), NEW s, s \in SettingType, NEW v, IsView(v), ImageShown(dev.planes[v.at], v), NEW d
  PROVE  EncodingWrites(EncodeEffect(s, v, d))
<1>1. \A p \in Planes : dev.planes[v.at][p] = Input(p, v.image) BY DEF ImageShown
<1>2. v.at \in {0, 1} /\ v.height \in Nat BY DEF IsView
<1> DEFINE e == EncodeEffect(s, v, d)
<1>3. Delivers(dev, s, v, d, EncodeEffect(s, v, d)) BY <1>1, <1>2, EncodeDelivers
<1> HIDE DEF e
<1>4. Delivers(dev, s, v, d, e) BY <1>3 DEF e
<1>5. Commands(e.writes, {}) BY <1>4 DEF Delivers
<1>6. NoDispatch(e.writes) BY <1>5, WritesAreNoDispatch
<1>7. EncodingWrites(e) BY <1>5, <1>6 DEF EncodingWrites
<1> QED BY <1>7 DEF e

-----------------------------------------------------------------------------
(* What the invariant says of a state                                      *)

\* The call is one of the clip's, its views are the runner's, and what is
\* submitted can be executed.
Ready ==
  /\ setting \in SettingType /\ setting \in Settings /\ draw \in Draws /\ frame_num \in 0 .. LastFrame
  /\ ViewsOK(Views, setting, frame_num) /\ Places(uploaded)
  /\ IsDevice(DeviceNow) /\ IsDevice(After) /\ RightSoFar(After)
  /\ Commands(queue, {0, 1}) /\ IsList(queue) /\ IsList(staged)

\* The invariant says so.
LEMMA InvReady == IInv => Ready
<1> SUFFICES ASSUME IInv PROVE Ready OBVIOUS
<1>1. setting \in SettingType /\ setting \in Settings /\ draw \in Draws /\ frame_num \in 0 .. LastFrame
  BY SettingsAssumption DEF IInv, HostInv
<1>2. GpuViews(setting, frame_num) = Views BY DEF Views
<1>3. ViewsOK(GpuViews(setting, frame_num), setting, frame_num) BY <1>1, GpuViewsAre
<1>4. Places(uploaded) BY DEF IInv, HostInv, Places
<1>5. IsDevice(DeviceNow) /\ Commands(queue, uploaded) /\ Commands(staged, uploaded) BY DEF IInv, DeviceInv
<1>6. Commands(queue, {0, 1}) BY <1>4, <1>5, CommandsFor DEF Places
<1>7. IsDevice(Run(DeviceNow, queue)) BY <1>5, <1>6, RunIsDevice
<1>8. RightSoFar(After) BY DEF IInv, DeviceInv, RightSoFar
<1>9. IsList(queue) /\ IsList(staged) BY <1>5 DEF Commands
<1>10. IsDevice(After) BY <1>7 DEF After
<1>11. ViewsOK(Views, setting, frame_num) BY <1>2, <1>3
<1> QED BY <1>1, <1>4, <1>5, <1>6, <1>8, <1>9, <1>10, <1>11 DEF Ready

\* The next view is the one behind those submitted.
NextView(v, k) ==
  /\ k \in Nat /\ k + 1 \in 1 .. Len(Views) /\ v = Views[k + 1] /\ IsView(v) /\ k = Len(Views) - Len(todo)
  /\ Len(Views) \in {1, 2} /\ IsList(todo)

\* The views are submitted in their order.
LEMMA HeadIsNext ==
  ASSUME IInv, todo # <<>>
  PROVE  NextView(Head(todo), Len(Views) - Len(todo))
<1> DEFINE k == Len(Views) - Len(todo)
           l == todo
           w == Views
<1>1. Rest(w, l) BY DEF IInv, HostInv
<1>2. Ready BY InvReady
<1>3. /\ Len(w) \in {1, 2}
      /\ \A n \in 1 .. Len(w) : w[n].at \in {0, 1} /\ w[n].height \in Nat
  BY <1>2 DEF Ready, ViewsOK
<1> HIDE DEF w
<1>4. /\ IsList(l) /\ Len(l) <= Len(w)
      /\ \A n \in 1 .. Len(l) : l[n] = w[Len(w) - Len(l) + n]
  BY <1>1 DEF Rest
<1>5. Len(l) \in Nat /\ Len(l) # 0 /\ Head(l) = l[1]
  <2>1. PICK X : l \in Seq(X) BY <1>4 DEF IsList
  <2> QED BY <2>1
<1> DEFINE m == Len(w) - Len(l)
<1>6. m \in Nat /\ m + 1 \in 1 .. Len(w) /\ 1 \in 1 .. Len(l) BY <1>3, <1>4, <1>5
<1>7. Head(l) = w[m + 1] BY <1>4, <1>5, <1>6
<1> HIDE DEF m
<1>8. IsView(Head(l)) BY <1>3, <1>6, <1>7 DEF IsView
<1>9. m = Len(w) - Len(l) BY DEF m
<1> HIDE DEF l
<1> QED BY <1>3, <1>4, <1>6, <1>7, <1>8, <1>9 DEF NextView, l, w

-----------------------------------------------------------------------------
(* The steps of the device                                                 *)

\* Executing a command takes it off the queue, and does to the device what Apply says.
Executes(c) ==
  /\ planes' = Apply(DeviceNow, c).planes /\ data' = Apply(DeviceNow, c).data
  /\ params' = Apply(DeviceNow, c).params
  /\ queue' = Tail(queue) /\ queue # <<>>
  /\ UNCHANGED <<host, staged>>

\* Each action of the device is the execution of a command.
LEMMA DeviceExecutes == ASSUME Device PROVE Executes(Head(queue))
<1> DEFINE c == Head(queue)
           a == Apply(DeviceNow, c)
<1>1. DeviceNow.planes = planes /\ DeviceNow.data = data /\ DeviceNow.params = params BY DEF DeviceNow
<1>2. /\ a.planes = IF c.op \in OnFrame
                    THEN [planes EXCEPT ![c.at] = FrameAfter(planes[c.at], DeviceNow, c)] ELSE planes
      /\ a.data = IF c.op = "write_data" THEN DataAfter(data, c) ELSE data
      /\ a.params = IF c.op = "write_params" THEN [params EXCEPT ![c.slot] = c.values] ELSE params
  BY <1>1 DEF Apply
<1>3. UniformsFor(DeviceNow.params, c) = UniformsFor(params, c) /\ RowsFor(DeviceNow.data, c) = RowsFor(data, c)
  BY <1>1
<1> HIDE DEF a
<1>4. CASE ExecuteWriteData
  <2>1. /\ c.op = "write_data" /\ queue' = Tail(queue) /\ queue # <<>>
        /\ data' = DataAfter(data, c) /\ planes' = planes /\ params' = params /\ UNCHANGED <<host, staged>>
    BY <1>4 DEF ExecuteWriteData, Step, DataAfter
  <2> HIDE DEF c
  <2>2. a.planes = planes /\ a.data = DataAfter(data, c) /\ a.params = params BY <1>2, <2>1 DEF OnFrame
  <2> QED BY <2>1, <2>2 DEF Executes, a, c
<1>5. CASE ExecuteWriteParams
  <2>1. /\ c.op = "write_params" /\ queue' = Tail(queue) /\ queue # <<>>
        /\ params' = [params EXCEPT ![c.slot] = c.values] /\ planes' = planes /\ data' = data
        /\ UNCHANGED <<host, staged>>
    BY <1>5 DEF ExecuteWriteParams, Step
  <2> HIDE DEF c
  <2>2. a.planes = planes /\ a.data = data /\ a.params = [params EXCEPT ![c.slot] = c.values]
    BY <1>2, <2>1 DEF OnFrame
  <2> QED BY <2>1, <2>2 DEF Executes, a, c
<1>6. ASSUME NEW b, c.op \in OnFrame, b = FrameAfter(planes[c.at], DeviceNow, c),
             planes' = [planes EXCEPT ![c.at] = b], data' = data, params' = params,
             queue' = Tail(queue), queue # <<>>, UNCHANGED <<host, staged>>
      PROVE  Executes(c)
  <2> HIDE DEF c
  <2>1. c.op # "write_data" /\ c.op # "write_params" BY <1>6 DEF OnFrame
  <2>2. a.planes = planes' /\ a.data = data /\ a.params = params BY <1>2, <1>6, <2>1
  <2> QED BY <1>6, <2>2 DEF Executes, a
<1>7. CASE ExecuteWritePlane
  <2> DEFINE b == [planes[c.at] EXCEPT ![c.plane] = c.signal]
  <2>1. /\ c.op = "write_plane" /\ planes' = [planes EXCEPT ![c.at] = b] /\ data' = data /\ params' = params
        /\ queue' = Tail(queue) /\ queue # <<>> /\ UNCHANGED <<host, staged>>
    BY <1>7 DEF ExecuteWritePlane, Step
  <2>2. b = FrameAfter(planes[c.at], DeviceNow, c) BY <2>1 DEF FrameAfter
  <2>3. c.op \in OnFrame BY <2>1 DEF OnFrame
  <2> HIDE DEF b, c
  <2> QED BY <1>6, <2>1, <2>2, <2>3 DEF c
<1>8. CASE ExecuteCopy
  <2> DEFINE b == [planes[c.at] EXCEPT ![c.to] = planes[c.at][c.from]]
  <2>1. /\ c.op = "copy" /\ planes' = [planes EXCEPT ![c.at] = b] /\ data' = data /\ params' = params
        /\ queue' = Tail(queue) /\ queue # <<>> /\ UNCHANGED <<host, staged>>
    BY <1>8 DEF ExecuteCopy, Step
  <2>2. b = FrameAfter(planes[c.at], DeviceNow, c) BY <2>1 DEF FrameAfter
  <2>3. c.op \in OnFrame BY <2>1 DEF OnFrame
  <2> HIDE DEF b, c
  <2> QED BY <1>6, <2>1, <2>2, <2>3 DEF c
<1>9. CASE ExecuteFilter
  <2> DEFINE b == FilterShader(c, planes[c.at])
  <2>1. /\ c.op = "filter" /\ planes' = [planes EXCEPT ![c.at] = b] /\ data' = data /\ params' = params
        /\ queue' = Tail(queue) /\ queue # <<>> /\ UNCHANGED <<host, staged>>
    BY <1>9 DEF ExecuteFilter, Step
  <2>2. b = FrameAfter(planes[c.at], DeviceNow, c) BY <2>1 DEF FrameAfter
  <2>3. c.op \in OnFrame BY <2>1 DEF OnFrame
  <2> HIDE DEF b, c
  <2> QED BY <1>6, <2>1, <2>2, <2>3 DEF c
<1>10. CASE ExecuteDispatch
  <2> DEFINE b == Shader(c, UniformsFor(params, c), RowsFor(data, c), planes[c.at])
  <2>1. /\ c.op = "dispatch" /\ planes' = [planes EXCEPT ![c.at] = b] /\ data' = data /\ params' = params
        /\ queue' = Tail(queue) /\ queue # <<>> /\ UNCHANGED <<host, staged>>
    BY <1>10 DEF ExecuteDispatch, Step, RowsRead, RowsFor, UniformsFor
  <2>2. b = FrameAfter(planes[c.at], DeviceNow, c) BY <1>3, <2>1 DEF FrameAfter
  <2>3. c.op \in OnFrame BY <2>1 DEF OnFrame
  <2> HIDE DEF b, c
  <2> QED BY <1>6, <2>1, <2>2, <2>3 DEF c
<1> QED BY <1>4, <1>5, <1>7, <1>8, <1>9, <1>10 DEF Device

\* The next command can be executed, a dispatch reads what it was encoded for,
\* and the others are executed after it.
NextCommand(c, t) ==
  /\ CommandOK(c, {0, 1}) /\ Commands(t, uploaded)
  /\ RightSoFar(Apply(DeviceNow, c)) /\ After = Run(Apply(DeviceNow, c), t)

\* It follows from what the device will hold in the end.
LEMMA HeadIsNextCommand ==
  ASSUME IInv, queue # <<>>
  PROVE  NextCommand(Head(queue), Tail(queue))
<1> DEFINE c == Head(queue)
           t == Tail(queue)
           a == Apply(DeviceNow, c)
<1>1. Ready BY InvReady
<1>2. Commands(queue, uploaded) BY DEF IInv, DeviceInv
<1>3. Commands(queue, {0, 1}) /\ IsDevice(DeviceNow) /\ RightSoFar(After) /\ Places(uploaded) BY <1>1 DEF Ready
<1>4. Commands(t, uploaded) BY <1>2, CommandsTail
<1>5. CommandOK(c, {0, 1}) /\ Commands(t, {0, 1}) /\ queue = <<c>> \o t BY <1>3, CommandsTail
<1>6. IsList(<<c>>) /\ IsList(t) BY <1>5, ShortLists DEF Commands
<1>7. Run(DeviceNow, <<c>>) = a BY RunOne
<1> HIDE DEF c, t
<1>8. Run(DeviceNow, <<c>> \o t) = Run(Run(DeviceNow, <<c>>), t) BY <1>6, RunConcat
<1>9. After = Run(a, t) BY <1>5, <1>7, <1>8 DEF After
<1>10. IsDevice(a) BY <1>3, <1>5, ApplyIsDevice
<1> HIDE DEF a
<1>11. Run(a, t).ok BY <1>3, <1>9 DEF RightSoFar
<1>12. a.ok BY <1>5, <1>10, <1>11, RunOk
<1>13. RightSoFar(a) BY <1>12 DEF RightSoFar
<1> QED BY <1>4, <1>5, <1>9, <1>13 DEF NextCommand, a, c, t

\* A step of the device does not change what it will have done in the end.
LEMMA DeviceKeepsInv == ASSUME IInv, Device PROVE IInv'
<1> DEFINE c == Head(queue)
           t == Tail(queue)
           a == Apply(DeviceNow, c)
<1>1. Executes(c) BY DeviceExecutes
<1>2. queue # <<>> BY <1>1 DEF Executes
<1>3. NextCommand(c, t) BY <1>2, HeadIsNextCommand
<1>4. CommandOK(c, {0, 1}) /\ Commands(t, uploaded) /\ RightSoFar(a) /\ After = Run(a, t)
  BY <1>3 DEF NextCommand
<1>5. IsDevice(DeviceNow) BY DEF IInv, DeviceInv
<1> HIDE DEF c
<1>6. IsDevice(a) BY <1>4, <1>5, ApplyIsDevice
<1> HIDE DEF a
<1>7. DeviceNow' = a
  <2>1. a = [planes |-> a.planes, data |-> a.data, params |-> a.params, ok |-> a.ok] BY <1>6 DEF IsDevice
  <2>2. a.ok = TRUE BY <1>4, <1>6 DEF RightSoFar, IsDevice
  <2>3. planes' = a.planes /\ data' = a.data /\ params' = a.params BY <1>1 DEF Executes, a
  <2> QED BY <2>1, <2>2, <2>3 DEF DeviceNow
<1>8. queue' = t BY <1>1 DEF Executes
<1>9. After' = After BY <1>4, <1>7, <1>8 DEF After
<1>10. /\ setting' = setting /\ draw' = draw /\ frame_num' = frame_num /\ status' = status
       /\ todo' = todo /\ uploaded' = uploaded /\ staged' = staged
  BY <1>1 DEF Executes, host
<1>11. Views' = Views BY <1>10 DEF Views
<1>12. Submitted' = Submitted BY <1>10, <1>11 DEF Submitted
<1>13. HostInv'
  <2>1. status # "done" BY <1>2 DEF IInv, HostInv
  <2> QED BY <1>10, <1>11, <1>12, <2>1 DEF IInv, HostInv
<1>14. DeviceInv'
  <2>1. Commands(staged, uploaded) /\ NoDispatch(staged) /\ After.ok BY DEF IInv, DeviceInv
  <2>2. IsDevice(DeviceNow') BY <1>6, <1>7
  <2>3. Commands(queue', uploaded') BY <1>4, <1>8, <1>10
  <2> QED BY <1>9, <1>10, <2>1, <2>2, <2>3 DEF DeviceInv
<1>15. FieldsInv' BY <1>9, <1>10, <1>11, <1>12 DEF IInv, FieldsInv
<1> QED BY <1>13, <1>14, <1>15 DEF IInv

-----------------------------------------------------------------------------
(* The steps of the host                                                   *)

\* Before the first call nothing is submitted.
LEMMA InitInv == ASSUME Init PROVE IInv
<1>1. setting \in Settings /\ draw \in Draws /\ frame_num = 0 /\ status = "encoding" /\ uploaded = {}
      /\ todo = Views /\ staged = <<>> /\ queue = <<>>
  BY DEF Init, Views
<1>2. setting \in SettingType BY <1>1, SettingsAssumption
<1>3. ViewsOK(Views, setting, frame_num)
  <2>1. ViewsOK(GpuViews(setting, frame_num), setting, frame_num) BY <1>2, GpuViewsAre
  <2> QED BY <2>1 DEF Views
<1>4. Len(Views) \in {1, 2} /\ IsList(Views) BY <1>3 DEF ViewsOK
<1>5. Rest(Views, todo) BY <1>1, <1>4 DEF Rest
<1>6. Submitted = {} BY <1>1, <1>4 DEF Submitted
<1>7. 0 \in 0 .. LastFrame BY LastFrameAssumption
<1>8. HostInv BY <1>1, <1>5, <1>6, <1>7 DEF HostInv
<1>9. IsDevice(DeviceNow)
  <2>1. planes = [at \in {0, 1} |-> planes[at]] /\ \A at \in {0, 1} : IsFrame(planes[at]) BY DEF Init, IsFrame
  <2>2. IsList(data) BY ShortLists DEF Init
  <2>3. params = [n \in 1 .. RingSize |-> params[n]] BY DEF Init
  <2> QED BY <2>1, <2>2, <2>3 DEF DeviceNow, IsDevice
<1>10. After = DeviceNow
  <2>1. Run(DeviceNow, <<>>) = DeviceNow BY RunNone
  <2> QED BY <1>1, <2>1 DEF After
<1>11. DeviceInv
  <2>1. Commands(<<>>, uploaded) BY CommandsShort
  <2>2. NoDispatch(staged) BY <1>1 DEF NoDispatch
  <2>3. After.ok BY <1>10 DEF DeviceNow
  <2> QED BY <1>1, <1>9, <2>1, <2>2, <2>3 DEF DeviceInv
<1>12. FieldsInv BY <1>1, <1>6 DEF FieldsInv
<1> QED BY <1>8, <1>11, <1>12 DEF IInv

\* A view's buffers are created where the runner has none.
LEMMA CreateFrameCreates ==
  ASSUME NEW v, CreateFrame(v), data' = data, params' = params
  PROVE  DeviceNow' = Created(DeviceNow, uploaded, v) /\ uploaded' = uploaded \cup {v.at}
<1>1. uploaded' = uploaded \cup {v.at} BY DEF CreateFrame
<1>2. planes' = IF v.at \in uploaded THEN planes ELSE [planes EXCEPT ![v.at] = Loaded(v)]
  BY DEF CreateFrame, Loaded
<1>3. CASE v.at \in uploaded BY <1>1, <1>2, <1>3 DEF Created, DeviceNow
<1>4. CASE v.at \notin uploaded BY <1>1, <1>2, <1>4 DEF Created, DeviceNow, WithFrame
<1> QED BY <1>1, <1>3, <1>4

\* Nothing more is known of a call that failed than that what is submitted can be executed.
LEMMA FailKeepsInv == ASSUME IInv, FailEncoding PROVE IInv'
<1> DEFINE v == Head(todo)
           e == EncodeEffect(setting, v, draw)
           up == Uploads(uploaded, v)
           k == Len(Views) - Len(todo)
           bts == uploaded \cup {v.at}
           r == Run(Run(Created(DeviceNow, uploaded, v), staged), up)
<1>1. /\ todo # <<>> /\ CreateFrame(v) /\ staged' = staged \o up \o e.writes /\ status' = "failed"
      /\ setting' = setting /\ draw' = draw /\ frame_num' = frame_num /\ todo' = todo
      /\ queue' = queue /\ data' = data /\ params' = params
  BY DEF FailEncoding, Upload, Uploads, WritePlanes
<1>2. Ready BY InvReady
<1>3. NextView(v, k) BY <1>1, HeadIsNext
<1>4. IsView(v) /\ v.at \in {0, 1} BY <1>3 DEF NextView, IsView
<1>5. DeviceNow' = Created(DeviceNow, uploaded, v) /\ uploaded' = bts BY <1>1, CreateFrameCreates
<1>6. Commands(queue, uploaded) /\ Commands(staged, uploaded) /\ NoDispatch(staged) /\ After.ok
  BY DEF IInv, DeviceInv
<1>7. /\ IsDevice(DeviceNow) /\ RightSoFar(DeviceNow) /\ Places(uploaded) /\ setting \in SettingType
      /\ IsDevice(After)
  BY <1>2 DEF Ready, RightSoFar, DeviceNow
<1> HIDE DEF v
<1>8. CreatesBefore(DeviceNow, uploaded, v, queue) BY <1>4, <1>6, <1>7, CreatedRuns
<1>9. IsDevice(DeviceNow') /\ After' = Created(After, uploaded, v)
  BY <1>1, <1>5, <1>8 DEF CreatesBefore, After
<1>10. After'.ok BY <1>6, <1>9 DEF Created, WithFrame
<1>11. UploadsLoad(DeviceNow, uploaded, staged, v) BY <1>4, <1>6, <1>7, UploadLoads
<1>12. Commands(up, {v.at}) /\ NoDispatch(up) /\ IsDevice(r) /\ ImageShown(r.planes[v.at], v)
  BY <1>11 DEF UploadsLoad
<1> HIDE DEF r
<1>13. EncodingWrites(EncodeEffect(setting, v, draw)) BY <1>4, <1>7, <1>12, EncodeWrites
<1>14. Commands(e.writes, {}) /\ NoDispatch(e.writes) BY <1>13 DEF EncodingWrites
<1> HIDE DEF e, up
<1>15. Commands(staged, bts) /\ Commands(up, bts) /\ Commands(e.writes, bts) /\ Commands(queue, bts)
  <2>1. uploaded \subseteq bts /\ {v.at} \subseteq bts /\ {} \subseteq bts OBVIOUS
  <2> HIDE DEF bts
  <2> QED BY <1>6, <1>12, <1>14, <2>1, CommandsFor
<1>16. Commands(staged \o up \o e.writes, bts) /\ NoDispatch(staged \o up \o e.writes)
  <2> DEFINE su == staged \o up
             w == e.writes
  <2>1. IsList(staged) /\ IsList(up) /\ IsList(w) BY <1>15 DEF Commands
  <2>2. Commands(su, bts) BY <1>15, CommandsConcat
  <2>3. NoDispatch(su) BY <1>6, <1>12, <2>1, NoDispatchConcat
  <2>4. IsList(su) BY <2>2 DEF Commands
  <2>5. Commands(w, bts) /\ NoDispatch(w) BY <1>14, <1>15
  <2> HIDE DEF su, w, bts
  <2>6. Commands(su \o w, bts) BY <2>2, <2>5, CommandsConcat
  <2>7. NoDispatch(su \o w) BY <2>1, <2>3, <2>4, <2>5, NoDispatchConcat
  <2> QED BY <2>6, <2>7 DEF su, w
<1>17. DeviceInv' BY <1>1, <1>5, <1>9, <1>10, <1>15, <1>16 DEF DeviceInv
<1>18. HostInv'
  <2>1. Views' = Views BY <1>1 DEF Views
  <2>2. uploaded' \subseteq {0, 1} BY <1>4, <1>5, <1>7 DEF Places
  <2>3. setting \in Settings /\ draw \in Draws /\ frame_num \in 0 .. LastFrame /\ Rest(Views, todo)
    BY DEF IInv, HostInv
  <2> QED BY <1>1, <2>1, <2>2, <2>3 DEF HostInv
<1>19. FieldsInv' BY <1>1 DEF FieldsInv
<1> QED BY <1>17, <1>18, <1>19 DEF IInv

\* When the poll returns, what will be delivered has been delivered.
LEMMA FinishKeepsInv == ASSUME IInv, Finish PROVE IInv'
<1>1. /\ status = "waiting" /\ status' = "done" /\ queue = <<>> /\ queue' = queue
      /\ setting' = setting /\ draw' = draw /\ frame_num' = frame_num /\ todo' = todo
      /\ uploaded' = uploaded /\ staged' = staged /\ planes' = planes /\ data' = data /\ params' = params
  BY DEF Finish, device
<1>2. DeviceNow' = DeviceNow BY <1>1 DEF DeviceNow
<1>3. After' = After BY <1>1, <1>2 DEF After
<1>4. Views' = Views BY <1>1 DEF Views
<1>5. HostInv' BY <1>1, <1>4 DEF IInv, HostInv
<1>6. DeviceInv' BY <1>1, <1>2, <1>3 DEF IInv, DeviceInv
<1>7. FieldsInv' BY <1>1, <1>3, <1>4 DEF IInv, FieldsInv
<1> QED BY <1>5, <1>6, <1>7 DEF IInv

\* The next frame starts with nothing submitted, whatever the device still has to do.
LEMMA NextFrameKeepsInv == ASSUME IInv, NextFrame PROVE IInv'
<1>1. /\ frame_num < LastFrame /\ frame_num' = frame_num + 1 /\ draw' \in Draws
      /\ status' = "encoding" /\ queue' = queue /\ setting' = setting
      /\ uploaded' = uploaded /\ staged' = staged /\ planes' = planes /\ data' = data /\ params' = params
  BY DEF NextFrame, device
<1>2. todo' = Views' BY DEF NextFrame, Views
<1>3. DeviceNow' = DeviceNow BY <1>1 DEF DeviceNow
<1>4. After' = After BY <1>1, <1>3 DEF After
<1>5. Ready BY InvReady
<1>6. setting \in SettingType /\ setting \in Settings /\ frame_num \in 0 .. LastFrame BY <1>5 DEF Ready
<1>7. ViewsOK(Views', setting, frame_num + 1)
  <2>1. ViewsOK(GpuViews(setting, frame_num + 1), setting, frame_num + 1) BY <1>6, GpuViewsAre
  <2> QED BY <1>1, <2>1 DEF Views
<1> DEFINE w == Views'
<1>8. Len(w) \in {1, 2} /\ IsList(w) BY <1>7 DEF ViewsOK
<1> HIDE DEF w
<1>9. Rest(w, w) BY <1>8 DEF Rest
<1>10. 1 .. Len(w) - Len(w) = {} BY <1>8
<1>11. Rest(Views', todo') /\ Submitted' = {} BY <1>2, <1>9, <1>10 DEF w, Submitted
<1>12. frame_num' \in 0 .. LastFrame BY <1>1, <1>6, LastFrameAssumption
<1>13. HostInv'
  <2>1. uploaded \subseteq {0, 1} BY DEF IInv, HostInv
  <2> QED BY <1>1, <1>6, <1>11, <1>12, <2>1 DEF HostInv
<1>14. DeviceInv' BY <1>1, <1>3, <1>4 DEF IInv, DeviceInv
<1>15. FieldsInv' BY <1>1, <1>11 DEF FieldsInv
<1> QED BY <1>13, <1>14, <1>15 DEF IInv

\* What is read back of a field is delivered, and another frame is left alone.
ReadsBack(dev, s, v, d) ==
  LET r == Run(dev, Readback(s, v.at))
  IN /\ Commands(Readback(s, v.at), {v.at}) /\ IsDevice(r) /\ r.ok = dev.ok
     /\ DeliveredIn(r.planes[v.at], s, v, d)
     /\ \A at \in {0, 1} : at # v.at => r.planes[at] = dev.planes[at]

\* It is delivered (enqueue_downloads, enqueue_rgba8_downloads).
LEMMA ReadbackReadsBack ==
  ASSUME NEW dev, IsDevice(dev), NEW s, NEW v, IsView(v), NEW d, FieldShown(dev.planes[v.at], s, v, d)
  PROVE  ReadsBack(dev, s, v, d)
<1> DEFINE at == v.at
           l == Readback(s, at)
           r == Run(dev, l)
<1>1. at \in {0, 1} BY DEF IsView
<1>a. ReadInto(dev, s, v, d) BY ReadbackDelivers
<1>2. Commands(l, {at}) /\ r.ok = dev.ok /\ DeliveredIn(r.planes[at], s, v, d) BY <1>a DEF ReadInto
<1> HIDE DEF at, l
<1>3. {at} \subseteq {0, 1} BY <1>1
<1>4. Commands(l, {0, 1}) BY <1>2, <1>3, CommandsFor
<1>5. IsDevice(r) BY <1>4, RunIsDevice
<1>6. ASSUME NEW a, a \in {0, 1}, a # at PROVE r.planes[a] = dev.planes[a]
  <2>1. Elsewhere(a, {at}) BY <1>1, <1>6 DEF Elsewhere
  <2> QED BY <1>2, <2>1, RunKeepsFrame
<1> QED BY <1>2, <1>5, <1>6 DEF ReadsBack, r, l, at

\* The fields of a frame are read back by one submission.
LEMMA DownloadsKeepInv == ASSUME IInv, SubmitDownloads PROVE IInv'
<1> DEFINE R(v) == Readback(setting, v.at)
           w == Views
           l == Len(Views)
           q == (queue \o staged) \o R(w[1])
           q2 == R(w[2])
<1>1. /\ status = "encoding" /\ status' = "waiting" /\ todo = <<>>
      /\ setting' = setting /\ draw' = draw /\ frame_num' = frame_num /\ todo' = todo
      /\ uploaded' = uploaded /\ staged' = <<>> /\ planes' = planes /\ data' = data /\ params' = params
  BY DEF SubmitDownloads, device
<1>2. queue' = q \o When(l > 1, q2) BY DEF SubmitDownloads, Readback, Views
<1>3. Ready BY InvReady
<1>4. ViewsOK(Views, setting, frame_num) /\ IsDevice(After) /\ RightSoFar(After) /\ IsList(queue) /\ Places(uploaded)
  BY <1>3 DEF Ready
<1>5. /\ l \in {1, 2} /\ \A n \in 1 .. l : IsView(w[n])
      /\ l = 2 => w[1].at = 0 /\ w[2].at = 1
  BY <1>4 DEF ViewsOK, IsView
<1>6. Submitted = 1 .. l BY <1>1, <1>5 DEF Submitted
<1>7. staged = <<>>
  <2>1. 1 \in Submitted BY <1>5, <1>6
  <2> QED BY <1>1, <2>1 DEF IInv, HostInv
<1>8. \A n \in 1 .. l : w[n].at \in uploaded /\ FieldShown(After.planes[w[n].at], setting, w[n], draw)
  BY <1>1, <1>6 DEF IInv, FieldsInv
<1>9. IsView(w[1]) /\ w[1].at \in uploaded /\ FieldShown(After.planes[w[1].at], setting, w[1], draw)
  <2>1. 1 \in 1 .. l BY <1>5
  <2> QED BY <1>5, <1>8, <2>1
<1> DEFINE v1 == w[1]
           v2 == w[2]
           a == Run(After, R(v1))
           b == Run(a, R(v2))
<1>10. ReadsBack(After, setting, v1, draw) BY <1>4, <1>9, ReadbackReadsBack
<1>11. /\ Commands(R(v1), {v1.at}) /\ IsDevice(a) /\ a.ok = After.ok /\ DeliveredIn(a.planes[v1.at], setting, v1, draw)
       /\ \A at \in {0, 1} : at # v1.at => a.planes[at] = After.planes[at]
  BY <1>10 DEF ReadsBack
<1>12. Commands(queue, uploaded) BY DEF IInv, DeviceInv
<1>13. Commands(R(v1), uploaded)
  <2>1. {v1.at} \subseteq uploaded BY <1>9
  <2> HIDE DEF v1, R
  <2> QED BY <1>11, <2>1, CommandsFor
<1>14. IsList(R(v1)) BY <1>13 DEF Commands
<1>15. queue \o staged = queue
  <2>1. queue = queue \o <<>> BY <1>4, ConcatNone
  <2> QED BY <1>7, <2>1
<1> DEFINE r1 == R(v1)
           r2 == R(v2)
<1>16. q = queue \o r1 BY <1>15
<1> HIDE DEF r1, v1, w, R, l, q, q2
<1>17. Commands(q, uploaded) /\ IsList(q)
  <2>1. Commands(queue \o r1, uploaded) BY <1>12, <1>13, CommandsConcat DEF r1
  <2> QED BY <1>16, <2>1 DEF Commands
<1>18. Run(DeviceNow, q) = a
  <2>1. Run(DeviceNow, queue \o r1) = Run(Run(DeviceNow, queue), r1) BY <1>4, <1>14, RunConcat DEF r1
  <2> QED BY <1>16, <2>1 DEF After, r1
<1>19. DeviceNow' = DeviceNow BY <1>1 DEF DeviceNow
<1>20. Views' = Views BY <1>1 DEF Views
<1>21. HostInv' BY <1>1, <1>20 DEF IInv, HostInv
<1> DEFINE Delivered == \A n \in 1 .. Len(Views) : DeliveredIn(After'.planes[Views[n].at], setting, Views[n], draw)
<1>22. Commands(queue', uploaded) /\ After'.ok /\ Delivered
  <2>1. CASE l = 1
    <3>1. When(l > 1, q2) = <<>> BY <2>1 DEF When
    <3>2. q = q \o <<>> BY <1>17, ConcatNone
    <3>3. queue' = q BY <1>2, <3>1, <3>2
    <3>4. After' = a BY <1>18, <1>19, <3>3 DEF After
    <3>5. After.ok BY <1>4 DEF RightSoFar
    <3>6. 1 .. Len(Views) = {1} /\ Views[1] = v1 BY <2>1 DEF l, v1, w
    <3> HIDE DEF a
    <3>7. Delivered
      <4>1. DeliveredIn(After'.planes[Views[1].at], setting, Views[1], draw) BY <1>11, <3>4, <3>6
      <4> QED BY <3>6, <4>1
    <3> HIDE DEF Delivered
    <3> QED BY <1>11, <1>17, <3>3, <3>4, <3>5, <3>7
  <2>2. CASE l = 2
    <3>1. When(l > 1, q2) = r2 BY <2>2 DEF When, q2, r2, v2, R, w
    <3>2. IsView(v2) /\ v2.at \in uploaded /\ FieldShown(After.planes[v2.at], setting, v2, draw)
          /\ v2.at # v1.at /\ v1.at \in {0, 1} /\ v2.at \in {0, 1}
      <4>1. 2 \in 1 .. l BY <2>2
      <4>2. v1.at = 0 /\ v2.at = 1 BY <1>5, <2>2 DEF v1
      <4> QED BY <1>5, <1>8, <4>1, <4>2
    <3> HIDE DEF v2
    <3>3. a.planes[v2.at] = After.planes[v2.at] BY <1>11, <3>2
    <3>4. FieldShown(a.planes[v2.at], setting, v2, draw) BY <3>2, <3>3
    <3> HIDE DEF a
    <3>5. ReadsBack(a, setting, v2, draw) BY <1>11, <3>2, <3>4, ReadbackReadsBack
    <3>6. /\ Commands(r2, {v2.at}) /\ b.ok = a.ok /\ DeliveredIn(b.planes[v2.at], setting, v2, draw)
          /\ \A at \in {0, 1} : at # v2.at => b.planes[at] = a.planes[at]
      BY <3>5 DEF ReadsBack, R
    <3>7. b.planes[v1.at] = a.planes[v1.at] BY <3>2, <3>6
    <3>8. DeliveredIn(b.planes[v1.at], setting, v1, draw) BY <1>11, <3>7
    <3>9. Commands(r2, uploaded)
      <4>1. {v2.at} \subseteq uploaded BY <3>2
      <4> HIDE DEF r2
      <4> QED BY <3>6, <4>1, CommandsFor
    <3>10. b = Run(a, r2) OBVIOUS
    <3> HIDE DEF b, r2
    <3>11. Commands(q \o r2, uploaded) BY <1>17, <3>9, CommandsConcat
    <3>12. IsList(r2) BY <3>9 DEF Commands
    <3>13. Run(DeviceNow, q \o r2) = Run(Run(DeviceNow, q), r2) BY <1>17, <3>12, RunConcat
    <3>14. queue' = q \o r2 BY <1>2, <3>1
    <3>15. After' = b BY <1>18, <1>19, <3>10, <3>13, <3>14 DEF After
    <3>16. After.ok BY <1>4 DEF RightSoFar
    <3>17. 1 .. Len(Views) = {1, 2} /\ Views[1] = v1 /\ Views[2] = v2 BY <2>2 DEF l, v1, v2, w
    <3>18. Delivered
      <4>1. DeliveredIn(After'.planes[Views[1].at], setting, Views[1], draw) BY <3>8, <3>15, <3>17
      <4>2. DeliveredIn(After'.planes[Views[2].at], setting, Views[2], draw) BY <3>6, <3>15, <3>17
      <4> QED BY <3>17, <4>1, <4>2
    <3> HIDE DEF Delivered
    <3>19. Commands(queue', uploaded) BY <3>11, <3>14
    <3>20. After'.ok BY <1>11, <3>6, <3>15, <3>16
    <3> QED BY <3>18, <3>19, <3>20
  <2> QED BY <1>5, <2>1, <2>2
<1>23. DeviceInv'
  <2>1. Commands(<<>>, uploaded) BY CommandsShort
  <2>2. NoDispatch(<<>>) BY DEF NoDispatch
  <2>3. IsDevice(DeviceNow') BY <1>19 DEF IInv, DeviceInv
  <2> QED BY <1>1, <1>22, <2>1, <2>2, <2>3 DEF DeviceInv
<1>24. FieldsInv' BY <1>1, <1>20, <1>22 DEF FieldsInv
<1> QED BY <1>21, <1>23, <1>24 DEF IInv

\* A field is submitted: it will be as the CPU has it, the field submitted before
\* stays as it is, and a field without a second one is read back too.
LEMMA SubmitKeepsInv == ASSUME IInv, SubmitEffect PROVE IInv'
<1> DEFINE v == Head(todo)
           e == EncodeEffect(setting, v, draw)
           up == Uploads(uploaded, v)
           k == Len(Views) - Len(todo)
           bts == uploaded \cup {v.at}
           c == Created(DeviceNow, uploaded, v)
           all == queue \o staged \o up \o e.writes \o e.commands
           a == Run(c, all)
           back == When(Combined, Download(v.at))
<1>1. /\ status = "encoding" /\ todo # <<>> /\ CreateFrame(v) /\ staged' = <<>> /\ todo' = Tail(todo)
      /\ status' = (IF Combined THEN "waiting" ELSE "encoding")
      /\ setting' = setting /\ draw' = draw /\ frame_num' = frame_num /\ data' = data /\ params' = params
  BY DEF SubmitEffect
<1>2. queue' = all \o back BY DEF SubmitEffect, Upload, Uploads, WritePlanes
<1>3. ~EncodeEffect(setting, v, draw).pending_error BY DEF SubmitEffect
<1>4. Ready BY InvReady
<1>5. NextView(v, k) BY <1>1, HeadIsNext
<1>6. /\ k \in Nat /\ k + 1 \in 1 .. Len(Views) /\ v = Views[k + 1] /\ IsView(v)
      /\ Len(Views) \in {1, 2} /\ k = Len(Views) - Len(todo) /\ IsList(todo)
  BY <1>5 DEF NextView
<1>7. v.at \in {0, 1} BY <1>6 DEF IsView
<1>8. DeviceNow' = c /\ uploaded' = bts BY <1>1, CreateFrameCreates
<1>9. Commands(queue, uploaded) /\ Commands(staged, uploaded) /\ NoDispatch(staged)
  BY DEF IInv, DeviceInv
<1>10. /\ IsDevice(DeviceNow) /\ RightSoFar(After) /\ Places(uploaded) /\ setting \in SettingType
       /\ ViewsOK(Views, setting, frame_num)
  BY <1>4 DEF Ready
<1>11. RightSoFar(Run(DeviceNow, queue)) BY <1>10 DEF After
<1> HIDE DEF v
<1>12. SubmissionDelivers(DeviceNow, uploaded, queue, staged, setting, v, draw)
  BY <1>3, <1>6, <1>9, <1>10, <1>11, SubmissionsDeliver
<1>13. /\ Commands(all, bts) /\ IsDevice(a) /\ a.ok /\ FieldShown(a.planes[v.at], setting, v, draw)
       /\ staged = <<>> => \A at \in {0, 1} : at # v.at => a.planes[at] = After.planes[at]
  BY <1>12 DEF SubmissionDelivers, After
<1>14. IsDevice(c)
  <2>1. CreatesBefore(DeviceNow, uploaded, v, queue) BY <1>6, <1>9, <1>10, CreatedRuns
  <2> QED BY <2>1 DEF CreatesBefore
<1>15. Views' = Views BY <1>1 DEF Views
<1>16. IsList(todo') /\ Len(todo') = Len(todo) - 1 /\ Len(todo) \in Nat \ {0}
       /\ \A n \in 1 .. Len(todo') : todo'[n] = todo[n + 1]
  <2>1. PICK X : todo \in Seq(X) BY <1>6 DEF IsList
  <2>2. todo' \in Seq(X) BY <1>1, <2>1
  <2> QED BY <1>1, <2>1, <2>2 DEF IsList
<1>17. Rest(Views', todo')
  <2> DEFINE l == todo
             m == todo'
             w == Views
  <2>1. Rest(w, l) BY DEF IInv, HostInv
  <2>2. Len(m) <= Len(w) BY <1>6, <1>16, <2>1 DEF Rest
  <2>3. ASSUME NEW n \in 1 .. Len(m) PROVE m[n] = w[Len(w) - Len(m) + n]
    <3>1. n + 1 \in 1 .. Len(l) /\ Len(w) - Len(l) + (n + 1) = Len(w) - Len(m) + n BY <1>6, <1>16
    <3>2. l[n + 1] = w[Len(w) - Len(l) + (n + 1)] BY <2>1, <3>1 DEF Rest
    <3>3. m[n] = l[n + 1] BY <1>16
    <3> QED BY <3>1, <3>2, <3>3
  <2>4. IsList(m) BY <1>16
  <2>5. Views' = w BY <1>15
  <2> HIDE DEF l, m, w
  <2>6. Rest(w, m) BY <2>2, <2>3, <2>4 DEF Rest
  <2> QED BY <2>5, <2>6 DEF m
<1>18. Submitted' = 1 .. k + 1
  <2>1. Len(Views') - Len(todo') = k + 1 BY <1>6, <1>15, <1>16
  <2> HIDE DEF k
  <2> QED BY <2>1 DEF Submitted
<1>19. uploaded' \subseteq {0, 1} BY <1>7, <1>8, <1>10 DEF Places
<1>20. v.at \in bts OBVIOUS
<1> HIDE DEF all, a, c, bts, k, e, up
<1>21. /\ setting \in Settings /\ draw \in Draws /\ frame_num \in 0 .. LastFrame BY <1>4 DEF Ready
<1>22. Commands(staged', uploaded') /\ NoDispatch(staged')
  <2>1. Commands(<<>>, uploaded') BY CommandsShort
  <2>2. NoDispatch(<<>>) BY DEF NoDispatch
  <2> QED BY <1>1, <2>1, <2>2
<1>23. IsList(all) BY <1>13 DEF Commands
<1>24. CASE ~Combined
  <2>1. back = <<>> BY <1>24 DEF When
  <2>2. all = all \o <<>> BY <1>23, ConcatNone
  <2>3. queue' = all BY <1>2, <2>1, <2>2
  <2>4. After' = a BY <1>8, <2>3 DEF After, a
  <2>5. status' = "encoding" BY <1>1, <1>24
  <2>6. HostInv' BY <1>1, <1>17, <1>19, <1>21, <2>5 DEF HostInv
  <2>7. DeviceInv' BY <1>8, <1>13, <1>14, <1>22, <2>3, <2>4 DEF DeviceInv
  <2>8. ASSUME NEW n \in 1 .. k + 1
        PROVE  Views[n].at \in bts /\ FieldShown(a.planes[Views[n].at], setting, Views[n], draw)
    <3>1. CASE n = k + 1 BY <1>6, <1>13, <1>20, <3>1
    <3>2. CASE n # k + 1
      <4> DEFINE m == Len(Views)
      <4>a. k \in Nat /\ k + 1 \in 1 .. m /\ m \in {1, 2} BY <1>6
      <4>b. n \in 1 .. k + 1 BY <2>8
      <4> HIDE DEF m
      <4>c. k \in {0, 1} BY <4>a
      <4>d. k = 1 /\ n = 1 BY <3>2, <4>b, <4>c
      <4>e. m = 2 BY <4>a, <4>d
      <4>1. n = 1 /\ k = 1 /\ Len(Views) = 2 BY <4>d, <4>e DEF m
      <4>2. Views[n].at = 0 /\ v.at = 1 BY <1>6, <1>10, <4>1 DEF ViewsOK
      <4>3. n \in Submitted BY <4>1 DEF Submitted, k
      <4>4. staged = <<>> BY <1>1, <4>3 DEF IInv, HostInv
      <4>5. Views[n].at \in uploaded /\ FieldShown(After.planes[Views[n].at], setting, Views[n], draw)
        BY <1>1, <4>3 DEF IInv, FieldsInv
      <4>6. 0 \in {0, 1} /\ 0 # v.at BY <4>2
      <4>7. a.planes[0] = After.planes[0] BY <1>13, <4>4, <4>6
      <4>8. FieldShown(a.planes[Views[n].at], setting, Views[n], draw)
        <5>1. a.planes[Views[n].at] = After.planes[Views[n].at] BY <4>2, <4>7
        <5> QED BY <4>5, <5>1
      <4>9. Views[n].at \in bts BY <4>5 DEF bts
      <4> QED BY <4>8, <4>9
    <3> QED BY <3>1, <3>2
  <2>9. FieldsInv' BY <1>1, <1>8, <1>15, <1>18, <2>4, <2>5, <2>8 DEF FieldsInv
  <2> QED BY <2>6, <2>7, <2>9 DEF IInv
<1>25. CASE Combined
  <2>1. setting.output = "yiq" /\ \A n \in DOMAIN Views : Views[n].at = 0 BY <1>25 DEF Combined, Views
  <2>2. Len(Views) = 1
    <3>1. SUFFICES ASSUME Len(Views) = 2 PROVE FALSE BY <1>6
    <3>2. Views[2].at = 1 BY <1>10, <3>1 DEF ViewsOK
    <3>3. 2 \in DOMAIN Views
      <4>1. DOMAIN Views = 1 .. Len(Views) BY <1>10 DEF ViewsOK, IsList
      <4> QED BY <3>1, <4>1
    <3> QED BY <2>1, <3>2, <3>3
  <2>3. k = 0 /\ Len(todo') = 0 BY <1>6, <1>16, <2>2
  <2>4. todo' = <<>> BY <1>16, <2>3 DEF IsList
  <2> DEFINE l == Readback(setting, v.at)
             r == Run(a, l)
  <2>5. back = l BY <1>25, <2>1 DEF When, Readback
  <2>6. ReadsBack(a, setting, v, draw) BY <1>6, <1>13, ReadbackReadsBack
  <2>7. Commands(l, {v.at}) /\ r.ok = a.ok /\ DeliveredIn(r.planes[v.at], setting, v, draw)
    BY <2>6 DEF ReadsBack
  <2> HIDE DEF l, back
  <2>8. Commands(l, bts)
    <3>1. {v.at} \subseteq bts BY <1>20
    <3> QED BY <2>7, <3>1, CommandsFor
  <2>9. queue' = all \o l BY <1>2, <2>5
  <2>10. Commands(queue', uploaded')
    <3>1. Commands(all \o l, bts) BY <1>13, <2>8, CommandsConcat
    <3> QED BY <1>8, <2>9, <3>1
  <2>11. After' = r
    <3>1. IsList(l) BY <2>8 DEF Commands
    <3>2. Run(c, all \o l) = Run(Run(c, all), l) BY <1>23, <3>1, RunConcat
    <3> QED BY <1>8, <2>9, <3>2 DEF After, a
  <2> HIDE DEF r
  <2>12. status' = "waiting" BY <1>1, <1>25
  <2>13. HostInv' BY <1>1, <1>17, <1>19, <1>21, <2>4, <2>12 DEF HostInv
  <2>14. After'.ok BY <1>13, <2>7, <2>11
  <2>15. DeviceInv' BY <1>8, <1>14, <1>22, <2>10, <2>14 DEF DeviceInv
  <2>16. ASSUME NEW n \in 1 .. Len(Views) PROVE DeliveredIn(After'.planes[Views[n].at], setting, Views[n], draw)
    <3>1. Views[n] = v BY <1>6, <2>2, <2>3, <2>16
    <3> QED BY <2>7, <2>11, <3>1
  <2>17. FieldsInv' BY <1>1, <1>15, <2>12, <2>16 DEF FieldsInv
  <2> QED BY <2>13, <2>15, <2>17 DEF IInv
<1> QED BY <1>24, <1>25

-----------------------------------------------------------------------------
(* The theorems                                                            *)

\* The invariant holds at first, and every step keeps it.
LEMMA NextInv == ASSUME IInv, [Next]_vars PROVE IInv'
<1>1. CASE SubmitEffect BY <1>1, SubmitKeepsInv
<1>2. CASE FailEncoding BY <1>2, FailKeepsInv
<1>3. CASE SubmitDownloads BY <1>3, DownloadsKeepInv
<1>4. CASE Finish BY <1>4, FinishKeepsInv
<1>5. CASE NextFrame BY <1>5, NextFrameKeepsInv
<1>6. CASE Device BY <1>6, DeviceKeepsInv
<1>7. CASE UNCHANGED vars
  <2>1. /\ setting' = setting /\ draw' = draw /\ frame_num' = frame_num /\ status' = status
        /\ todo' = todo /\ uploaded' = uploaded /\ staged' = staged /\ queue' = queue
        /\ planes' = planes /\ data' = data /\ params' = params
    BY <1>7 DEF vars, host, device
  <2>2. DeviceNow' = DeviceNow /\ Views' = Views BY <2>1 DEF DeviceNow, Views
  <2>3. After' = After BY <2>1, <2>2 DEF After
  <2>4. Submitted' = Submitted BY <2>1, <2>2 DEF Submitted
  <2> QED BY <2>1, <2>2, <2>3, <2>4 DEF IInv, HostInv, DeviceInv, FieldsInv
<1> QED BY <1>1, <1>2, <1>3, <1>4, <1>5, <1>6, <1>7 DEF Next, Host

\* In every state that can be reached, what is submitted will do what the call promises.
THEOREM Invariant == Spec => []IInv
<1>1. Init => IInv BY InitInv
<1>2. IInv /\ [Next]_vars => IInv' BY NextInv
<1> QED BY <1>1, <1>2, PTL DEF Spec

\* The runner's state and its commands are well formed for any settings: no
\* command uses a frame that was not uploaded, no dispatch a uniform outside the
\* ring of parameters (get_params_bind_group).
THEOREM TypeCorrect == Spec => []TypeOK
<1>1. IInv => TypeOK
  <2> SUFFICES ASSUME IInv PROVE TypeOK OBVIOUS
  <2>1. Ready BY InvReady
  <2>2. IsDevice(DeviceNow) /\ ViewsOK(Views, setting, frame_num) BY <2>1 DEF Ready
  <2>3. DOMAIN planes = {0, 1} /\ \A at \in {0, 1} : IsFrame(planes[at]) BY <2>2 DEF IsDevice, DeviceNow
  <2>4. \A at \in {0, 1} : DOMAIN planes[at] = BufferNames BY <2>3 DEF IsFrame
  <2>5. DOMAIN params = 1 .. RingSize BY <2>2 DEF IsDevice, DeviceNow
  <2>6. \A n \in DOMAIN todo : todo[n].at \in {0, 1}
    <3> DEFINE l == todo
               w == Views
    <3>1. Rest(w, l) BY DEF IInv, HostInv
    <3>2. DOMAIN l = 1 .. Len(l) /\ Len(l) \in Nat BY <3>1 DEF Rest, IsList
    <3>3. Len(w) \in {1, 2} /\ \A n \in 1 .. Len(w) : w[n].at \in {0, 1} BY <2>2 DEF ViewsOK
    <3> HIDE DEF l, w
    <3>4. ASSUME NEW n \in 1 .. Len(l) PROVE l[n].at \in {0, 1}
      <4>1. Len(w) - Len(l) + n \in 1 .. Len(w) BY <3>1, <3>2, <3>3 DEF Rest
      <4>2. l[n] = w[Len(w) - Len(l) + n] BY <3>1 DEF Rest
      <4> QED BY <3>3, <4>1, <4>2
    <3> QED BY <3>2, <3>4 DEF l
  <2>7. \A n \in DOMAIN queue : queue[n].op = "dispatch" =>
          queue[n].at \in uploaded /\ queue[n].uniform \in 0 .. RingSize
    <3>1. Commands(queue, uploaded) BY DEF IInv, DeviceInv
    <3>2. DOMAIN queue = 1 .. Len(queue) BY <3>1 DEF Commands, IsList
    <3> QED BY <3>1, <3>2 DEF Commands, CommandOK, OnFrame
  <2>8. HostInv BY DEF IInv
  <2> QED BY <2>3, <2>4, <2>5, <2>6, <2>7, <2>8 DEF TypeOK, HostInv
<1> QED BY <1>1, Invariant, PTL

\* Whatever a later field or frame writes into the buffers of data_cache, a
\* dispatch reads the rows it was encoded for (dispatch_shared_data).
THEOREM DataIsRead == Spec => []DispatchReadsItsData
<1>1. IInv => DispatchReadsItsData
  <2> SUFFICES ASSUME IInv, queue # <<>>, Head(queue).op = "dispatch"
               PROVE  RowsRead(Head(queue)) = Head(queue).rows
    BY DEF DispatchReadsItsData
  <2> DEFINE c == Head(queue)
  <2>1. NextCommand(c, Tail(queue)) BY HeadIsNextCommand
  <2>2. Apply(DeviceNow, c).ok BY <2>1 DEF NextCommand, RightSoFar
  <2>3. c.op = "dispatch" => RowsFor(DeviceNow.data, c) = c.rows BY <2>2 DEF Apply
  <2>4. RowsFor(DeviceNow.data, c) = RowsRead(c) BY DEF RowsFor, RowsRead, DeviceNow
  <2> QED BY <2>3, <2>4
<1> QED BY <1>1, Invariant, PTL

\* For any settings, any random numbers and clips of any length, a call that
\* succeeds delivers the planes the CPU computes (apply_effect_cpu_to_all_fields),
\* however far the device lags behind and whatever an earlier call left.
THEOREM DeliversCpuPlanes == Spec => []DeliveredMatchesCpu
<1>1. IInv => DeliveredMatchesCpu
  <2> SUFFICES ASSUME IInv, status = "done",
                      NEW v \in CpuViews(setting.field, setting.height, frame_num)
               PROVE  DeliveredIn(planes[v.at], setting, v, draw)
    BY DEF DeliveredMatchesCpu, DeliveredIn
  <2>1. queue = <<>> BY DEF IInv, HostInv
  <2>2. After = DeviceNow
    <3>1. Run(DeviceNow, <<>>) = DeviceNow BY RunNone
    <3> QED BY <2>1, <3>1 DEF After
  <2>3. After.planes = planes BY <2>2 DEF DeviceNow
  <2>4. ViewsOK(Views, setting, frame_num) BY InvReady DEF Ready
  <2>5. PICK n \in 1 .. Len(Views) : v = Views[n] BY <2>4 DEF ViewsOK
  <2>6. DeliveredIn(After.planes[Views[n].at], setting, Views[n], draw) BY DEF IInv, FieldsInv
  <2> QED BY <2>3, <2>5, <2>6
<1> QED BY <1>1, Invariant, PTL

=============================================================================
