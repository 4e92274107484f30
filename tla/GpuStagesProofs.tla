-------------------------- MODULE GpuStagesProofs --------------------------
(***************************************************************************)
(* That the stages which encode_effect encodes compute what the stages of  *)
(* the CPU compute, for any settings: the steps of an encoding are given a *)
(* meaning on the buffers of one frame, and each stage is compared.        *)
(***************************************************************************)
EXTENDS GpuEffect, WellFoundedInduction, TLAPS

-----------------------------------------------------------------------------
(* Induction over the naturals, from the library's theorem on minima       *)

\* A set of naturals that is not empty has a least element.
LEMMA LeastElement ==
  ASSUME NEW T \in SUBSET Nat, T # {}
  PROVE  \E x \in T : \A y \in T : x <= y
<1>1. \E R : IsWellFoundedOn(R, Nat) /\ \A x, y \in Nat : x < y => <<x, y>> \in R
  <2>1. IsWellFoundedOn(OpToRel(<, Nat), Nat) BY NatLessThanWellFounded
  <2>2. \A x, y \in Nat : x < y => <<x, y>> \in OpToRel(<, Nat) BY DEF OpToRel
  <2> QED BY <2>1, <2>2
<1>2. PICK R : IsWellFoundedOn(R, Nat) /\ \A x, y \in Nat : x < y => <<x, y>> \in R BY <1>1
<1>3. IsWellFoundedOn(R, Nat) BY <1>2
<1>4. \A x, y \in Nat : x < y => <<x, y>> \in R BY <1>2
<1>5. \E x \in T : \A y \in T : ~(<<y, x>> \in R)
  <2>1. T \subseteq Nat /\ T # {} OBVIOUS
  <2> QED BY <1>3, <2>1, WFMin, Zenon
<1>6. PICK x \in T : \A y \in T : ~(<<y, x>> \in R) BY <1>5
<1>7. ASSUME NEW y \in T PROVE x <= y
  <2>1. x \in Nat /\ y \in Nat OBVIOUS
  <2>2. ~(y < x) BY <2>1, <1>4, <1>6, Zenon
  <2> QED BY <2>1, <2>2
<1> QED BY <1>7

\* A set that has 0, and with each natural the next one, has them all.
LEMMA Induction ==
  ASSUME NEW S, 0 \in S, \A n \in Nat : n \in S => n + 1 \in S
  PROVE  Nat \subseteq S
<1> DEFINE T == {n \in Nat : n \notin S}
<1>1. SUFFICES ASSUME T # {} PROVE FALSE OBVIOUS
<1>2. PICK x \in T : \A y \in T : x <= y
  <2>1. T \in SUBSET Nat OBVIOUS
  <2> HIDE DEF T
  <2> QED BY <1>1, <2>1, LeastElement
<1>3. x \in Nat /\ x \notin S /\ x # 0 OBVIOUS
<1>4. x - 1 \in Nat /\ (x - 1) + 1 = x BY <1>3
<1>5. x - 1 \in S
  <2>1. ~(x <= x - 1) BY <1>3
  <2> QED BY <1>2, <1>4, <2>1
<1> QED BY <1>3, <1>4, <1>5

-----------------------------------------------------------------------------
(* Lists, whatever they are lists of                                       *)

IsList(s) == \E X : s \in Seq(X)

\* u has the elements of s, then those of t.
Joins(s, t, u) ==
  /\ Len(u) = Len(s) + Len(t) /\ Len(s) \in Nat /\ Len(t) \in Nat
  /\ \A n \in 1 .. Len(s) : u[n] = s[n]
  /\ \A n \in 1 .. Len(t) : u[Len(s) + n] = t[n]

\* The length and the elements of a concatenation.
LEMMA ListConcat ==
  ASSUME NEW s, NEW t, IsList(s), IsList(t)
  PROVE  IsList(s \o t) /\ Joins(s, t, s \o t)
<1>1. PICK X : s \in Seq(X) BY DEF IsList
<1>2. PICK Y : t \in Seq(Y) BY DEF IsList
<1> DEFINE Z == X \cup Y
<1>3. s \in Seq(Z)
  <2>1. s = [n \in 1 .. Len(s) |-> s[n]] /\ Len(s) \in Nat /\ \A n \in 1 .. Len(s) : s[n] \in X BY <1>1
  <2> QED BY <2>1
<1>4. t \in Seq(Z)
  <2>1. t = [n \in 1 .. Len(t) |-> t[n]] /\ Len(t) \in Nat /\ \A n \in 1 .. Len(t) : t[n] \in Y BY <1>2
  <2> QED BY <2>1
<1> HIDE DEF Z
<1>5. /\ s \o t \in Seq(Z) /\ Len(s \o t) = Len(s) + Len(t) /\ Len(s) \in Nat /\ Len(t) \in Nat
      /\ \A n \in 1 .. Len(s) : (s \o t)[n] = s[n]
      /\ \A n \in 1 .. Len(t) : (s \o t)[Len(s) + n] = t[n]
  BY <1>3, <1>4
<1>6. Joins(s, t, s \o t) BY <1>5 DEF Joins
<1>7. IsList(s \o t) BY <1>5 DEF IsList
<1> QED BY <1>6, <1>7

\* Short lists.
LEMMA ShortLists ==
  ASSUME NEW c, NEW d, NEW e
  PROVE  IsList(<<>>) /\ IsList(<<c>>) /\ IsList(<<c, d>>) /\ IsList(<<c, d, e>>)
<1>1. <<>> \in Seq({}) OBVIOUS
<1>2. <<c>> \in Seq({c}) OBVIOUS
<1>3. <<c, d>> \in Seq({c, d}) OBVIOUS
<1>4. <<c, d, e>> \in Seq({c, d, e}) OBVIOUS
<1> QED BY <1>1, <1>2, <1>3, <1>4 DEF IsList

\* Lists with the same elements are the same.
LEMMA SameList ==
  ASSUME NEW s, NEW t, IsList(s), IsList(t), Len(s) = Len(t), \A n \in 1 .. Len(s) : s[n] = t[n]
  PROVE  s = t
<1>1. s = [n \in 1 .. Len(s) |-> s[n]] BY DEF IsList
<1>2. t = [n \in 1 .. Len(t) |-> t[n]] BY DEF IsList
<1> QED BY <1>1, <1>2

\* Short lists, put together.
LEMMA ShortConcat ==
  ASSUME NEW c, NEW d, NEW e
  PROVE  <<c, d>> = <<c>> \o <<d>> /\ <<c, d, e>> = <<c, d>> \o <<e>>
<1> DEFINE s == <<c>>
           t == <<d>>
           u == <<c, d>>
           w == <<e>>
           z == <<c, d, e>>
<1>1. IsList(s) /\ IsList(t) /\ IsList(u) /\ IsList(w) /\ IsList(z) BY ShortLists
<1>2. Len(s) = 1 /\ s[1] = c /\ Len(t) = 1 /\ t[1] = d /\ Len(w) = 1 /\ w[1] = e OBVIOUS
<1>3. Len(u) = 2 /\ u[1] = c /\ u[2] = d OBVIOUS
<1>4. Len(z) = 3 /\ z[1] = c /\ z[2] = d /\ z[3] = e OBVIOUS
<1> HIDE DEF s, t, u, w, z
<1>5. ASSUME NEW k, IsList(k), Joins(s, t, k) PROVE u = k
  <2>1. Len(k) = 2 /\ k[1] = c /\ k[2] = d
    <3>1. Len(k) = 2 BY <1>2, <1>5 DEF Joins
    <3>2. k[1] = s[1] BY <1>2, <1>5 DEF Joins
    <3>3. k[1 + 1] = t[1] BY <1>2, <1>5 DEF Joins
    <3> QED BY <1>2, <3>1, <3>2, <3>3
  <2>2. \A n \in 1 .. 2 : n = 1 \/ n = 2 OBVIOUS
  <2>3. \A n \in 1 .. Len(u) : u[n] = k[n] BY <1>3, <2>1, <2>2
  <2>4. Len(u) = Len(k) BY <1>3, <2>1
  <2> QED BY <1>1, <1>5, <2>3, <2>4, SameList
<1>6. ASSUME NEW k, IsList(k), Joins(u, w, k) PROVE z = k
  <2>1. Len(k) = 3 /\ k[1] = c /\ k[2] = d /\ k[3] = e
    <3>1. Len(k) = 3 BY <1>2, <1>3, <1>6 DEF Joins
    <3>2. k[1] = u[1] /\ k[2] = u[2] BY <1>3, <1>6 DEF Joins
    <3>3. k[2 + 1] = w[1] BY <1>2, <1>3, <1>6 DEF Joins
    <3> QED BY <1>2, <1>3, <3>1, <3>2, <3>3
  <2>2. \A n \in 1 .. 3 : n = 1 \/ n = 2 \/ n = 3 OBVIOUS
  <2>3. \A n \in 1 .. Len(z) : z[n] = k[n] BY <1>4, <2>1, <2>2
  <2>4. Len(z) = Len(k) BY <1>4, <2>1
  <2> QED BY <1>1, <1>6, <2>3, <2>4, SameList
<1>7. IsList(s \o t) /\ Joins(s, t, s \o t) BY <1>1, ListConcat
<1>8. IsList(u \o w) /\ Joins(u, w, u \o w) BY <1>1, ListConcat
<1>9. u = s \o t BY <1>5, <1>7
<1>10. z = u \o w BY <1>6, <1>8
<1> QED BY <1>9, <1>10 DEF s, t, u, w, z

\* A list that may be left out.
LEMMA ListWhen ==
  ASSUME NEW condition, NEW s, IsList(s)
  PROVE  IsList(When(condition, s))
BY ShortLists DEF When

-----------------------------------------------------------------------------
(* What the steps of an encoding mean: the buffers of a frame after them,  *)
(* if each pass reads what it was encoded for                              *)

\* The uniforms after some of them are set.
Changed(values, set) == [f \in DOMAIN values |-> IF f \in DOMAIN set THEN set[f] ELSE values[f]]

ShaderOf(entry, group, u, rows, b) == Shader([entry |-> entry, group |-> group], u, rows, b)

DataMeaning(base, step, b) ==
  LET first == ShaderOf(step.entries[1], step.group, base, step.rows, b)
  IN IF Len(step.entries) = 1 THEN first
     ELSE ShaderOf(step.entries[2], step.group, base, step.rows, first)

BuffersAfter(base, m, step) ==
  CASE step.op = "copy" -> [m.b EXCEPT ![step.to] = m.b[step.from]]
    [] step.op = "filter" -> FilterShader(step, m.b)
    [] step.op = "pass" -> ShaderOf(step.entry, step.group, base, <<>>, m.b)
    [] step.op = "pass_with" -> ShaderOf(step.entry, step.group, Changed(m.values, step.set), <<>>, m.b)
    [] step.op = "data" -> IF step.empty THEN m.b ELSE DataMeaning(base, step, m.b)

\* The buffers, the uniforms set last, and the slots of the ring taken; base
\* are the uniforms that a pass without its own slot reads.
Meaning(base, m, step) ==
  [b |-> BuffersAfter(base, m, step),
   values |-> IF step.op = "pass_with" THEN Changed(m.values, step.set) ELSE m.values,
   ring |-> IF step.op = "pass_with" THEN m.ring + 1 ELSE m.ring]

Means(base, m, steps) ==
  LET after[n \in 0 .. Len(steps)] == IF n = 0 THEN m ELSE Meaning(base, after[n - 1], steps[n])
  IN after[Len(steps)]

\* What the buffers of a frame are after each of the steps.
LEMMA MeansFold ==
  ASSUME NEW base, NEW a, NEW s, IsList(s)
  PROVE  \E f : /\ f[0] = a
                /\ \A n \in 1 .. Len(s) : f[n] = Meaning(base, f[n - 1], s[n])
                /\ Means(base, a, s) = f[Len(s)]
<1> DEFINE G(g, m) == [n \in 0 .. m |-> IF n = 0 THEN a ELSE Meaning(base, g[n - 1], s[n])]
           S == {m \in Nat : \E g : g = G(g, m)}
<1>1. 0 \in S
  <2> DEFINE g == [n \in 0 .. 0 |-> a]
  <2>1. g = G(g, 0) OBVIOUS
  <2> QED BY <2>1
<1>2. ASSUME NEW m \in Nat, m \in S PROVE m + 1 \in S
  <2>1. PICK g : g = G(g, m) BY <1>2
  <2> DEFINE h == [n \in 0 .. m + 1 |-> IF n <= m THEN g[n] ELSE Meaning(base, g[m], s[m + 1])]
  <2>2. ASSUME NEW n \in 0 .. m + 1 PROVE h[n] = G(h, m + 1)[n]
    <3>1. CASE n = 0 BY <2>1, <3>1
    <3>2. CASE n \in 1 .. m
      <4>1. g[n] = Meaning(base, g[n - 1], s[n]) BY <2>1, <3>2
      <4>2. h[n] = g[n] /\ h[n - 1] = g[n - 1] BY <3>2
      <4> QED BY <3>2, <4>1, <4>2
    <3>3. CASE n = m + 1 BY <3>3
    <3> QED BY <3>1, <3>2, <3>3
  <2>3. h = G(h, m + 1)
    <3>1. DOMAIN h = 0 .. m + 1 /\ DOMAIN G(h, m + 1) = 0 .. m + 1 OBVIOUS
    <3> QED BY <2>2, <3>1
  <2> HIDE DEF h
  <2>4. \E k : k = G(k, m + 1) BY <2>3
  <2>5. m + 1 \in Nat OBVIOUS
  <2> HIDE DEF G
  <2> QED BY <2>4, <2>5
<1>3. Len(s) \in S
  <2> HIDE DEF S
  <2>1. Len(s) \in Nat BY DEF IsList
  <2> QED BY <1>1, <1>2, <2>1, Induction
<1>4. \E g : g = G(g, Len(s)) BY <1>3
<1> DEFINE f == CHOOSE g : g = G(g, Len(s))
<1>5. f = G(f, Len(s)) BY <1>4
<1>6. Means(base, a, s) = f[Len(s)] BY DEF Means
<1> HIDE DEF f
<1>7. f[0] = a /\ \A n \in 1 .. Len(s) : f[n] = Meaning(base, f[n - 1], s[n])
  <2>1. Len(s) \in Nat BY DEF IsList
  <2> QED BY <1>5, <2>1
<1> QED BY <1>6, <1>7

\* No steps change nothing.
LEMMA MeansNone == ASSUME NEW base, NEW a PROVE Means(base, a, <<>>) = a
<1> DEFINE s == <<>>
<1>1. IsList(s) /\ Len(s) = 0 BY ShortLists
<1> HIDE DEF s
<1>2. Means(base, a, s) = a BY <1>1, MeansFold
<1> QED BY <1>2 DEF s

\* One step does what it means.
LEMMA MeansOne == ASSUME NEW base, NEW a, NEW c PROVE Means(base, a, <<c>>) = Meaning(base, a, c)
<1> DEFINE s == <<c>>
<1>2. IsList(s) /\ Len(s) = 1 /\ s[1] = c BY ShortLists
<1> HIDE DEF s
<1>3. Means(base, a, s) = Meaning(base, a, c)
  <2>1. PICK f : /\ f[0] = a
                 /\ \A n \in 1 .. Len(s) : f[n] = Meaning(base, f[n - 1], s[n])
                 /\ Means(base, a, s) = f[Len(s)] BY <1>2, MeansFold
  <2>2. f[1] = Meaning(base, f[0], s[1]) BY <1>2, <2>1
  <2> QED BY <1>2, <2>1, <2>2
<1> QED BY <1>3 DEF s

\* Steps after others start from what those have done.
LEMMA MeansJoined ==
  ASSUME NEW base, NEW a, NEW s, NEW t, NEW u, IsList(s), IsList(t), IsList(u), Joins(s, t, u)
  PROVE  Means(base, a, u) = Means(base, Means(base, a, s), t)
<1> DEFINE mid == Means(base, a, s)
<1>1. /\ Len(u) = Len(s) + Len(t) /\ Len(s) \in Nat /\ Len(t) \in Nat
      /\ \A n \in 1 .. Len(s) : u[n] = s[n]
      /\ \A n \in 1 .. Len(t) : u[Len(s) + n] = t[n]
  BY DEF Joins
<1>2. PICK f : /\ f[0] = a
               /\ \A n \in 1 .. Len(u) : f[n] = Meaning(base, f[n - 1], u[n])
               /\ Means(base, a, u) = f[Len(u)]
  BY MeansFold
<1>3. PICK g : /\ g[0] = a
               /\ \A n \in 1 .. Len(s) : g[n] = Meaning(base, g[n - 1], s[n])
               /\ mid = g[Len(s)]
  BY MeansFold
<1> HIDE DEF mid
<1>4. PICK h : /\ h[0] = mid
               /\ \A n \in 1 .. Len(t) : h[n] = Meaning(base, h[n - 1], t[n])
               /\ Means(base, mid, t) = h[Len(t)]
  BY MeansFold
<1>5. f[Len(s)] = g[Len(s)]
  <2> DEFINE S == {n \in Nat : n <= Len(s) => f[n] = g[n]}
  <2>1. 0 \in S BY <1>2, <1>3
  <2>2. ASSUME NEW n \in Nat, n \in S PROVE n + 1 \in S
    <3>1. SUFFICES ASSUME n + 1 <= Len(s) PROVE f[n + 1] = g[n + 1] OBVIOUS
    <3>2. n + 1 \in 1 .. Len(s) /\ n + 1 \in 1 .. Len(u) /\ (n + 1) - 1 = n BY <1>1, <3>1
    <3>3. f[n + 1] = Meaning(base, f[n], u[n + 1]) BY <1>2, <3>2
    <3>4. g[n + 1] = Meaning(base, g[n], s[n + 1]) BY <1>3, <3>2
    <3>5. u[n + 1] = s[n + 1] BY <1>1, <3>2
    <3>6. f[n] = g[n] BY <2>2, <1>1, <3>1
    <3> QED BY <3>3, <3>4, <3>5, <3>6
  <2>3. Len(s) \in S
    <3> HIDE DEF S
    <3> QED BY <1>1, <2>1, <2>2, Induction
  <2> QED BY <1>1, <2>3
<1>6. f[Len(s) + Len(t)] = h[Len(t)]
  <2> DEFINE S == {n \in Nat : n <= Len(t) => f[Len(s) + n] = h[n]}
  <2>1. 0 \in S BY <1>1, <1>3, <1>4, <1>5
  <2>2. ASSUME NEW n \in Nat, n \in S PROVE n + 1 \in S
    <3>1. SUFFICES ASSUME n + 1 <= Len(t) PROVE f[Len(s) + (n + 1)] = h[n + 1] OBVIOUS
    <3>2. /\ n + 1 \in 1 .. Len(t) /\ Len(s) + (n + 1) \in 1 .. Len(u)
          /\ (Len(s) + (n + 1)) - 1 = Len(s) + n /\ (n + 1) - 1 = n
      BY <1>1, <3>1
    <3>3. f[Len(s) + (n + 1)] = Meaning(base, f[Len(s) + n], u[Len(s) + (n + 1)]) BY <1>2, <3>2
    <3>4. h[n + 1] = Meaning(base, h[n], t[n + 1]) BY <1>4, <3>2
    <3>5. u[Len(s) + (n + 1)] = t[n + 1] BY <1>1, <3>2
    <3>6. f[Len(s) + n] = h[n] BY <2>2, <1>1, <3>1
    <3> QED BY <3>3, <3>4, <3>5, <3>6
  <2>3. Len(t) \in S
    <3> HIDE DEF S
    <3> QED BY <1>1, <2>1, <2>2, Induction
  <2> QED BY <1>1, <2>3
<1>7. Means(base, a, u) = Means(base, mid, t) BY <1>1, <1>2, <1>4, <1>6
<1> QED BY <1>7 DEF mid

\* The same, for a concatenation.
LEMMA MeansConcat ==
  ASSUME NEW base, NEW a, NEW s, NEW t, IsList(s), IsList(t)
  PROVE  Means(base, a, s \o t) = Means(base, Means(base, a, s), t)
<1>1. IsList(s \o t) /\ Joins(s, t, s \o t) BY ListConcat
<1> QED BY <1>1, MeansJoined

\* Two steps.
LEMMA MeansTwo ==
  ASSUME NEW base, NEW m, NEW c, NEW d
  PROVE  Means(base, m, <<c, d>>) = Meaning(base, Meaning(base, m, c), d)
<1>1. IsList(<<c>>) /\ IsList(<<d>>) BY ShortLists
<1>2. Means(base, m, <<c>> \o <<d>>) = Means(base, Means(base, m, <<c>>), <<d>>) BY <1>1, MeansConcat
<1>3. <<c, d>> = <<c>> \o <<d>> BY ShortConcat
<1> QED BY <1>2, <1>3, MeansOne

\* Three steps.
LEMMA MeansThree ==
  ASSUME NEW base, NEW m, NEW c, NEW d, NEW e
  PROVE  Means(base, m, <<c, d, e>>) = Meaning(base, Meaning(base, Meaning(base, m, c), d), e)
<1>1. IsList(<<c, d>>) /\ IsList(<<e>>) BY ShortLists
<1>2. Means(base, m, <<c, d>> \o <<e>>) = Means(base, Means(base, m, <<c, d>>), <<e>>) BY <1>1, MeansConcat
<1>3. <<c, d, e>> = <<c, d>> \o <<e>> BY ShortConcat
<1>4. Means(base, m, <<c, d>>) = Meaning(base, Meaning(base, m, c), d) BY MeansTwo
<1> QED BY <1>2, <1>3, <1>4, MeansOne

-----------------------------------------------------------------------------
(* What the steps are about                                                *)

\* The shaders.
Entries == {"luma_box", "chroma_into_luma", "noise", "snow", "shift_y", "shift_all", "chroma_phase",
  "phase", "chroma_delay", "loss", "chroma_vert_blend", "yiq_to_rgba8", "demodulate_box",
  "demodulate_notch", "demodulate_one_line", "demodulate_two_line"}

\* A frame has the nine buffers.
IsFrame(b) == b = [n \in BufferNames |-> b[n]]

\* The buffers' names.
LEMMA Names ==
  /\ BufferNames = {"y", "i", "q", "sy", "si", "sq", "out_y", "out_i", "out_q"}
  /\ ScratchOf["y"] = "sy" /\ ScratchOf["i"] = "si" /\ ScratchOf["q"] = "sq"
BY DEF BufferNames, Planes, ScratchOf, StagingOf

\* The list of copies.
LEMMA ListCopies == ASSUME NEW P PROVE IsList(CopiesToScratch(P))
<1>1. \A p : IsList(When(p \in P, <<CopyToScratch(p)>>)) BY ShortLists, ListWhen
<1> DEFINE One(p) == When(p \in P, <<CopyToScratch(p)>>)
<1>2. CopiesToScratch(P) = (One("y") \o One("i")) \o One("q") BY DEF CopiesToScratch
<1> HIDE DEF One
<1> QED BY <1>1, <1>2, ListConcat DEF One

\* Copies of planes to the scratch planes leave the planes.
LEMMA CopiesMean ==
  ASSUME NEW base, NEW m, IsFrame(m.b), NEW P \in SUBSET Planes
  PROVE  LET r == Means(base, m, CopiesToScratch(P))
         IN /\ IsFrame(r.b) /\ r.values = m.values /\ r.ring = m.ring
            /\ \A p \in Planes : r.b[p] = m.b[p]
            /\ \A p \in P : r.b[ScratchOf[p]] = m.b[p]
            /\ \A p \in Planes \ P : r.b[ScratchOf[p]] = m.b[ScratchOf[p]]
<1> DEFINE One(p) == When(p \in P, <<CopyToScratch(p)>>)
<1>1. ASSUME NEW p \in Planes, NEW k, IsFrame(k.b)
      PROVE  LET r == Means(base, k, One(p))
             IN /\ IsFrame(r.b) /\ r.values = k.values /\ r.ring = k.ring
                /\ \A n \in BufferNames : n # ScratchOf[p] => r.b[n] = k.b[n]
                /\ r.b[ScratchOf[p]] = IF p \in P THEN k.b[p] ELSE k.b[ScratchOf[p]]
  <2>1. CASE p \in P
    <3>1. Means(base, k, One(p)) = Meaning(base, k, CopyToScratch(p)) BY <2>1, MeansOne DEF When
    <3>2. p \in BufferNames /\ ScratchOf[p] \in BufferNames BY Names DEF Planes
    <3>3. Meaning(base, k, CopyToScratch(p)) =
            [b |-> [k.b EXCEPT ![ScratchOf[p]] = k.b[p]], values |-> k.values, ring |-> k.ring]
      BY DEF Meaning, BuffersAfter, CopyToScratch, Copy
    <3> QED BY <1>1, <2>1, <3>1, <3>2, <3>3 DEF IsFrame
  <2>2. CASE p \notin P
    <3>1. Means(base, k, One(p)) = k BY <2>2, MeansNone DEF When
    <3> QED BY <1>1, <2>2, <3>1
  <2> QED BY <2>1, <2>2
<1> DEFINE a == Means(base, m, One("y"))
           b == Means(base, a, One("i"))
           c == Means(base, b, One("q"))
<1>2. \A p : IsList(One(p)) BY ShortLists, ListWhen
<1>3. Means(base, m, CopiesToScratch(P)) = c
  <2>1. CopiesToScratch(P) = (One("y") \o One("i")) \o One("q") BY DEF CopiesToScratch
  <2> HIDE DEF One
  <2>2. IsList(One("y") \o One("i")) BY <1>2, ListConcat
  <2>3. Means(base, m, One("y") \o One("i")) = b BY <1>2, MeansConcat
  <2> QED BY <1>2, <2>1, <2>2, <2>3, MeansConcat
<1> HIDE DEF One
<1>4. /\ IsFrame(a.b) /\ a.values = m.values /\ a.ring = m.ring
      /\ \A n \in BufferNames : n # "sy" => a.b[n] = m.b[n]
      /\ a.b["sy"] = IF "y" \in P THEN m.b["y"] ELSE m.b["sy"]
  BY <1>1, Names DEF Planes
<1> HIDE DEF a
<1>5. /\ IsFrame(b.b) /\ b.values = a.values /\ b.ring = a.ring
      /\ \A n \in BufferNames : n # "si" => b.b[n] = a.b[n]
      /\ b.b["si"] = IF "i" \in P THEN a.b["i"] ELSE a.b["si"]
  BY <1>1, <1>4, Names DEF Planes
<1> HIDE DEF b
<1>6. /\ IsFrame(c.b) /\ c.values = b.values /\ c.ring = b.ring
      /\ \A n \in BufferNames : n # "sq" => c.b[n] = b.b[n]
      /\ c.b["sq"] = IF "q" \in P THEN b.b["q"] ELSE b.b["sq"]
  BY <1>1, <1>5, Names DEF Planes
<1> HIDE DEF c
<1>7. /\ \A p \in Planes : c.b[p] = m.b[p]
      /\ c.b["sy"] = IF "y" \in P THEN m.b["y"] ELSE m.b["sy"]
      /\ c.b["si"] = IF "i" \in P THEN m.b["i"] ELSE m.b["si"]
      /\ c.b["sq"] = IF "q" \in P THEN m.b["q"] ELSE m.b["sq"]
  BY <1>4, <1>5, <1>6, Names DEF Planes
<1> QED BY <1>3, <1>4, <1>5, <1>6, <1>7, Names DEF Planes

\* The planes of a filter are filtered, whether it works in place or from
\* copies of them; other planes are left (dispatch_filter_plane and
\* dispatch_block_filter).
LEMMA FilterPlanesMean ==
  ASSUME NEW s, NEW v, NEW base, NEW m, IsFrame(m.b), NEW coeffs, DOMAIN coeffs \subseteq Planes
  PROVE  LET r == Means(base, m, FilterPlanes(s, v, coeffs))
         IN /\ IsFrame(r.b) /\ r.values = m.values /\ r.ring = m.ring
            /\ \A p \in Planes : r.b[p] = IF p \in DOMAIN coeffs THEN Filter(coeffs[p], m.b[p])
                                                                 ELSE m.b[p]
            /\ r.b["sy"] \in {m.b["sy"], m.b["y"]}
<1> DEFINE blocks == BlockFilterForFrame(s, v) /\ \A p \in DOMAIN coeffs : FitsBlocks(s.effect, coeffs[p])
           D == DOMAIN coeffs
<1>1. CASE blocks
  <2> DEFINE pass == FilterPass("block_filter", coeffs)
             k == Means(base, m, CopiesToScratch(D))
  <2>1. FilterPlanes(s, v, coeffs) = CopiesToScratch(D) \o <<pass>> BY <1>1 DEF FilterPlanes
  <2>2. IsList(CopiesToScratch(D)) /\ IsList(<<pass>>) BY ShortLists, ListCopies
  <2>3. Means(base, m, FilterPlanes(s, v, coeffs)) = Meaning(base, k, pass)
    <3> HIDE DEF pass
    <3>1. Means(base, m, FilterPlanes(s, v, coeffs)) = Means(base, k, <<pass>>)
      BY <2>1, <2>2, MeansConcat
    <3> QED BY <3>1, MeansOne
  <2>4. /\ IsFrame(k.b) /\ k.values = m.values /\ k.ring = m.ring
        /\ \A p \in Planes : k.b[p] = m.b[p]
        /\ \A p \in D : k.b[ScratchOf[p]] = m.b[p]
        /\ \A p \in Planes \ D : k.b[ScratchOf[p]] = m.b[ScratchOf[p]]
    BY CopiesMean
  <2> HIDE DEF k
  <2>5. Meaning(base, k, pass) = [b |-> FilterShader(pass, k.b), values |-> k.values, ring |-> k.ring]
    BY DEF Meaning, BuffersAfter, FilterPass
  <2> DEFINE f == FilterShader(pass, k.b)
  <2>6. f = [n \in BufferNames |-> IF n \in D THEN Filter(coeffs[n], k.b[ScratchOf[n]]) ELSE k.b[n]]
    BY <2>4 DEF FilterShader, FilterPass, IsFrame
  <2> HIDE DEF f
  <2>7. IsFrame(f) BY <2>6 DEF IsFrame
  <2>8. \A p \in Planes : f[p] = IF p \in D THEN Filter(coeffs[p], m.b[p]) ELSE m.b[p]
    BY <2>4, <2>6, Names DEF Planes
  <2>9. f["sy"] \in {m.b["sy"], m.b["y"]} BY <2>4, <2>6, Names DEF Planes
  <2> QED BY <2>3, <2>4, <2>5, <2>7, <2>8, <2>9 DEF f
<1>2. CASE ~blocks
  <2> DEFINE pass == FilterPass("filter_plane", coeffs)
  <2>1. FilterPlanes(s, v, coeffs) = <<pass>> BY <1>2 DEF FilterPlanes
  <2>2. Means(base, m, FilterPlanes(s, v, coeffs)) = Meaning(base, m, pass) BY <2>1, MeansOne
  <2>3. Meaning(base, m, pass) = [b |-> FilterShader(pass, m.b), values |-> m.values, ring |-> m.ring]
    BY DEF Meaning, BuffersAfter, FilterPass
  <2> DEFINE f == FilterShader(pass, m.b)
  <2>4. f = [n \in BufferNames |-> IF n \in D THEN Filter(coeffs[n], m.b[n]) ELSE m.b[n]]
    BY DEF FilterShader, FilterPass, IsFrame
  <2> HIDE DEF f
  <2>5. IsFrame(f) BY <2>4 DEF IsFrame
  <2>6. \A p \in Planes : f[p] = IF p \in D THEN Filter(coeffs[p], m.b[p]) ELSE m.b[p]
    BY <2>4, Names DEF Planes
  <2>7. f["sy"] \in {m.b["sy"], m.b["y"]} BY <2>4, Names DEF Planes
  <2> QED BY <2>2, <2>3, <2>5, <2>6, <2>7 DEF f
<1> QED BY <1>1, <1>2

\* The commands of a filter are a list.
LEMMA ListFilter == ASSUME NEW s, NEW v, NEW coeffs PROVE IsList(FilterPlanes(s, v, coeffs))
<1> DEFINE blocks == CopiesToScratch(DOMAIN coeffs) \o <<FilterPass("block_filter", coeffs)>>
           inplace == <<FilterPass("filter_plane", coeffs)>>
<1>1. FilterPlanes(s, v, coeffs) \in {blocks, inplace} BY DEF FilterPlanes
<1>2. IsList(blocks)
  <2>1. IsList(CopiesToScratch(DOMAIN coeffs)) /\ IsList(<<FilterPass("block_filter", coeffs)>>)
    BY ShortLists, ListCopies
  <2> QED BY <2>1, ListConcat
<1>3. IsList(inplace) BY ShortLists
<1> HIDE DEF blocks, inplace
<1> QED BY <1>1, <1>2, <1>3

-----------------------------------------------------------------------------
(* Each stage of encode_effect does to the planes what the CPU's does      *)

\* The CPU's planes and its scratch plane.
IsPlanes(c) == c = [n \in {"y", "i", "q", "s"} |-> c[n]]

\* The buffers show the CPU's planes, and up to k slots of the ring are taken.
Shows(m, c, k) ==
  /\ IsFrame(m.b) /\ m.b["y"] = c.y /\ m.b["i"] = c.i /\ m.b["q"] = c.q
  /\ DOMAIN m.values = {"frame", "angle", "delay"}
  /\ m.ring \in Nat /\ m.ring <= k

\* A filter of the luma plane.
LEMMA FilterLumaShows ==
  ASSUME NEW s, NEW v, NEW base, NEW m, NEW c, NEW k, Shows(m, c, k), IsPlanes(c), NEW f
  PROVE  LET r == Means(base, m, FilterLuma(s, v, f))
         IN Shows(r, FilterY(f, c), k) /\ IsPlanes(FilterY(f, c)) /\ r.b["sy"] \in {m.b["sy"], m.b["y"]}
<1> DEFINE coeffs == [y |-> f]
           r == Means(base, m, FilterPlanes(s, v, coeffs))
<1>1. DOMAIN coeffs = {"y"} /\ coeffs["y"] = f OBVIOUS
<1>2. DOMAIN coeffs \subseteq Planes BY <1>1 DEF Planes
<1>3. FilterLuma(s, v, f) = FilterPlanes(s, v, coeffs) BY DEF FilterLuma
<1>4. IsFrame(m.b) BY DEF Shows
<1> HIDE DEF coeffs
<1>5. /\ IsFrame(r.b) /\ r.values = m.values /\ r.ring = m.ring
      /\ \A p \in Planes : r.b[p] = IF p \in DOMAIN coeffs THEN Filter(coeffs[p], m.b[p]) ELSE m.b[p]
      /\ r.b["sy"] \in {m.b["sy"], m.b["y"]}
  BY <1>2, <1>4, FilterPlanesMean
<1> HIDE DEF r
<1>6. r.b["y"] = Filter(f, m.b["y"]) /\ r.b["i"] = m.b["i"] /\ r.b["q"] = m.b["q"] BY <1>1, <1>5 DEF Planes
<1>7. /\ FilterY(f, c).y = Filter(f, c.y) /\ FilterY(f, c).i = c.i /\ FilterY(f, c).q = c.q
      /\ IsPlanes(FilterY(f, c))
  BY DEF FilterY, IsPlanes
<1>8. Shows(r, FilterY(f, c), k) BY <1>5, <1>6, <1>7 DEF Shows
<1> QED BY <1>3, <1>5, <1>7, <1>8 DEF r

\* Filters of both chroma planes, in one dispatch or in two.
LEMMA FilterBothShow ==
  ASSUME NEW s, NEW v, NEW base, NEW m, NEW c, NEW k, Shows(m, c, k), IsPlanes(c), NEW f, NEW g
  PROVE  LET b == [c EXCEPT !.i = Filter(f, @), !.q = Filter(g, @)]
         IN /\ IsPlanes(b)
            /\ Shows(Means(base, m, FilterPlanes(s, v, [i |-> f, q |-> g])), b, k)
            /\ Shows(Means(base, m, FilterSeparately(s, v, f, g)), b, k)
<1> DEFINE b == [c EXCEPT !.i = Filter(f, @), !.q = Filter(g, @)]
<1>1. IsPlanes(b) /\ b.y = c.y /\ b.i = Filter(f, c.i) /\ b.q = Filter(g, c.q)
  BY DEF IsPlanes
<1> HIDE DEF b
<1>2. IsFrame(m.b) BY DEF Shows
<1>3. Shows(Means(base, m, FilterPlanes(s, v, [i |-> f, q |-> g])), b, k)
  <2> DEFINE coeffs == [i |-> f, q |-> g]
             r == Means(base, m, FilterPlanes(s, v, coeffs))
  <2>1. DOMAIN coeffs = {"i", "q"} /\ coeffs["i"] = f /\ coeffs["q"] = g OBVIOUS
  <2> HIDE DEF coeffs
  <2>2. DOMAIN coeffs \subseteq Planes BY <2>1 DEF Planes
  <2>3. /\ IsFrame(r.b) /\ r.values = m.values /\ r.ring = m.ring
        /\ \A p \in Planes : r.b[p] = IF p \in DOMAIN coeffs THEN Filter(coeffs[p], m.b[p]) ELSE m.b[p]
    BY <1>2, <2>2, FilterPlanesMean
  <2> HIDE DEF r
  <2>4. r.b["y"] = m.b["y"] /\ r.b["i"] = Filter(f, m.b["i"]) /\ r.b["q"] = Filter(g, m.b["q"])
    BY <2>1, <2>3 DEF Planes
  <2>5. Shows(r, b, k) BY <1>1, <2>3, <2>4 DEF Shows
  <2> QED BY <2>5 DEF r, coeffs
<1>4. Shows(Means(base, m, FilterSeparately(s, v, f, g)), b, k)
  <2> DEFINE ci == [i |-> f]
             cq == [q |-> g]
             n == Means(base, m, FilterPlanes(s, v, ci))
             r == Means(base, n, FilterPlanes(s, v, cq))
  <2>1. DOMAIN ci = {"i"} /\ ci["i"] = f /\ DOMAIN cq = {"q"} /\ cq["q"] = g OBVIOUS
  <2>2. FilterSeparately(s, v, f, g) = FilterPlanes(s, v, ci) \o FilterPlanes(s, v, cq) BY DEF FilterSeparately
  <2> HIDE DEF ci, cq
  <2>3. DOMAIN ci \subseteq Planes /\ DOMAIN cq \subseteq Planes BY <2>1 DEF Planes
  <2>4. /\ IsFrame(n.b) /\ n.values = m.values /\ n.ring = m.ring
        /\ \A p \in Planes : n.b[p] = IF p \in DOMAIN ci THEN Filter(ci[p], m.b[p]) ELSE m.b[p]
    BY <1>2, <2>3, FilterPlanesMean
  <2>5. Means(base, m, FilterSeparately(s, v, f, g)) = r BY <2>2, ListFilter, MeansConcat
  <2> HIDE DEF n
  <2>6. /\ IsFrame(r.b) /\ r.values = n.values /\ r.ring = n.ring
        /\ \A p \in Planes : r.b[p] = IF p \in DOMAIN cq THEN Filter(cq[p], n.b[p]) ELSE n.b[p]
    BY <2>3, <2>4, FilterPlanesMean
  <2> HIDE DEF r
  <2>7. r.b["y"] = m.b["y"] /\ r.b["i"] = Filter(f, m.b["i"]) /\ r.b["q"] = Filter(g, m.b["q"])
    BY <2>1, <2>4, <2>6 DEF Planes
  <2>8. Shows(r, b, k) BY <1>1, <2>4, <2>6, <2>7 DEF Shows
  <2> QED BY <2>5, <2>8
<1> QED BY <1>1, <1>3, <1>4 DEF b

\* The same filter for both chroma planes (dispatch_filter_planes).
LEMMA FilterChromaShows ==
  ASSUME NEW s, NEW v, NEW base, NEW m, NEW c, NEW k, Shows(m, c, k), IsPlanes(c), NEW f
  PROVE  LET b == [c EXCEPT !.i = Filter(f, @), !.q = Filter(f, @)]
         IN IsPlanes(b) /\ Shows(Means(base, m, FilterChroma(s, v, f)), b, k)
<1> DEFINE b == [c EXCEPT !.i = Filter(f, @), !.q = Filter(f, @)]
<1>1. /\ IsPlanes(b)
      /\ Shows(Means(base, m, FilterPlanes(s, v, [i |-> f, q |-> f])), b, k)
      /\ Shows(Means(base, m, FilterSeparately(s, v, f, f)), b, k)
  BY FilterBothShow
<1> HIDE DEF b
<1>2. FilterChroma(s, v, f) \in {FilterPlanes(s, v, [i |-> f, q |-> f]), FilterSeparately(s, v, f, f)}
  BY DEF FilterChroma
<1>3. Shows(Means(base, m, FilterChroma(s, v, f)), b, k) BY <1>1, <1>2
<1> QED BY <1>1, <1>3 DEF b

\* The chroma low-pass (dispatch_chroma_lowpass, composite_chroma_lowpass).
LEMMA LowpassShows ==
  ASSUME NEW s, NEW v, NEW base, NEW m, NEW c, NEW k, Shows(m, c, k), IsPlanes(c),
         NEW mode \in {"none", "light", "full"}
  PROVE  LET b == ChromaLowpass(mode, c)
         IN IsPlanes(b) /\ Shows(Means(base, m, LowpassSteps(s, v, mode)), b, k)
<1>1. CASE mode = "none"
  <2>1. LowpassSteps(s, v, mode) = <<>> /\ ChromaLowpass(mode, c) = c BY <1>1 DEF LowpassSteps, ChromaLowpass
  <2> QED BY <2>1, MeansNone
<1>2. CASE mode = "light"
  <2> DEFINE f == Coeffs("light", "zero", 1)
             b == [c EXCEPT !.i = Filter(f, @), !.q = Filter(f, @)]
  <2>1. /\ LowpassSteps(s, v, mode) = FilterChroma(s, v, f)
        /\ ChromaLowpass(mode, c) = b
    BY <1>2 DEF LowpassSteps, ChromaLowpass
  <2> HIDE DEF f
  <2>2. IsPlanes(b) /\ Shows(Means(base, m, FilterChroma(s, v, f)), b, k) BY FilterChromaShows
  <2> HIDE DEF b
  <2> QED BY <2>1, <2>2
<1>3. CASE mode = "full"
  <2> DEFINE f == Coeffs("full_i", "zero", 2)
             g == Coeffs("full_q", "zero", 4)
             b == [c EXCEPT !.i = Filter(f, @), !.q = Filter(g, @)]
  <2>1. /\ LowpassSteps(s, v, mode) \in {FilterPlanes(s, v, [i |-> f, q |-> g]), FilterSeparately(s, v, f, g)}
        /\ ChromaLowpass(mode, c) = b
    BY <1>3 DEF LowpassSteps, ChromaLowpass
  <2> HIDE DEF f, g
  <2>2. /\ IsPlanes(b)
        /\ Shows(Means(base, m, FilterPlanes(s, v, [i |-> f, q |-> g])), b, k)
        /\ Shows(Means(base, m, FilterSeparately(s, v, f, g)), b, k)
    BY FilterBothShow
  <2> HIDE DEF b
  <2> QED BY <2>1, <2>2
<1> QED BY <1>1, <1>2, <1>3

-----------------------------------------------------------------------------
(* The stages, one by one                                                  *)

\* A step with an operation and shaders that exist.
StepOK(step) ==
  /\ step.op \in {"copy", "filter", "pass", "pass_with", "data"}
  /\ step.op \in {"pass", "pass_with"} => step.entry \in Entries
  /\ step.op = "data" => \E e, f \in Entries : step.entries \in {<<e>>, <<e, f>>}
  /\ step.op = "data" => step.empty \in BOOLEAN

AllSteps(steps) == IsList(steps) /\ \A n \in 1 .. Len(steps) : StepOK(steps[n])

\* The steps of a stage do to the planes what the stage does, and take at most
\* `more' slots of the ring.
ShowsStage(base, e, v, events, stage, steps, more) ==
  /\ AllSteps(steps)
  /\ \A m, c : \A k \in Nat : Shows(m, c, k) /\ IsPlanes(c) =>
       LET d == CpuStage(e, v, events, stage, c)
       IN IsPlanes(d) /\ Shows(Means(base, m, steps), d, k + more)

\* Lists of steps put together, or left out.
LEMMA AllConcat == ASSUME NEW s, NEW t, AllSteps(s), AllSteps(t) PROVE AllSteps(s \o t)
<1> DEFINE u == s \o t
<1>1. IsList(u) /\ Joins(s, t, u) BY ListConcat DEF AllSteps
<1> HIDE DEF u
<1>2. ASSUME NEW n \in 1 .. Len(u) PROVE StepOK(u[n])
  <2>1. CASE n <= Len(s)
    <3>1. n \in 1 .. Len(s) /\ u[n] = s[n] BY <1>1, <2>1 DEF Joins
    <3> QED BY <3>1 DEF AllSteps
  <2>2. CASE ~(n <= Len(s))
    <3>1. n - Len(s) \in 1 .. Len(t) /\ Len(s) + (n - Len(s)) = n BY <1>1, <2>2 DEF Joins
    <3>2. u[Len(s) + (n - Len(s))] = t[n - Len(s)] BY <1>1, <3>1 DEF Joins
    <3>3. u[n] = t[n - Len(s)] BY <3>1, <3>2
    <3> QED BY <3>1, <3>3 DEF AllSteps
  <2> QED BY <2>1, <2>2
<1>3. AllSteps(u) BY <1>1, <1>2 DEF AllSteps
<1> QED BY <1>3 DEF u

\* Short lists of steps.
LEMMA AllNone == AllSteps(<<>>)
<1> DEFINE s == <<>>
<1>1. IsList(s) /\ Len(s) = 0 BY ShortLists
<1> HIDE DEF s
<1>2. AllSteps(s) BY <1>1 DEF AllSteps
<1> QED BY <1>2 DEF s

\* One step.
LEMMA AllShort == ASSUME NEW c, StepOK(c) PROVE AllSteps(<<c>>)
<1> DEFINE s == <<c>>
<1>1. IsList(s) /\ Len(s) = 1 /\ s[1] = c BY ShortLists
<1> HIDE DEF s
<1>2. AllSteps(s) BY <1>1 DEF AllSteps
<1> QED BY <1>2 DEF s

\* Two steps, or three.
LEMMA AllTwo == ASSUME NEW c, NEW d, StepOK(c), StepOK(d) PROVE AllSteps(<<c, d>>)
<1>1. AllSteps(<<c>>) /\ AllSteps(<<d>>) BY AllShort
<1>2. <<c, d>> = <<c>> \o <<d>> BY ShortConcat
<1> QED BY <1>1, <1>2, AllConcat

\* Three steps.
LEMMA AllThree == ASSUME NEW c, NEW d, NEW e, StepOK(c), StepOK(d), StepOK(e) PROVE AllSteps(<<c, d, e>>)
<1>1. AllSteps(<<c, d>>) /\ AllSteps(<<e>>) BY AllShort, AllTwo
<1>2. <<c, d, e>> = <<c, d>> \o <<e>> BY ShortConcat
<1> QED BY <1>1, <1>2, AllConcat

\* A list that may be left out.
LEMMA AllWhen == ASSUME NEW condition, NEW s, AllSteps(s) PROVE AllSteps(When(condition, s))
BY AllNone DEF When

\* The copies to the scratch planes.
LEMMA AllCopies == ASSUME NEW P PROVE AllSteps(CopiesToScratch(P))
<1> DEFINE One(p) == When(p \in P, <<CopyToScratch(p)>>)
<1>1. ASSUME NEW p PROVE AllSteps(One(p))
  <2>1. StepOK(CopyToScratch(p)) BY DEF StepOK, CopyToScratch, Copy
  <2>2. AllSteps(<<CopyToScratch(p)>>) BY <2>1, AllShort
  <2> QED BY <2>2, AllWhen
<1>2. CopiesToScratch(P) = (One("y") \o One("i")) \o One("q") BY DEF CopiesToScratch
<1> HIDE DEF One
<1>3. AllSteps(One("y") \o One("i")) BY <1>1, AllConcat
<1> QED BY <1>1, <1>2, <1>3, AllConcat

\* The steps that stages are made of.
LEMMA StepsOK ==
  ASSUME NEW p, NEW coeffs, NEW set, NEW e \in Entries, NEW f \in Entries, NEW group, NEW rows, NEW drawn
  PROVE  /\ StepOK(CopyToScratch(p)) /\ StepOK(FilterPass("block_filter", coeffs))
         /\ StepOK(FilterPass("filter_plane", coeffs)) /\ StepOK(Pass(e, group))
         /\ StepOK(PassWith(set, e, group)) /\ StepOK(DataPasses(<<e>>, group, rows))
         /\ StepOK(DataPasses(<<e, f>>, group, rows)) /\ StepOK(SnowPass(rows, drawn))
<1>1. StepOK(CopyToScratch(p)) BY DEF StepOK, CopyToScratch, Copy
<1>2. StepOK(FilterPass("block_filter", coeffs)) /\ StepOK(FilterPass("filter_plane", coeffs))
  BY DEF StepOK, FilterPass
<1>3. StepOK(Pass(e, group)) BY DEF StepOK, Pass
<1>4. StepOK(PassWith(set, e, group)) BY DEF StepOK, PassWith
<1>5. StepOK(DataPasses(<<e>>, group, rows)) BY DEF StepOK, DataPasses
<1>6. StepOK(DataPasses(<<e, f>>, group, rows)) BY DEF StepOK, DataPasses
<1>7. StepOK(SnowPass(rows, drawn)) BY DEF StepOK, SnowPass, Entries
<1> QED BY <1>1, <1>2, <1>3, <1>4, <1>5, <1>6, <1>7

\* The commands of a filter are steps.
LEMMA AllFilter == ASSUME NEW s, NEW v, NEW coeffs PROVE AllSteps(FilterPlanes(s, v, coeffs))
<1> DEFINE P == DOMAIN coeffs
           block == FilterPass("block_filter", coeffs)
           plane == FilterPass("filter_plane", coeffs)
<1>1. StepOK(block) /\ StepOK(plane) BY StepsOK DEF Entries
<1>2. FilterPlanes(s, v, coeffs) \in {CopiesToScratch(P) \o <<block>>, <<plane>>} BY DEF FilterPlanes
<1> HIDE DEF block, plane, P
<1>3. AllSteps(CopiesToScratch(P)) BY AllCopies
<1>4. AllSteps(<<block>>) /\ AllSteps(<<plane>>) BY <1>1, AllShort
<1>5. AllSteps(CopiesToScratch(P) \o <<block>>) BY <1>3, <1>4, AllConcat
<1> QED BY <1>2, <1>4, <1>5

\* What the CPU does in each stage that is not switched off.
LEMMA StageIs ==
  ASSUME NEW e, NEW v, NEW events, NEW c
  PROVE  /\ Enabled(e, "luma_filter") => CpuStage(e, v, events, "luma_filter", c) = LumaFilter(e, c)
         /\ Enabled(e, "chroma_lowpass_in") => CpuStage(e, v, events, "chroma_lowpass_in", c) =
                 ChromaLowpass(e.chroma_lowpass_in, c)
         /\ Enabled(e, "chroma_into_luma") => CpuStage(e, v, events, "chroma_into_luma", c) =
                 ChromaIntoLuma(v, c)
         /\ Enabled(e, "composite_sharpening") => CpuStage(e, v, events, "composite_sharpening", c) =
                 FilterY(Coeffs("sharpening", "zero", 0), c)
         /\ Enabled(e, "composite_noise") => CpuStage(e, v, events, "composite_noise", c) =
                 [c EXCEPT !.y = Noise(Seed("composite_noise", v), @)]
         /\ Enabled(e, "snow") => CpuStage(e, v, events, "snow", c) =
                 SpeckleY(Seed("snow", v), "snow" \in events, c)
         /\ Enabled(e, "head_switching") => CpuStage(e, v, events, "head_switching", c) = HeadSwitching(v, c)
         /\ Enabled(e, "tracking_noise") => CpuStage(e, v, events, "tracking_noise", c) =
                 TrackingNoise(v, "tracking_noise" \in events, c)
         /\ Enabled(e, "luma_into_chroma") => CpuStage(e, v, events, "luma_into_chroma", c) =
                 LumaIntoChroma(e, v, c)
         /\ Enabled(e, "luma_smear") => CpuStage(e, v, events, "luma_smear", c) =
                 FilterY(Coeffs("smear", "zero", 0), c)
         /\ Enabled(e, "ringing") => CpuStage(e, v, events, "ringing", c) =
                 FilterY(Coeffs("ringing", "first", 1), c)
         /\ Enabled(e, "luma_noise") => CpuStage(e, v, events, "luma_noise", c) =
                 [c EXCEPT !.y = Noise(Seed("luma_noise", v), @)]
         /\ Enabled(e, "chroma_noise") => CpuStage(e, v, events, "chroma_noise", c) = ChromaNoise(v, c)
         /\ Enabled(e, "chroma_phase_error") => CpuStage(e, v, events, "chroma_phase_error", c) =
                 RotateChroma(<<"error">>, c)
         /\ Enabled(e, "chroma_phase_noise") => CpuStage(e, v, events, "chroma_phase_noise", c) =
                 RotateChroma(Seed("chroma_phase_noise", v), c)
         /\ Enabled(e, "chroma_delay") => CpuStage(e, v, events, "chroma_delay", c) = ChromaDelay(c)
         /\ Enabled(e, "vhs_edge_wave") => CpuStage(e, v, events, "vhs_edge_wave", c) = VhsEdgeWave(v, c)
         /\ Enabled(e, "vhs_tape") => CpuStage(e, v, events, "vhs_tape", c) = VhsTape(e, c)
         /\ Enabled(e, "chroma_loss") => CpuStage(e, v, events, "chroma_loss", c) = ChromaLoss(v, c)
         /\ Enabled(e, "vhs_sharpen") => CpuStage(e, v, events, "vhs_sharpen", c) =
                 FilterY(Coeffs("vhs_sharpen", "zero", 0), c)
         /\ Enabled(e, "chroma_vert_blend") => CpuStage(e, v, events, "chroma_vert_blend", c) =
                 ChromaVertBlend(v, c)
         /\ Enabled(e, "chroma_lowpass_out") => CpuStage(e, v, events, "chroma_lowpass_out", c) =
                 ChromaLowpass(e.chroma_lowpass_out, c)
<1> USE DEF CpuStage
<1>1. Enabled(e, "luma_filter") => CpuStage(e, v, events, "luma_filter", c) = LumaFilter(e, c) OBVIOUS
<1>2. Enabled(e, "chroma_lowpass_in") => CpuStage(e, v, events, "chroma_lowpass_in", c) =
        ChromaLowpass(e.chroma_lowpass_in, c) OBVIOUS
<1>3. Enabled(e, "chroma_into_luma") => CpuStage(e, v, events, "chroma_into_luma", c) =
        ChromaIntoLuma(v, c) OBVIOUS
<1>4. Enabled(e, "composite_sharpening") => CpuStage(e, v, events, "composite_sharpening", c) =
        FilterY(Coeffs("sharpening", "zero", 0), c) OBVIOUS
<1>5. Enabled(e, "composite_noise") => CpuStage(e, v, events, "composite_noise", c) =
        [c EXCEPT !.y = Noise(Seed("composite_noise", v), @)] OBVIOUS
<1>6. Enabled(e, "snow") => CpuStage(e, v, events, "snow", c) =
        SpeckleY(Seed("snow", v), "snow" \in events, c) OBVIOUS
<1>7. Enabled(e, "head_switching") => CpuStage(e, v, events, "head_switching", c) = HeadSwitching(v, c) OBVIOUS
<1>8. Enabled(e, "tracking_noise") => CpuStage(e, v, events, "tracking_noise", c) =
        TrackingNoise(v, "tracking_noise" \in events, c) OBVIOUS
<1>9. Enabled(e, "luma_into_chroma") => CpuStage(e, v, events, "luma_into_chroma", c) =
        LumaIntoChroma(e, v, c) OBVIOUS
<1>10. Enabled(e, "luma_smear") => CpuStage(e, v, events, "luma_smear", c) =
        FilterY(Coeffs("smear", "zero", 0), c) OBVIOUS
<1>11. Enabled(e, "ringing") => CpuStage(e, v, events, "ringing", c) =
        FilterY(Coeffs("ringing", "first", 1), c) OBVIOUS
<1>12. Enabled(e, "luma_noise") => CpuStage(e, v, events, "luma_noise", c) =
        [c EXCEPT !.y = Noise(Seed("luma_noise", v), @)] OBVIOUS
<1>13. Enabled(e, "chroma_noise") => CpuStage(e, v, events, "chroma_noise", c) = ChromaNoise(v, c) OBVIOUS
<1>14. Enabled(e, "chroma_phase_error") => CpuStage(e, v, events, "chroma_phase_error", c) =
        RotateChroma(<<"error">>, c) OBVIOUS
<1>15. Enabled(e, "chroma_phase_noise") => CpuStage(e, v, events, "chroma_phase_noise", c) =
        RotateChroma(Seed("chroma_phase_noise", v), c) OBVIOUS
<1>16. Enabled(e, "chroma_delay") => CpuStage(e, v, events, "chroma_delay", c) = ChromaDelay(c) OBVIOUS
<1>17. Enabled(e, "vhs_edge_wave") => CpuStage(e, v, events, "vhs_edge_wave", c) = VhsEdgeWave(v, c) OBVIOUS
<1>18. Enabled(e, "vhs_tape") => CpuStage(e, v, events, "vhs_tape", c) = VhsTape(e, c) OBVIOUS
<1>19. Enabled(e, "chroma_loss") => CpuStage(e, v, events, "chroma_loss", c) = ChromaLoss(v, c) OBVIOUS
<1>20. Enabled(e, "vhs_sharpen") => CpuStage(e, v, events, "vhs_sharpen", c) =
        FilterY(Coeffs("vhs_sharpen", "zero", 0), c) OBVIOUS
<1>21. Enabled(e, "chroma_vert_blend") => CpuStage(e, v, events, "chroma_vert_blend", c) =
        ChromaVertBlend(v, c) OBVIOUS
<1>22. Enabled(e, "chroma_lowpass_out") => CpuStage(e, v, events, "chroma_lowpass_out", c) =
        ChromaLowpass(e.chroma_lowpass_out, c) OBVIOUS
<1> QED BY <1>1, <1>2, <1>3, <1>4, <1>5, <1>6, <1>7, <1>8, <1>9, <1>10, <1>11,
  <1>12, <1>13, <1>14, <1>15, <1>16, <1>17, <1>18, <1>19, <1>20, <1>21, <1>22

\* A stage that a setting may switch off.
LEMMA StageWhen ==
  ASSUME NEW base, NEW e, NEW v, NEW events, NEW stage, NEW steps, NEW more \in Nat, AllSteps(steps),
         ASSUME Enabled(e, stage), NEW m, NEW c, NEW k \in Nat, Shows(m, c, k), IsPlanes(c)
         PROVE  /\ IsPlanes(CpuStage(e, v, events, stage, c))
                /\ Shows(Means(base, m, steps), CpuStage(e, v, events, stage, c), k + more)
  PROVE  ShowsStage(base, e, v, events, stage, When(Enabled(e, stage), steps), more)
<1> DEFINE part == When(Enabled(e, stage), steps)
<1>1. AllSteps(part) BY AllWhen
<1>2. ASSUME NEW m, NEW c, NEW k \in Nat, Shows(m, c, k), IsPlanes(c)
      PROVE  /\ IsPlanes(CpuStage(e, v, events, stage, c))
             /\ Shows(Means(base, m, part), CpuStage(e, v, events, stage, c), k + more)
  <2>1. CASE Enabled(e, stage)
    <3>1. part = steps BY <2>1 DEF When
    <3> HIDE DEF part
    <3> QED BY <1>2, <2>1, <3>1
  <2>2. CASE ~Enabled(e, stage)
    <3>1. part = <<>> /\ CpuStage(e, v, events, stage, c) = c BY <2>2 DEF When, CpuStage
    <3> HIDE DEF part
    <3>2. Means(base, m, part) = m BY <3>1, MeansNone
    <3>3. Shows(m, c, k + more) BY <1>2 DEF Shows
    <3> QED BY <1>2, <3>1, <3>2, <3>3
  <2> QED BY <2>1, <2>2
<1> HIDE DEF part
<1>3. ShowsStage(base, e, v, events, stage, part, more) BY <1>1, <1>2 DEF ShowsStage
<1> QED BY <1>3 DEF part

\* A stage of one step.
LEMMA SingleStage ==
  ASSUME NEW base, NEW e, NEW v, NEW events, NEW stage, NEW step, NEW more \in Nat, StepOK(step),
         ASSUME Enabled(e, stage), NEW m, NEW c, NEW k \in Nat, Shows(m, c, k), IsPlanes(c)
         PROVE  /\ IsPlanes(CpuStage(e, v, events, stage, c))
                /\ Shows(Meaning(base, m, step), CpuStage(e, v, events, stage, c), k + more)
  PROVE  ShowsStage(base, e, v, events, stage, When(Enabled(e, stage), <<step>>), more)
<1>1. AllSteps(<<step>>) BY AllShort
<1>2. ASSUME Enabled(e, stage), NEW m, NEW c, NEW k \in Nat, Shows(m, c, k), IsPlanes(c)
      PROVE  /\ IsPlanes(CpuStage(e, v, events, stage, c))
             /\ Shows(Means(base, m, <<step>>), CpuStage(e, v, events, stage, c), k + more)
  <2>1. Means(base, m, <<step>>) = Meaning(base, m, step) BY MeansOne
  <2> QED BY <1>2, <2>1
<1> QED BY <1>1, <1>2, StageWhen

\* A stage that filters luma.
LEMMA FilterStage ==
  ASSUME NEW base, NEW s, NEW v, NEW events, NEW stage, NEW f,
         \A c : Enabled(s.effect, stage) => CpuStage(s.effect, v, events, stage, c) = FilterY(f, c)
  PROVE  ShowsStage(base, s.effect, v, events, stage, When(Enabled(s.effect, stage), FilterLuma(s, v, f)), 0)
<1> DEFINE steps == FilterLuma(s, v, f)
<1>1. AllSteps(steps) BY AllFilter DEF FilterLuma
<1>2. ASSUME Enabled(s.effect, stage), NEW m, NEW c, NEW k \in Nat, Shows(m, c, k), IsPlanes(c)
      PROVE  /\ IsPlanes(CpuStage(s.effect, v, events, stage, c))
             /\ Shows(Means(base, m, steps), CpuStage(s.effect, v, events, stage, c), k + 0)
  BY <1>2, FilterLumaShows
<1> HIDE DEF steps
<1>3. ShowsStage(base, s.effect, v, events, stage, When(Enabled(s.effect, stage), steps), 0)
  BY <1>1, <1>2, StageWhen
<1> QED BY <1>3 DEF steps

\* The buffers with luma, chroma or all planes written.
LumaSet(m, y) == [b |-> [m.b EXCEPT !["y"] = y], values |-> m.values, ring |-> m.ring]
ChromaSet(m, i, q) == [b |-> [m.b EXCEPT !["i"] = i, !["q"] = q], values |-> m.values, ring |-> m.ring]
PlanesSet(m, y, i, q) ==
  [b |-> [m.b EXCEPT !["y"] = y, !["i"] = i, !["q"] = q], values |-> m.values, ring |-> m.ring]

\* They show planes written with the same.
LEMMA LumaShows ==
  ASSUME NEW m, NEW c, NEW k, Shows(m, c, k), NEW d, d.i = c.i, d.q = c.q
  PROVE  Shows(LumaSet(m, d.y), d, k)
<1> DEFINE y == d.y
           b == [m.b EXCEPT !["y"] = y]
<1>1. IsFrame(m.b) BY DEF Shows
<1>2. IsFrame(b) /\ b["y"] = y /\ b["i"] = m.b["i"] /\ b["q"] = m.b["q"]
  <2> HIDE DEF y
  <2> QED BY <1>1, Names DEF IsFrame
<1>3. LumaSet(m, y) = [b |-> b, values |-> m.values, ring |-> m.ring] BY DEF LumaSet
<1> HIDE DEF b
<1> QED BY <1>2, <1>3 DEF Shows

\* The same for chroma.
LEMMA ChromaShows ==
  ASSUME NEW m, NEW c, NEW k, Shows(m, c, k), NEW d, d.y = c.y
  PROVE  Shows(ChromaSet(m, d.i, d.q), d, k)
<1> DEFINE i == d.i
           q == d.q
           b == [m.b EXCEPT !["i"] = i, !["q"] = q]
<1>1. IsFrame(m.b) BY DEF Shows
<1>2. IsFrame(b) /\ b["y"] = m.b["y"] /\ b["i"] = i /\ b["q"] = q
  <2> HIDE DEF i, q
  <2> QED BY <1>1, Names DEF IsFrame
<1>3. ChromaSet(m, i, q) = [b |-> b, values |-> m.values, ring |-> m.ring] BY DEF ChromaSet
<1> HIDE DEF b
<1> QED BY <1>2, <1>3 DEF Shows

\* The same for all planes.
LEMMA PlanesShow ==
  ASSUME NEW m, NEW c, NEW k, Shows(m, c, k), NEW d
  PROVE  Shows(PlanesSet(m, d.y, d.i, d.q), d, k)
<1> DEFINE y == d.y
           i == d.i
           q == d.q
           b == [m.b EXCEPT !["y"] = y, !["i"] = i, !["q"] = q]
<1>1. IsFrame(m.b) BY DEF Shows
<1>2. IsFrame(b) /\ b["y"] = y /\ b["i"] = i /\ b["q"] = q
  <2> HIDE DEF y, i, q
  <2> QED BY <1>1, Names DEF IsFrame
<1>3. PlanesSet(m, y, i, q) = [b |-> b, values |-> m.values, ring |-> m.ring] BY DEF PlanesSet
<1> HIDE DEF b
<1> QED BY <1>2, <1>3 DEF Shows

\* The buffers after a copy of luma to its scratch plane.
LEMMA LumaCopied ==
  ASSUME NEW base, NEW m, NEW c, NEW k, Shows(m, c, k)
  PROVE  LET r == Meaning(base, m, CopyToScratch("y")) IN Shows(r, c, k) /\ r.b["sy"] = c.y
<1> DEFINE b == [m.b EXCEPT !["sy"] = m.b["y"]]
<1>1. IsFrame(m.b) BY DEF Shows
<1>2. IsFrame(b) /\ b["y"] = m.b["y"] /\ b["i"] = m.b["i"] /\ b["q"] = m.b["q"] /\ b["sy"] = m.b["y"]
  BY <1>1, Names DEF IsFrame
<1>3. Meaning(base, m, CopyToScratch("y")) = [b |-> b, values |-> m.values, ring |-> m.ring]
  BY Names DEF Meaning, BuffersAfter, CopyToScratch, Copy
<1> HIDE DEF b
<1> QED BY <1>2, <1>3 DEF Shows

\* Passes on the luma plane.
LEMMA LumaPasses ==
  ASSUME NEW base, NEW m, NEW rows
  PROVE  /\ Meaning(base, m, DataPasses(<<"noise">>, MainGroup, rows)) = LumaSet(m, Noise(rows, m.b["y"]))
         /\ Meaning(base, m, SnowPass(rows, TRUE)) = LumaSet(m, Speckles(rows, m.b["y"]))
         /\ Meaning(base, m, Pass("luma_box", MainGroup)) = LumaSet(m, Separate("luma_box", m.b["y"]))
         /\ Meaning(base, m, Pass("chroma_into_luma", MainGroup)) =
                 LumaSet(m, Modulate(base.frame, m.b["y"], m.b["i"], m.b["q"]))
         /\ Meaning(base, m, DataPasses(<<"shift_y">>, MainGroup, rows)) =
                 LumaSet(m, Shifted(rows, m.b["sy"], m.b["y"]))
<1>1. Meaning(base, m, DataPasses(<<"noise">>, MainGroup, rows)) = LumaSet(m, Noise(rows, m.b["y"]))
  <2>1. Meaning(base, m, DataPasses(<<"noise">>, MainGroup, rows)) =
          [b |-> ShaderOf("noise", MainGroup, base, rows, m.b), values |-> m.values, ring |-> m.ring]
    BY DEF Meaning, BuffersAfter, DataPasses, DataMeaning
  <2>2. ShaderOf("noise", MainGroup, base, rows, m.b) = [m.b EXCEPT !["y"] = Noise(rows, m.b["y"])]
    BY DEF ShaderOf, Shader, MainGroup
  <2> QED BY <2>1, <2>2 DEF LumaSet
<1>2. Meaning(base, m, SnowPass(rows, TRUE)) = LumaSet(m, Speckles(rows, m.b["y"]))
  <2>1. Meaning(base, m, SnowPass(rows, TRUE)) =
          [b |-> ShaderOf("snow", MainGroup, base, rows, m.b), values |-> m.values, ring |-> m.ring]
    BY DEF Meaning, BuffersAfter, SnowPass, DataMeaning
  <2>2. ShaderOf("snow", MainGroup, base, rows, m.b) = [m.b EXCEPT !["y"] = Speckles(rows, m.b["y"])]
    BY DEF ShaderOf, Shader, MainGroup
  <2> QED BY <2>1, <2>2 DEF LumaSet
<1>3. Meaning(base, m, Pass("luma_box", MainGroup)) = LumaSet(m, Separate("luma_box", m.b["y"]))
  <2>1. Meaning(base, m, Pass("luma_box", MainGroup)) =
          [b |-> ShaderOf("luma_box", MainGroup, base, <<>>, m.b), values |-> m.values, ring |-> m.ring]
    BY DEF Meaning, BuffersAfter, Pass
  <2>2. ShaderOf("luma_box", MainGroup, base, <<>>, m.b) = [m.b EXCEPT !["y"] = Separate("luma_box", m.b["y"])]
    BY DEF ShaderOf, Shader, MainGroup
  <2> QED BY <2>1, <2>2 DEF LumaSet
<1>4. Meaning(base, m, Pass("chroma_into_luma", MainGroup)) =
        LumaSet(m, Modulate(base.frame, m.b["y"], m.b["i"], m.b["q"]))
  <2>1. Meaning(base, m, Pass("chroma_into_luma", MainGroup)) =
          [b |-> ShaderOf("chroma_into_luma", MainGroup, base, <<>>, m.b), values |-> m.values, ring |-> m.ring]
    BY DEF Meaning, BuffersAfter, Pass
  <2>2. ShaderOf("chroma_into_luma", MainGroup, base, <<>>, m.b) =
          [m.b EXCEPT !["y"] = Modulate(base.frame, m.b["y"], m.b["i"], m.b["q"])]
    BY DEF ShaderOf, Shader, MainGroup
  <2> QED BY <2>1, <2>2 DEF LumaSet
<1>5. Meaning(base, m, DataPasses(<<"shift_y">>, MainGroup, rows)) =
        LumaSet(m, Shifted(rows, m.b["sy"], m.b["y"]))
  <2>1. Meaning(base, m, DataPasses(<<"shift_y">>, MainGroup, rows)) =
          [b |-> ShaderOf("shift_y", MainGroup, base, rows, m.b), values |-> m.values, ring |-> m.ring]
    BY DEF Meaning, BuffersAfter, DataPasses, DataMeaning
  <2>2. ShaderOf("shift_y", MainGroup, base, rows, m.b) =
          [m.b EXCEPT !["y"] = Shifted(rows, m.b["sy"], m.b["y"])]
    BY DEF ShaderOf, Shader, MainGroup
  <2> QED BY <2>1, <2>2 DEF LumaSet
<1> QED BY <1>1, <1>2, <1>3, <1>4, <1>5

\* Noise in the luma plane.
LEMMA NoiseShows ==
  ASSUME NEW base, NEW m, NEW c, NEW k, Shows(m, c, k), IsPlanes(c), NEW rows
  PROVE  LET d == [c EXCEPT !.y = Noise(rows, @)]
             r == Meaning(base, m, DataPasses(<<"noise">>, MainGroup, rows))
         IN IsPlanes(d) /\ Shows(r, d, k)
<1> DEFINE d == [c EXCEPT !.y = Noise(rows, @)]
           r == Meaning(base, m, DataPasses(<<"noise">>, MainGroup, rows))
<1>1. IsPlanes(d) /\ d.y = Noise(rows, c.y) /\ d.i = c.i /\ d.q = c.q BY DEF IsPlanes
<1> HIDE DEF d
<1>2. m.b["y"] = c.y BY DEF Shows
<1>3. r = LumaSet(m, Noise(rows, m.b["y"])) BY LumaPasses
<1> HIDE DEF r
<1>4. Shows(LumaSet(m, d.y), d, k) BY <1>1, LumaShows
<1> QED BY <1>1, <1>2, <1>3, <1>4 DEF d, r

\* A stage that adds noise to luma.
LEMMA NoiseStage ==
  ASSUME NEW base, NEW e, NEW v, NEW events, NEW stage, NEW rows,
         \A c : Enabled(e, stage) => CpuStage(e, v, events, stage, c) = [c EXCEPT !.y = Noise(rows, @)]
  PROVE  ShowsStage(base, e, v, events, stage,
                    When(Enabled(e, stage), <<DataPasses(<<"noise">>, MainGroup, rows)>>), 0)
<1> DEFINE step == DataPasses(<<"noise">>, MainGroup, rows)
<1>1. StepOK(step) BY StepsOK DEF Entries
<1>2. ASSUME Enabled(e, stage), NEW m, NEW c, NEW k \in Nat, Shows(m, c, k), IsPlanes(c)
      PROVE  /\ IsPlanes(CpuStage(e, v, events, stage, c))
             /\ Shows(Meaning(base, m, step), CpuStage(e, v, events, stage, c), k + 0)
  <2> DEFINE d == [c EXCEPT !.y = Noise(rows, @)]
  <2>1. IsPlanes(d) /\ Shows(Meaning(base, m, step), d, k) BY <1>2, NoiseShows
  <2>2. CpuStage(e, v, events, stage, c) = d BY <1>2
  <2> HIDE DEF d, step
  <2> QED BY <2>1, <2>2
<1> HIDE DEF step
<1>3. ShowsStage(base, e, v, events, stage, When(Enabled(e, stage), <<step>>), 0)
  BY <1>1, <1>2, SingleStage
<1> QED BY <1>3 DEF step

\* Speckles in the luma plane, if there are any.
LEMMA SnowShows ==
  ASSUME NEW base, NEW m, NEW c, NEW k, Shows(m, c, k), IsPlanes(c), NEW rows, NEW drawn \in BOOLEAN
  PROVE  LET d == SpeckleY(rows, drawn, c)
             r == Meaning(base, m, SnowPass(rows, drawn))
         IN IsPlanes(d) /\ Shows(r, d, k)
<1>1. CASE drawn = TRUE
  <2> DEFINE d == SpeckleY(rows, TRUE, c)
             r == Meaning(base, m, SnowPass(rows, TRUE))
  <2>1. IsPlanes(d) /\ d.y = Speckles(rows, c.y) /\ d.i = c.i /\ d.q = c.q BY DEF IsPlanes, SpeckleY
  <2> HIDE DEF d
  <2>2. m.b["y"] = c.y BY DEF Shows
  <2>3. r = LumaSet(m, Speckles(rows, m.b["y"])) BY LumaPasses
  <2> HIDE DEF r
  <2>4. Shows(LumaSet(m, d.y), d, k) BY <2>1, LumaShows
  <2>5. IsPlanes(d) /\ Shows(r, d, k) BY <2>1, <2>2, <2>3, <2>4
  <2> QED BY <1>1, <2>5 DEF d, r
<1>2. CASE drawn = FALSE
  <2> DEFINE d == SpeckleY(rows, FALSE, c)
             r == Meaning(base, m, SnowPass(rows, FALSE))
  <2>1. d = c BY DEF SpeckleY
  <2>2. r = [b |-> m.b, values |-> m.values, ring |-> m.ring]
    BY DEF Meaning, BuffersAfter, SnowPass
  <2> HIDE DEF d
  <2> HIDE DEF r
  <2>3. Shows(r, c, k) BY <2>2 DEF Shows
  <2>5. IsPlanes(d) /\ Shows(r, d, k) BY <2>1, <2>3
  <2> QED BY <1>2, <2>5 DEF d, r
<1> QED BY <1>1, <1>2

\* The snow of a field.
LEMMA SnowStage ==
  ASSUME NEW base, NEW e, NEW v, NEW events
  PROVE  ShowsStage(base, e, v, events, "snow",
                    When(Enabled(e, "snow"), <<SnowPass(Seed("snow", v), "snow" \in events)>>), 0)
<1> DEFINE stage == "snow"
           rows == Seed("snow", v)
           drawn == "snow" \in events
           step == SnowPass(rows, drawn)
<1>1. StepOK(step) BY StepsOK DEF Entries
<1>2. ASSUME Enabled(e, stage), NEW m, NEW c, NEW k \in Nat, Shows(m, c, k), IsPlanes(c)
      PROVE  /\ IsPlanes(CpuStage(e, v, events, stage, c))
             /\ Shows(Meaning(base, m, step), CpuStage(e, v, events, stage, c), k + 0)
  <2>1. CpuStage(e, v, events, stage, c) = SpeckleY(rows, drawn, c) BY <1>2, StageIs
  <2>2. drawn \in BOOLEAN OBVIOUS
  <2> HIDE DEF rows, drawn
  <2>3. IsPlanes(SpeckleY(rows, drawn, c)) /\ Shows(Meaning(base, m, step), SpeckleY(rows, drawn, c), k)
    BY <1>2, <2>2, SnowShows
  <2> HIDE DEF step
  <2> QED BY <2>1, <2>3
<1> HIDE DEF step, stage
<1>3. ShowsStage(base, e, v, events, stage, When(Enabled(e, stage), <<step>>), 0)
  BY <1>1, <1>2, SingleStage
<1> QED BY <1>3 DEF step, stage

\* Passes on the chroma planes.
LEMMA ChromaPasses ==
  ASSUME NEW base, NEW m, NEW rows
  PROVE  /\ Meaning(base, m, DataPasses(<<"phase">>, MainGroup, rows)) =
              ChromaSet(m, Rotate("i", rows, m.b["i"], m.b["q"]), Rotate("q", rows, m.b["i"], m.b["q"]))
         /\ Meaning(base, m, DataPasses(<<"loss">>, MainGroup, rows)) =
                 ChromaSet(m, Lose(rows, m.b["i"]), Lose(rows, m.b["q"]))
<1>1. Meaning(base, m, DataPasses(<<"phase">>, MainGroup, rows)) =
        ChromaSet(m, Rotate("i", rows, m.b["i"], m.b["q"]), Rotate("q", rows, m.b["i"], m.b["q"]))
  <2>1. Meaning(base, m, DataPasses(<<"phase">>, MainGroup, rows)) =
          [b |-> ShaderOf("phase", MainGroup, base, rows, m.b), values |-> m.values, ring |-> m.ring]
    BY DEF Meaning, BuffersAfter, DataPasses, DataMeaning
  <2>2. ShaderOf("phase", MainGroup, base, rows, m.b) =
          [m.b EXCEPT !["i"] = Rotate("i", rows, m.b["i"], m.b["q"]), !["q"] = Rotate("q", rows, m.b["i"],
          m.b["q"])]
    BY DEF ShaderOf, Shader, MainGroup
  <2> QED BY <2>1, <2>2 DEF ChromaSet
<1>2. Meaning(base, m, DataPasses(<<"loss">>, MainGroup, rows)) =
        ChromaSet(m, Lose(rows, m.b["i"]), Lose(rows, m.b["q"]))
  <2>1. Meaning(base, m, DataPasses(<<"loss">>, MainGroup, rows)) =
          [b |-> ShaderOf("loss", MainGroup, base, rows, m.b), values |-> m.values, ring |-> m.ring]
    BY DEF Meaning, BuffersAfter, DataPasses, DataMeaning
  <2>2. ShaderOf("loss", MainGroup, base, rows, m.b) =
          [m.b EXCEPT !["i"] = Lose(rows, m.b["i"]), !["q"] = Lose(rows, m.b["q"])]
    BY DEF ShaderOf, Shader, MainGroup
  <2> QED BY <2>1, <2>2 DEF ChromaSet
<1> QED BY <1>1, <1>2

\* The buffers with a slot taken for uniforms of which some are set.
Advanced(m, set) == [b |-> m.b, values |-> Changed(m.values, set), ring |-> m.ring + 1]

\* The planes are shown as before, with one slot more.
LEMMA AdvancedShows ==
  ASSUME NEW m, NEW c, NEW k \in Nat, Shows(m, c, k), NEW set
  PROVE  Shows(Advanced(m, set), c, k + 1)
<1>1. DOMAIN Changed(m.values, set) = DOMAIN m.values BY DEF Changed
<1> QED BY <1>1 DEF Shows, Advanced

\* Passes on the chroma planes with uniforms of their own.
LEMMA UniformPasses ==
  ASSUME NEW base, NEW m, DOMAIN m.values = {"frame", "angle", "delay"}
  PROVE  /\ LET set == [angle |-> <<"error">>]
            IN Meaning(base, m, PassWith(set, "chroma_phase", MainGroup)) =
                        ChromaSet(Advanced(m, set), Rotate("i", <<"error">>, m.b["i"], m.b["q"]),
                        Rotate("q", <<"error">>, m.b["i"], m.b["q"]))
         /\ LET set == [delay |-> "scaled"]
            IN Meaning(base, m, PassWith(set, "chroma_delay", MainGroup)) =
                        ChromaSet(Advanced(m, set), Delay("scaled", m.b["si"]), Delay("scaled", m.b["sq"]))
         /\ LET set == NothingNew
            IN Meaning(base, m, PassWith(set, "chroma_vert_blend", ChromaLossGroup)) =
                        ChromaSet(Advanced(m, set), Blend(m.b["i"]), Blend(m.b["q"]))
<1>1. LET set == [angle |-> <<"error">>]
      IN Meaning(base, m, PassWith(set, "chroma_phase", MainGroup)) =
                  ChromaSet(Advanced(m, set), Rotate("i", <<"error">>, m.b["i"], m.b["q"]), Rotate("q",
                  <<"error">>, m.b["i"], m.b["q"]))
  <2> DEFINE set == [angle |-> <<"error">>]
             u == Changed(m.values, set)
  <2>1. Meaning(base, m, PassWith(set, "chroma_phase", MainGroup)) =
          [b |-> ShaderOf("chroma_phase", MainGroup, u, <<>>, m.b), values |-> u, ring |-> m.ring + 1]
    BY DEF Meaning, BuffersAfter, PassWith
  <2>2. u.angle = <<"error">> /\ u.angle # <<"none">> BY DEF Changed
  <2> HIDE DEF u
  <2>3. ShaderOf("chroma_phase", MainGroup, u, <<>>, m.b) =
          [m.b EXCEPT !["i"] = Rotate("i", <<"error">>, m.b["i"], m.b["q"]), !["q"] = Rotate("q",
          <<"error">>, m.b["i"], m.b["q"])]
    BY <2>2 DEF ShaderOf, Shader, MainGroup
  <2> USE DEF u
  <2> QED BY <2>1, <2>3 DEF ChromaSet, Advanced
<1>2. LET set == [delay |-> "scaled"]
      IN Meaning(base, m, PassWith(set, "chroma_delay", MainGroup)) =
                  ChromaSet(Advanced(m, set), Delay("scaled", m.b["si"]), Delay("scaled", m.b["sq"]))
  <2> DEFINE set == [delay |-> "scaled"]
             u == Changed(m.values, set)
  <2>1. Meaning(base, m, PassWith(set, "chroma_delay", MainGroup)) =
          [b |-> ShaderOf("chroma_delay", MainGroup, u, <<>>, m.b), values |-> u, ring |-> m.ring + 1]
    BY DEF Meaning, BuffersAfter, PassWith
  <2>2. u.delay = "scaled" BY DEF Changed
  <2> HIDE DEF u
  <2>3. ShaderOf("chroma_delay", MainGroup, u, <<>>, m.b) =
          [m.b EXCEPT !["i"] = Delay("scaled", m.b["si"]), !["q"] = Delay("scaled", m.b["sq"])]
    BY <2>2 DEF ShaderOf, Shader, MainGroup
  <2> USE DEF u
  <2> QED BY <2>1, <2>3 DEF ChromaSet, Advanced
<1>3. LET set == NothingNew
      IN Meaning(base, m, PassWith(set, "chroma_vert_blend", ChromaLossGroup)) =
                  ChromaSet(Advanced(m, set), Blend(m.b["i"]), Blend(m.b["q"]))
  <2> DEFINE set == NothingNew
             u == Changed(m.values, set)
  <2>1. Meaning(base, m, PassWith(set, "chroma_vert_blend", ChromaLossGroup)) =
          [b |-> ShaderOf("chroma_vert_blend", ChromaLossGroup, u, <<>>, m.b), values |-> u,
                  ring |-> m.ring + 1]
    BY DEF Meaning, BuffersAfter, PassWith
  <2>2. TRUE OBVIOUS
  <2> HIDE DEF u
  <2>3. ShaderOf("chroma_vert_blend", ChromaLossGroup, u, <<>>, m.b) =
          [m.b EXCEPT !["i"] = Blend(m.b["i"]), !["q"] = Blend(m.b["q"])]
    BY <2>2 DEF ShaderOf, Shader, ChromaLossGroup
  <2> USE DEF u
  <2> QED BY <2>1, <2>3 DEF ChromaSet, Advanced
<1> QED BY <1>1, <1>2, <1>3

\* The demodulation of the signal in the scratch plane.
LEMMA DemodulateShows ==
  ASSUME NEW base, NEW m, NEW mode \in {"box", "notch", "one_line", "two_line"}
  PROVE  LET y == IF mode = "notch" THEN m.b["y"] ELSE Separate(mode, m.b["sy"])
         IN Meaning(base, m, Pass(DemodulateEntry[mode], MainGroup)) =
              PlanesSet(m, y, Demodulate("i", base.frame, y, m.b["sy"]), Demodulate("q", base.frame, y,
                      m.b["sy"]))
<1> DEFINE entry == DemodulateEntry[mode]
<1>1. Meaning(base, m, Pass(entry, MainGroup)) =
        [b |-> ShaderOf(entry, MainGroup, base, <<>>, m.b), values |-> m.values, ring |-> m.ring]
  BY DEF Meaning, BuffersAfter, Pass
<1>2. ShaderOf(entry, MainGroup, base, <<>>, m.b) = DemodulateShader(mode, base, m.b)
  <2> USE DEF ShaderOf, Shader, DemodulateEntry
  <2>1. CASE mode = "box" BY <2>1
  <2>2. CASE mode = "notch" BY <2>2
  <2>3. CASE mode = "one_line" BY <2>3
  <2>4. CASE mode = "two_line" BY <2>4
  <2> QED BY <2>1, <2>2, <2>3, <2>4
<1> HIDE DEF entry
<1>3. Meaning(base, m, Pass(entry, MainGroup)) =
        [b |-> DemodulateShader(mode, base, m.b), values |-> m.values, ring |-> m.ring] BY <1>1, <1>2
<1> QED BY <1>3 DEF DemodulateShader, PlanesSet, entry

\* The shift of all planes.
LEMMA ShiftAllShows ==
  ASSUME NEW base, NEW m, NEW rows
  PROVE  Meaning(base, m, DataPasses(<<"shift_all">>, MainGroup, rows)) =
           PlanesSet(m, Shift(rows, m.b["sy"]), Shift(rows, m.b["si"]), Shift(rows, m.b["sq"]))
<1>1. Meaning(base, m, DataPasses(<<"shift_all">>, MainGroup, rows)) =
        [b |-> ShaderOf("shift_all", MainGroup, base, rows, m.b), values |-> m.values, ring |-> m.ring]
  BY DEF Meaning, BuffersAfter, DataPasses, DataMeaning
<1>2. ShaderOf("shift_all", MainGroup, base, rows, m.b) =
        [m.b EXCEPT !["y"] = Shift(rows, m.b["sy"]), !["i"] = Shift(rows, m.b["si"]),
                    !["q"] = Shift(rows, m.b["sq"])]
  BY DEF ShaderOf, Shader, MainGroup
<1> QED BY <1>1, <1>2 DEF PlanesSet

-----------------------------------------------------------------------------
(* The stages of several steps                                             *)

\* The luma filter of the input.
LEMMA LumaFilterStage ==
  ASSUME NEW base, NEW s, NEW v, NEW events, s.effect.luma_filter \in {"none", "notch", "box"}
  PROVE  ShowsStage(base, s.effect, v, events, "luma_filter", LumaFilterSteps(s, v), 0)
<1> DEFINE e == s.effect
           stage == "luma_filter"
           steps == LumaFilterSteps(s, v)
           f == Coeffs("notch", "first", 0)
           box == Pass("luma_box", MainGroup)
<1>1. Enabled(e, stage) BY DEF Enabled, Optional
<1>2. ASSUME NEW c PROVE CpuStage(e, v, events, stage, c) = LumaFilter(e, c) BY <1>1, StageIs
<1> HIDE DEF stage
<1>3. CASE e.luma_filter = "none"
  <2>1. steps = <<>> BY <1>3 DEF LumaFilterSteps
  <2> HIDE DEF steps
  <2>2. AllSteps(steps) BY <2>1, AllNone
  <2>3. ASSUME NEW m, NEW c, NEW k \in Nat, Shows(m, c, k), IsPlanes(c)
        PROVE  LET d == CpuStage(e, v, events, stage, c)
               IN IsPlanes(d) /\ Shows(Means(base, m, steps), d, k + 0)
    <3>1. CpuStage(e, v, events, stage, c) = c BY <1>2, <1>3 DEF LumaFilter
    <3>2. Means(base, m, steps) = m BY <2>1, MeansNone
    <3> QED BY <2>3, <3>1, <3>2
  <2>4. ShowsStage(base, e, v, events, stage, steps, 0) BY <2>2, <2>3 DEF ShowsStage
  <2> QED BY <2>4 DEF steps, stage
<1>4. CASE e.luma_filter = "notch"
  <2>1. steps = FilterLuma(s, v, f) BY <1>4 DEF LumaFilterSteps
  <2> HIDE DEF f
  <2>2. AllSteps(FilterLuma(s, v, f)) BY AllFilter DEF FilterLuma
  <2>3. ASSUME NEW m, NEW c, NEW k \in Nat, Shows(m, c, k), IsPlanes(c)
        PROVE  LET d == CpuStage(e, v, events, stage, c)
               IN IsPlanes(d) /\ Shows(Means(base, m, FilterLuma(s, v, f)), d, k + 0)
    <3>1. CpuStage(e, v, events, stage, c) = FilterY(f, c) BY <1>2, <1>4 DEF LumaFilter, FilterY, f
    <3> QED BY <2>3, <3>1, FilterLumaShows
  <2> HIDE DEF steps
  <2>4. ShowsStage(base, e, v, events, stage, steps, 0) BY <2>1, <2>2, <2>3 DEF ShowsStage
  <2> QED BY <2>4 DEF steps, stage
<1>5. CASE e.luma_filter = "box"
  <2>1. steps = <<box>> BY <1>5 DEF LumaFilterSteps
  <2>2. StepOK(box) BY StepsOK DEF Entries
  <2>3. AllSteps(<<box>>) BY <2>2, AllShort
  <2>4. ASSUME NEW m, NEW c, NEW k \in Nat, Shows(m, c, k), IsPlanes(c)
        PROVE  LET d == CpuStage(e, v, events, stage, c)
               IN IsPlanes(d) /\ Shows(Means(base, m, <<box>>), d, k + 0)
    <3> DEFINE d == [c EXCEPT !.y = Separate("luma_box", @)]
    <3>1. CpuStage(e, v, events, stage, c) = d BY <1>2, <1>5 DEF LumaFilter
    <3>2. IsPlanes(d) /\ d.y = Separate("luma_box", c.y) /\ d.i = c.i /\ d.q = c.q BY <2>4 DEF IsPlanes
    <3>3. Meaning(base, m, box) = LumaSet(m, Separate("luma_box", m.b["y"])) BY LumaPasses
    <3> HIDE DEF d
    <3>4. m.b["y"] = c.y BY <2>4 DEF Shows
    <3>5. Shows(LumaSet(m, d.y), d, k) BY <2>4, <3>2, LumaShows
    <3>6. Means(base, m, <<box>>) = Meaning(base, m, box)
      <4> HIDE DEF box
      <4> QED BY MeansOne
    <3>7. Means(base, m, <<box>>) = LumaSet(m, d.y) BY <3>2, <3>3, <3>4, <3>6
    <3> QED BY <3>1, <3>2, <3>5, <3>7
  <2> HIDE DEF steps, box
  <2>5. ShowsStage(base, e, v, events, stage, steps, 0) BY <2>1, <2>3, <2>4 DEF ShowsStage
  <2> QED BY <2>5 DEF steps, stage
<1> QED BY <1>3, <1>4, <1>5

\* The steps of a chroma low-pass.
LEMMA AllLowpass ==
  ASSUME NEW s, NEW v, NEW mode \in {"none", "light", "full"}
  PROVE  AllSteps(LowpassSteps(s, v, mode))
<1>1. ASSUME NEW f, NEW g PROVE AllSteps(FilterSeparately(s, v, f, g)) /\ AllSteps(FilterPlanes(s, v,
        [i |-> f, q |-> g]))
  <2> DEFINE a == FilterPlanes(s, v, [i |-> f])
             b == FilterPlanes(s, v, [q |-> g])
  <2>1. AllSteps(a) /\ AllSteps(b) BY AllFilter
  <2>2. FilterSeparately(s, v, f, g) = a \o b BY DEF FilterSeparately
  <2> HIDE DEF a, b
  <2>3. AllSteps(a \o b) BY <2>1, AllConcat
  <2> QED BY <2>2, <2>3, AllFilter
<1>2. CASE mode = "none"
  <2>1. LowpassSteps(s, v, mode) = <<>> BY <1>2 DEF LowpassSteps
  <2> QED BY <2>1, AllNone
<1>3. CASE mode = "light"
  <2> DEFINE f == Coeffs("light", "zero", 1)
  <2>1. LowpassSteps(s, v, mode) = FilterChroma(s, v, f) BY <1>3 DEF LowpassSteps
  <2> HIDE DEF f
  <2>2. FilterChroma(s, v, f) \in {FilterPlanes(s, v, [i |-> f, q |-> f]), FilterSeparately(s, v, f, f)}
    BY DEF FilterChroma
  <2> QED BY <1>1, <2>1, <2>2
<1>4. CASE mode = "full"
  <2> DEFINE f == Coeffs("full_i", "zero", 2)
             g == Coeffs("full_q", "zero", 4)
  <2>1. LowpassSteps(s, v, mode) \in {FilterPlanes(s, v, [i |-> f, q |-> g]), FilterSeparately(s, v, f, g)}
    BY <1>4 DEF LowpassSteps
  <2> HIDE DEF f, g
  <2> QED BY <1>1, <2>1
<1> QED BY <1>2, <1>3, <1>4

\* The chroma low-pass in front of the effect, or behind it.
LEMMA LowpassStage ==
  ASSUME NEW base, NEW s, NEW v, NEW events, NEW stage, NEW mode \in {"none", "light", "full"},
         \A c : CpuStage(s.effect, v, events, stage, c) = ChromaLowpass(mode, c)
  PROVE  ShowsStage(base, s.effect, v, events, stage, LowpassSteps(s, v, mode), 0)
<1>1. AllSteps(LowpassSteps(s, v, mode)) BY AllLowpass
<1>2. ASSUME NEW m, NEW c, NEW k \in Nat, Shows(m, c, k), IsPlanes(c)
      PROVE  LET d == CpuStage(s.effect, v, events, stage, c)
             IN IsPlanes(d) /\ Shows(Means(base, m, LowpassSteps(s, v, mode)), d, k + 0)
  BY <1>2, LowpassShows
<1> QED BY <1>1, <1>2 DEF ShowsStage

\* Chroma is modulated into luma.
LEMMA ChromaIntoLumaStage ==
  ASSUME NEW base, NEW e, NEW v, NEW events, base.frame = v.frame
  PROVE  ShowsStage(base, e, v, events, "chroma_into_luma", <<Pass("chroma_into_luma", MainGroup)>>, 0)
<1> DEFINE stage == "chroma_into_luma"
           step == Pass("chroma_into_luma", MainGroup)
<1>1. Enabled(e, stage) BY DEF Enabled, Optional
<1>2. StepOK(step) BY StepsOK DEF Entries
<1>3. ASSUME Enabled(e, stage), NEW m, NEW c, NEW k \in Nat, Shows(m, c, k), IsPlanes(c)
      PROVE  /\ IsPlanes(CpuStage(e, v, events, stage, c))
             /\ Shows(Meaning(base, m, step), CpuStage(e, v, events, stage, c), k + 0)
  <2> DEFINE d == CpuStage(e, v, events, stage, c)
  <2>1. d = ChromaIntoLuma(v, c) BY <1>3, StageIs
  <2> HIDE DEF d
  <2>2. IsPlanes(d) /\ d.y = Modulate(v.frame, c.y, c.i, c.q) /\ d.i = c.i /\ d.q = c.q
    BY <1>3, <2>1 DEF IsPlanes, ChromaIntoLuma
  <2>3. Meaning(base, m, step) = LumaSet(m, Modulate(base.frame, m.b["y"], m.b["i"], m.b["q"])) BY LumaPasses
  <2>4. m.b["y"] = c.y /\ m.b["i"] = c.i /\ m.b["q"] = c.q BY <1>3 DEF Shows
  <2>5. Shows(LumaSet(m, d.y), d, k) BY <1>3, <2>2, LumaShows
  <2> HIDE DEF step
  <2>6. Meaning(base, m, step) = LumaSet(m, d.y) BY <2>2, <2>3, <2>4
  <2> QED BY <2>2, <2>5, <2>6 DEF d
<1> HIDE DEF step, stage
<1>4. ShowsStage(base, e, v, events, stage, When(Enabled(e, stage), <<step>>), 0)
  BY <1>2, <1>3, SingleStage
<1>5. When(Enabled(e, stage), <<step>>) = <<step>> BY <1>1 DEF When
<1> QED BY <1>4, <1>5 DEF step, stage

\* The rows at the head switch are shifted from a copy of luma.
LEMMA HeadStage ==
  ASSUME NEW base, NEW e, NEW v, NEW events
  PROVE  ShowsStage(base, e, v, events, "head_switching", When(Enabled(e, "head_switching"), HeadSteps(v)), 0)
<1> DEFINE stage == "head_switching"
           rows == Seed("head_switching", v)
           copy == CopyToScratch("y")
           pass == DataPasses(<<"shift_y">>, MainGroup, rows)
           steps == HeadSteps(v)
<1>1. StepOK(copy) /\ StepOK(pass) BY StepsOK DEF Entries
<1>2. steps = <<copy, pass>> BY DEF HeadSteps
<1>3. ASSUME Enabled(e, stage), NEW m, NEW c, NEW k \in Nat, Shows(m, c, k), IsPlanes(c)
      PROVE  /\ IsPlanes(CpuStage(e, v, events, stage, c))
             /\ Shows(Means(base, m, steps), CpuStage(e, v, events, stage, c), k + 0)
  <2> DEFINE d == CpuStage(e, v, events, stage, c)
             n == Meaning(base, m, copy)
  <2>1. d = HeadSwitching(v, c) BY <1>3, StageIs
  <2> HIDE DEF d
  <2>2. IsPlanes(d) /\ d.y = Shift(rows, c.y) /\ d.i = c.i /\ d.q = c.q
    BY <1>3, <2>1 DEF IsPlanes, HeadSwitching
  <2>3. Shows(n, c, k) /\ n.b["sy"] = c.y BY <1>3, LumaCopied
  <2> HIDE DEF n, rows
  <2>4. Meaning(base, n, pass) = LumaSet(n, Shifted(rows, n.b["sy"], n.b["y"])) BY LumaPasses
  <2>5. n.b["y"] = c.y BY <2>3 DEF Shows
  <2>6. Shifted(rows, n.b["sy"], n.b["y"]) = d.y BY <2>2, <2>3, <2>5 DEF Shifted
  <2>7. Shows(LumaSet(n, d.y), d, k) BY <2>2, <2>3, LumaShows
  <2> HIDE DEF steps, copy, pass
  <2>8. Means(base, m, <<copy, pass>>) = Meaning(base, Meaning(base, m, copy), pass) BY MeansTwo
  <2>9. Means(base, m, steps) = LumaSet(n, d.y) BY <1>2, <2>4, <2>6, <2>8 DEF n
  <2> QED BY <2>2, <2>7, <2>9 DEF d
<1> HIDE DEF steps, copy, pass
<1>4. AllSteps(steps) BY <1>1, <1>2, AllTwo
<1> HIDE DEF stage
<1>5. ShowsStage(base, e, v, events, stage, When(Enabled(e, stage), steps), 0) BY <1>3, <1>4, StageWhen
<1> QED BY <1>5 DEF steps, stage

\* Tracking noise: a shift from a copy of luma, noise, and snow.
LEMMA TrackingStage ==
  ASSUME NEW base, NEW e, NEW v, NEW events
  PROVE  ShowsStage(base, e, v, events, "tracking_noise",
                    When(Enabled(e, "tracking_noise"), TrackingSteps(v, "tracking_noise" \in events)), 0)
<1> DEFINE stage == "tracking_noise"
           drawn == "tracking_noise" \in events
           rows == Seed("tracking_noise", v)
           snow == Seed("tracking_snow", v)
           copy == CopyToScratch("y")
           pass == DataPasses(<<"shift_y", "noise">>, MainGroup, rows)
           last == SnowPass(snow, drawn)
           steps == TrackingSteps(v, drawn)
<1>1. StepOK(copy) /\ StepOK(pass) /\ StepOK(last) BY StepsOK DEF Entries
<1>2. steps = <<copy, pass, last>> BY DEF TrackingSteps
<1>3. ASSUME Enabled(e, stage), NEW m, NEW c, NEW k \in Nat, Shows(m, c, k), IsPlanes(c)
      PROVE  /\ IsPlanes(CpuStage(e, v, events, stage, c))
             /\ Shows(Means(base, m, steps), CpuStage(e, v, events, stage, c), k + 0)
  <2> DEFINE d == CpuStage(e, v, events, stage, c)
             g == [c EXCEPT !.y = Noise(rows, Shift(rows, @)), !.s = Scrap]
             n == Meaning(base, m, copy)
             o == Meaning(base, n, pass)
             r == Meaning(base, o, last)
  <2>1. d = SpeckleY(snow, drawn, g)
    <3>1. d = TrackingNoise(v, drawn, c) BY <1>3, StageIs
    <3> HIDE DEF d, drawn
    <3>2. TrackingNoise(v, drawn, c) = SpeckleY(snow, drawn, g) BY DEF TrackingNoise
    <3> QED BY <3>1, <3>2
  <2>2. IsPlanes(g) /\ g.y = Noise(rows, Shift(rows, c.y)) /\ g.i = c.i /\ g.q = c.q BY <1>3 DEF IsPlanes
  <2> HIDE DEF d, g
  <2>3. Shows(n, c, k) /\ n.b["sy"] = c.y BY <1>3, LumaCopied
  <2> HIDE DEF n
  <2>4. n.b["y"] = c.y BY <2>3 DEF Shows
  <2>5. o = LumaSet(n, Noise(rows, Shifted(rows, n.b["sy"], n.b["y"])))
    <3> HIDE DEF rows
    <3> DEFINE b == ShaderOf("shift_y", MainGroup, base, rows, n.b)
               y == Shifted(rows, n.b["sy"], n.b["y"])
    <3>1. o = [b |-> ShaderOf("noise", MainGroup, base, rows, b), values |-> n.values, ring |-> n.ring]
      BY DEF Meaning, BuffersAfter, DataPasses, DataMeaning
    <3>2. b = [n.b EXCEPT !["y"] = y] BY DEF ShaderOf, Shader, MainGroup
    <3> HIDE DEF b, o, y
    <3>3. ShaderOf("noise", MainGroup, base, rows, b) = [b EXCEPT !["y"] = Noise(rows, b["y"])]
      BY DEF ShaderOf, Shader, MainGroup
    <3>4. IsFrame(n.b) BY <2>3 DEF Shows
    <3>5. [b EXCEPT !["y"] = Noise(rows, b["y"])] = [n.b EXCEPT !["y"] = Noise(rows, y)]
      BY <3>2, <3>4, Names DEF IsFrame
    <3>6. o = LumaSet(n, Noise(rows, y)) BY <3>1, <3>3, <3>5 DEF LumaSet
    <3> QED BY <3>6 DEF o, y
  <2>6. Noise(rows, Shifted(rows, n.b["sy"], n.b["y"])) = g.y BY <2>2, <2>3, <2>4 DEF Shifted
  <2>7. Shows(LumaSet(n, g.y), g, k) BY <2>2, <2>3, LumaShows
  <2>8. Shows(o, g, k)
    <3> HIDE DEF o, rows
    <3> QED BY <2>5, <2>6, <2>7
  <2>9. drawn \in BOOLEAN OBVIOUS
  <2> HIDE DEF o, snow, drawn
  <2>10. IsPlanes(SpeckleY(snow, drawn, g)) /\ Shows(r, SpeckleY(snow, drawn, g), k)
    BY <2>2, <2>8, <2>9, SnowShows
  <2> HIDE DEF copy, pass, last, steps
  <2>11. Means(base, m, <<copy, pass, last>>) = Meaning(base, Meaning(base, Meaning(base, m, copy), pass), last)
    BY MeansThree
  <2>12. Means(base, m, steps) = r BY <1>2, <2>11 DEF n, o
  <2> QED BY <2>1, <2>10, <2>12 DEF d
<1> HIDE DEF steps, copy, pass, last
<1>4. AllSteps(steps) BY <1>1, <1>2, AllThree
<1> HIDE DEF stage
<1>5. ShowsStage(base, e, v, events, stage, When(Enabled(e, stage), steps), 0) BY <1>3, <1>4, StageWhen
<1> QED BY <1>5 DEF steps, stage

\* Luma is demodulated from a copy made before the notch filter.
LEMMA DemodulationStage ==
  ASSUME NEW base, NEW s, NEW v, NEW events, base.frame = v.frame,
         s.effect.demodulation \in {"box", "notch", "one_line", "two_line"}
  PROVE  ShowsStage(base, s.effect, v, events, "luma_into_chroma", DemodulationSteps(s, v), 0)
<1> DEFINE e == s.effect
           stage == "luma_into_chroma"
           mode == DemodulationMode(s, v)
           f == Coeffs("notch", "zero", 0)
           copy == CopyToScratch("y")
           filter == When(mode = "notch", FilterLuma(s, v, f))
           pass == Pass(DemodulateEntry[mode], MainGroup)
           steps == DemodulationSteps(s, v)
<1>1. mode \in {"box", "notch", "one_line", "two_line"} BY DEF DemodulationMode
<1>2. steps = (<<copy>> \o filter) \o <<pass>> BY DEF DemodulationSteps
<1>3. StepOK(copy) /\ StepOK(pass)
  <2>1. DemodulateEntry[mode] \in Entries BY <1>1 DEF DemodulateEntry, Entries
  <2> QED BY <2>1, StepsOK DEF Entries
<1>4. Enabled(e, stage) BY DEF Enabled, Optional
<1>5. AllSteps(<<copy>>) /\ AllSteps(filter) /\ AllSteps(<<pass>>)
  <2>1. AllSteps(FilterLuma(s, v, f)) BY AllFilter DEF FilterLuma
  <2> QED BY <1>3, <2>1, AllShort, AllWhen
<1>6. ASSUME NEW m, NEW c, NEW k \in Nat, Shows(m, c, k), IsPlanes(c)
      PROVE  /\ IsPlanes(CpuStage(e, v, events, stage, c))
             /\ Shows(Means(base, m, steps), CpuStage(e, v, events, stage, c), k + 0)
  <2> DEFINE d == LumaIntoChroma(e, v, c)
             n == Meaning(base, m, copy)
             o == Means(base, n, filter)
             r == Meaning(base, o, pass)
             y == IF mode = "notch" THEN Filter(f, c.y) ELSE Separate(mode, c.y)
  <2>1. CpuStage(e, v, events, stage, c) = d BY <1>4, StageIs
  <2>2. mode = IF v.rows = 1 /\ e.demodulation \in {"one_line", "two_line"} THEN "notch" ELSE e.demodulation
    BY DEF DemodulationMode
  <2>3. d = [y |-> y, s |-> c.y, i |-> Demodulate("i", v.frame, y, c.y), q |-> Demodulate("q", v.frame, y, c.y)]
    BY <2>2 DEF LumaIntoChroma
  <2>4. IsPlanes(d) /\ d.y = y /\ d.i = Demodulate("i", v.frame, y, c.y) /\ d.q = Demodulate("q", v.frame,
          y, c.y)
    <3> HIDE DEF d, y
    <3> QED BY <2>3 DEF IsPlanes
  <2> HIDE DEF d
  <2>5. Shows(n, c, k) /\ n.b["sy"] = c.y BY <1>6, LumaCopied
  <2> HIDE DEF n, mode
  <2>6. /\ IsFrame(o.b) /\ o.values = n.values /\ o.ring = n.ring /\ o.b["sy"] = c.y
        /\ (IF mode = "notch" THEN o.b["y"] ELSE Separate(mode, o.b["sy"])) = y
    <3>1. CASE mode = "notch"
      <4>1. filter = FilterLuma(s, v, f) BY <3>1 DEF When
      <4> HIDE DEF filter, f
      <4>2. LET q == Means(base, n, FilterLuma(s, v, f))
            IN Shows(q, FilterY(f, c), k) /\ q.b["sy"] \in {n.b["sy"], n.b["y"]}
        BY <1>6, <2>5, FilterLumaShows
      <4>3. Shows(o, FilterY(f, c), k) /\ o.b["sy"] \in {n.b["sy"], n.b["y"]} BY <4>1, <4>2
      <4>4. FilterY(f, c).y = Filter(f, c.y) BY <1>6 DEF FilterY, IsPlanes
      <4>5. n.b["y"] = c.y BY <2>5 DEF Shows
      <4>6. o.values = n.values /\ o.ring = n.ring
        <5> DEFINE coeffs == [y |-> f]
        <5>1. DOMAIN coeffs = {"y"} OBVIOUS
        <5>2. FilterLuma(s, v, f) = FilterPlanes(s, v, coeffs) BY DEF FilterLuma
        <5> HIDE DEF coeffs
        <5>3. DOMAIN coeffs \subseteq Planes BY <5>1 DEF Planes
        <5>4. IsFrame(n.b) BY <2>5 DEF Shows
        <5>5. LET q == Means(base, n, FilterPlanes(s, v, coeffs)) IN q.values = n.values /\ q.ring = n.ring
          BY <5>3, <5>4, FilterPlanesMean
        <5> QED BY <4>1, <5>2, <5>5
      <4>7. IsFrame(o.b) /\ o.b["y"] = Filter(f, c.y) BY <4>3, <4>4 DEF Shows
      <4> HIDE DEF o
      <4> QED BY <2>5, <3>1, <4>3, <4>5, <4>6, <4>7
    <3>2. CASE mode # "notch"
      <4>1. filter = <<>> BY <3>2 DEF When
      <4> HIDE DEF filter
      <4>2. o = n BY <4>1, MeansNone
      <4>3. IsFrame(n.b) BY <2>5 DEF Shows
      <4> HIDE DEF o
      <4> QED BY <2>5, <3>2, <4>2, <4>3
    <3> QED BY <3>1, <3>2
  <2> DEFINE z == IF mode = "notch" THEN o.b["y"] ELSE Separate(mode, o.b["sy"])
  <2>7. r = PlanesSet(o, z, Demodulate("i", base.frame, z, o.b["sy"]), Demodulate("q", base.frame, z,
          o.b["sy"]))
    <3> HIDE DEF o
    <3> QED BY <1>1, DemodulateShows DEF mode
  <2>8. Means(base, m, steps) = r
    <3> HIDE DEF copy, filter, pass, steps
    <3>1. IsList(<<copy>>) /\ IsList(filter) /\ IsList(<<pass>>) BY <1>5 DEF AllSteps
    <3>2. IsList(<<copy>> \o filter) BY <3>1, ListConcat
    <3>3. Means(base, m, (<<copy>> \o filter) \o <<pass>>) =
            Means(base, Means(base, m, <<copy>> \o filter), <<pass>>) BY <3>1, <3>2, MeansConcat
    <3>4. Means(base, m, <<copy>> \o filter) = Means(base, Means(base, m, <<copy>>), filter)
      BY <3>1, MeansConcat
    <3>5. Means(base, m, <<copy>>) = n BY MeansOne DEF n
    <3>6. Means(base, m, <<copy>> \o filter) = o BY <3>4, <3>5
    <3> HIDE DEF o
    <3>7. Means(base, o, <<pass>>) = r BY MeansOne
    <3> QED BY <1>2, <3>3, <3>6, <3>7
  <2> HIDE DEF o, r, y
  <2>9. r = PlanesSet(o, d.y, d.i, d.q) BY <2>4, <2>6, <2>7
  <2>10. Shows(o, [y |-> o.b["y"], i |-> o.b["i"], q |-> o.b["q"]], k)
    BY <2>5, <2>6 DEF Shows
  <2>11. Shows(PlanesSet(o, d.y, d.i, d.q), d, k) BY <2>10, PlanesShow
  <2> HIDE DEF steps, stage
  <2> QED BY <2>1, <2>4, <2>8, <2>9, <2>11
<1> HIDE DEF copy, filter, pass, steps
<1>7. AllSteps(<<copy>> \o filter) BY <1>5, AllConcat
<1>8. AllSteps((<<copy>> \o filter) \o <<pass>>) BY <1>5, <1>7, AllConcat
<1>9. AllSteps(steps) BY <1>2, <1>8
<1> HIDE DEF stage
<1>10. ShowsStage(base, e, v, events, stage, steps, 0) BY <1>6, <1>9 DEF ShowsStage
<1> QED BY <1>10 DEF steps, stage

\* Noise in each of the chroma planes.
LEMMA ChromaNoiseStage ==
  ASSUME NEW base, NEW e, NEW v, NEW events
  PROVE  ShowsStage(base, e, v, events, "chroma_noise", When(Enabled(e, "chroma_noise"),
              ChromaNoiseSteps(v)), 0)
<1> DEFINE stage == "chroma_noise"
           ri == Seed("chroma_noise_i", v)
           rq == Seed("chroma_noise_q", v)
           first == DataPasses(<<"noise">>, IPassGroup, ri)
           second == DataPasses(<<"noise">>, QPassGroup, rq)
           steps == ChromaNoiseSteps(v)
<1>1. StepOK(first) /\ StepOK(second) BY StepsOK DEF Entries
<1>2. steps = <<first, second>> BY DEF ChromaNoiseSteps
<1>3. ASSUME Enabled(e, stage), NEW m, NEW c, NEW k \in Nat, Shows(m, c, k), IsPlanes(c)
      PROVE  /\ IsPlanes(CpuStage(e, v, events, stage, c))
             /\ Shows(Means(base, m, steps), CpuStage(e, v, events, stage, c), k + 0)
  <2> DEFINE d == ChromaNoise(v, c)
             x == [m.b EXCEPT !["i"] = Noise(ri, m.b["i"])]
             y == [x EXCEPT !["q"] = Noise(rq, x["q"])]
             n == Meaning(base, m, first)
             r == Meaning(base, n, second)
  <2>1. CpuStage(e, v, events, stage, c) = d BY <1>3, StageIs
  <2>2. IsPlanes(d) /\ d.y = c.y /\ d.i = Noise(ri, c.i) /\ d.q = Noise(rq, c.q)
    BY <1>3 DEF IsPlanes, ChromaNoise
  <2> HIDE DEF d, ri, rq
  <2>3. n = [b |-> x, values |-> m.values, ring |-> m.ring]
    <3>1. n = [b |-> ShaderOf("noise", IPassGroup, base, ri, m.b), values |-> m.values, ring |-> m.ring]
      BY DEF Meaning, BuffersAfter, DataPasses, DataMeaning
    <3>2. ShaderOf("noise", IPassGroup, base, ri, m.b) = x BY DEF ShaderOf, Shader, IPassGroup
    <3> QED BY <3>1, <3>2
  <2>4. IsFrame(m.b) BY <1>3 DEF Shows
  <2>5. IsFrame(x) /\ x["y"] = m.b["y"] /\ x["i"] = Noise(ri, m.b["i"]) /\ x["q"] = m.b["q"]
    BY <2>4, Names DEF IsFrame
  <2> HIDE DEF x, n
  <2>6. r = [b |-> y, values |-> n.values, ring |-> n.ring]
    <3>1. r = [b |-> ShaderOf("noise", QPassGroup, base, rq, n.b), values |-> n.values, ring |-> n.ring]
      BY DEF Meaning, BuffersAfter, DataPasses, DataMeaning
    <3>2. n.b = x BY <2>3
    <3>3. ShaderOf("noise", QPassGroup, base, rq, x) = y BY DEF ShaderOf, Shader, QPassGroup
    <3> HIDE DEF r, y
    <3> QED BY <3>1, <3>2, <3>3
  <2>7. IsFrame(y) /\ y["y"] = x["y"] /\ y["i"] = x["i"] /\ y["q"] = Noise(rq, x["q"])
    BY <2>5, Names DEF IsFrame
  <2> HIDE DEF y, r
  <2>8. m.b["y"] = c.y /\ m.b["i"] = c.i /\ m.b["q"] = c.q BY <1>3 DEF Shows
  <2>9. r.b = y /\ r.values = m.values /\ r.ring = m.ring BY <2>3, <2>6
  <2>10. Shows(r, d, k) BY <1>3, <2>2, <2>5, <2>7, <2>8, <2>9 DEF Shows
  <2> HIDE DEF first, second, steps
  <2>11. Means(base, m, <<first, second>>) = Meaning(base, Meaning(base, m, first), second) BY MeansTwo
  <2>12. Means(base, m, steps) = r BY <1>2, <2>11 DEF n, r
  <2> HIDE DEF stage
  <2> QED BY <2>1, <2>2, <2>10, <2>12
<1> HIDE DEF steps, first, second
<1>4. AllSteps(steps) BY <1>1, <1>2, AllTwo
<1> HIDE DEF stage
<1>5. ShowsStage(base, e, v, events, stage, When(Enabled(e, stage), steps), 0) BY <1>3, <1>4, StageWhen
<1> QED BY <1>5 DEF steps, stage

\* Chroma is rotated by a fixed angle, with uniforms of its own.
LEMMA PhaseErrorStage ==
  ASSUME NEW base, NEW e, NEW v, NEW events
  PROVE  ShowsStage(base, e, v, events, "chroma_phase_error",
           When(Enabled(e, "chroma_phase_error"),
                <<PassWith([angle |-> <<"error">>], "chroma_phase", MainGroup)>>), 1)
<1> DEFINE stage == "chroma_phase_error"
           set == [angle |-> <<"error">>]
           step == PassWith(set, "chroma_phase", MainGroup)
<1>1. StepOK(step)
  <2> HIDE DEF set
  <2> QED BY StepsOK DEF Entries
<1>2. ASSUME Enabled(e, stage), NEW m, NEW c, NEW k \in Nat, Shows(m, c, k), IsPlanes(c)
      PROVE  /\ IsPlanes(CpuStage(e, v, events, stage, c))
             /\ Shows(Meaning(base, m, step), CpuStage(e, v, events, stage, c), k + 1)
  <2> DEFINE d == RotateChroma(<<"error">>, c)
             r == Meaning(base, m, step)
             n == Advanced(m, set)
  <2>1. CpuStage(e, v, events, stage, c) = d BY <1>2, StageIs
  <2>2. /\ IsPlanes(d) /\ d.y = c.y /\ d.i = Rotate("i", <<"error">>, c.i, c.q)
        /\ d.q = Rotate("q", <<"error">>, c.i, c.q)
    BY <1>2 DEF IsPlanes, RotateChroma
  <2> HIDE DEF d
  <2>3. r = ChromaSet(n, Rotate("i", <<"error">>, m.b["i"], m.b["q"]), Rotate("q", <<"error">>, m.b["i"],
          m.b["q"]))
    <3>1. DOMAIN m.values = {"frame", "angle", "delay"} BY <1>2 DEF Shows
    <3> QED BY <3>1, UniformPasses
  <2> HIDE DEF r, step, stage, n
  <2>4. m.b["i"] = c.i /\ m.b["q"] = c.q BY <1>2 DEF Shows
  <2>5. r = ChromaSet(n, d.i, d.q) BY <2>2, <2>3, <2>4
  <2>6. Shows(n, c, k + 1) BY <1>2, AdvancedShows DEF n
  <2>7. Shows(ChromaSet(n, d.i, d.q), d, k + 1) BY <2>2, <2>6, ChromaShows
  <2> QED BY <2>1, <2>2, <2>5, <2>7 DEF r
<1> HIDE DEF step, stage
<1>3. ShowsStage(base, e, v, events, stage, When(Enabled(e, stage), <<step>>), 1)
  BY <1>1, <1>2, SingleStage
<1> QED BY <1>3 DEF step, stage

\* A stage that changes chroma by a pass with rows.
LEMMA PhaseNoiseStage ==
  ASSUME NEW base, NEW e, NEW v, NEW events
  PROVE  ShowsStage(base, e, v, events, "chroma_phase_noise",
           When(Enabled(e, "chroma_phase_noise"),
                <<DataPasses(<<"phase">>, MainGroup, Seed("chroma_phase_noise", v))>>), 0)
<1> DEFINE stage == "chroma_phase_noise"
           rows == Seed("chroma_phase_noise", v)
           step == DataPasses(<<"phase">>, MainGroup, rows)
<1>1. StepOK(step) BY StepsOK DEF Entries
<1>2. ASSUME Enabled(e, stage), NEW m, NEW c, NEW k \in Nat, Shows(m, c, k), IsPlanes(c)
      PROVE  /\ IsPlanes(CpuStage(e, v, events, stage, c))
             /\ Shows(Meaning(base, m, step), CpuStage(e, v, events, stage, c), k + 0)
  <2> DEFINE d == RotateChroma(rows, c)
             r == Meaning(base, m, step)
  <2>1. CpuStage(e, v, events, stage, c) = d BY <1>2, StageIs
  <2>2. IsPlanes(d) /\ d.y = c.y /\ d.i = Rotate("i", rows, c.i, c.q) /\ d.q = Rotate("q", rows, c.i, c.q)
    BY <1>2 DEF IsPlanes, RotateChroma
  <2> HIDE DEF d, rows
  <2>3. r = ChromaSet(m, Rotate("i", rows, m.b["i"], m.b["q"]), Rotate("q", rows, m.b["i"], m.b["q"]))
    BY ChromaPasses
  <2> HIDE DEF r, step, stage
  <2>4. m.b["i"] = c.i /\ m.b["q"] = c.q BY <1>2 DEF Shows
  <2>5. r = ChromaSet(m, d.i, d.q) BY <2>2, <2>3, <2>4
  <2>6. Shows(ChromaSet(m, d.i, d.q), d, k) BY <1>2, <2>2, ChromaShows
  <2> QED BY <2>1, <2>2, <2>5, <2>6 DEF r
<1> HIDE DEF step, stage
<1>3. ShowsStage(base, e, v, events, stage, When(Enabled(e, stage), <<step>>), 0)
  BY <1>1, <1>2, SingleStage
<1> QED BY <1>3 DEF step, stage

\* Rows that lose their chroma.
LEMMA ChromaLossStage ==
  ASSUME NEW base, NEW e, NEW v, NEW events
  PROVE  ShowsStage(base, e, v, events, "chroma_loss",
           When(Enabled(e, "chroma_loss"), <<DataPasses(<<"loss">>, MainGroup, Seed("chroma_loss", v))>>), 0)
<1> DEFINE stage == "chroma_loss"
           rows == Seed("chroma_loss", v)
           step == DataPasses(<<"loss">>, MainGroup, rows)
<1>1. StepOK(step) BY StepsOK DEF Entries
<1>2. ASSUME Enabled(e, stage), NEW m, NEW c, NEW k \in Nat, Shows(m, c, k), IsPlanes(c)
      PROVE  /\ IsPlanes(CpuStage(e, v, events, stage, c))
             /\ Shows(Meaning(base, m, step), CpuStage(e, v, events, stage, c), k + 0)
  <2> DEFINE d == ChromaLoss(v, c)
             r == Meaning(base, m, step)
  <2>1. CpuStage(e, v, events, stage, c) = d BY <1>2, StageIs
  <2>2. IsPlanes(d) /\ d.y = c.y /\ d.i = Lose(rows, c.i) /\ d.q = Lose(rows, c.q)
    BY <1>2 DEF IsPlanes, ChromaLoss
  <2> HIDE DEF d, rows
  <2>3. r = ChromaSet(m, Lose(rows, m.b["i"]), Lose(rows, m.b["q"])) BY ChromaPasses
  <2> HIDE DEF r, step, stage
  <2>4. m.b["i"] = c.i /\ m.b["q"] = c.q BY <1>2 DEF Shows
  <2>5. r = ChromaSet(m, d.i, d.q) BY <2>2, <2>3, <2>4
  <2>6. Shows(ChromaSet(m, d.i, d.q), d, k) BY <1>2, <2>2, ChromaShows
  <2> QED BY <2>1, <2>2, <2>5, <2>6 DEF r
<1> HIDE DEF step, stage
<1>3. ShowsStage(base, e, v, events, stage, When(Enabled(e, stage), <<step>>), 0)
  BY <1>1, <1>2, SingleStage
<1> QED BY <1>3 DEF step, stage

\* Chroma lines are blended if the image has two rows.
LEMMA VertBlendStage ==
  ASSUME NEW base, NEW e, NEW v, v.height \in Nat, NEW events
  PROVE  ShowsStage(base, e, v, events, "chroma_vert_blend",
           When(Enabled(e, "chroma_vert_blend"),
                When(v.height >= 2, <<PassWith(NothingNew, "chroma_vert_blend", ChromaLossGroup)>>)), 1)
<1> DEFINE stage == "chroma_vert_blend"
           set == NothingNew
           step == PassWith(set, "chroma_vert_blend", ChromaLossGroup)
           steps == When(v.height >= 2, <<step>>)
<1>1. StepOK(step) BY StepsOK DEF Entries
<1>2. AllSteps(steps)
  <2> HIDE DEF step
  <2> QED BY <1>1, AllShort, AllWhen
<1>3. ASSUME Enabled(e, stage), NEW m, NEW c, NEW k \in Nat, Shows(m, c, k), IsPlanes(c)
      PROVE  /\ IsPlanes(CpuStage(e, v, events, stage, c))
             /\ Shows(Means(base, m, steps), CpuStage(e, v, events, stage, c), k + 1)
  <2> DEFINE d == ChromaVertBlend(v, c)
             r == Meaning(base, m, step)
             n == Advanced(m, set)
  <2>1. CpuStage(e, v, events, stage, c) = d BY <1>3, StageIs
  <2>2. CASE v.height >= 2
    <3>1. IsPlanes(d) /\ d.y = c.y /\ d.i = Blend(c.i) /\ d.q = Blend(c.q)
      <4> DEFINE x == [c EXCEPT !.i = Blend(@), !.q = Blend(@), !.s = Scrap]
      <4>1. IsPlanes(x) /\ x.y = c.y /\ x.i = Blend(c.i) /\ x.q = Blend(c.q) BY <1>3 DEF IsPlanes
      <4>2. ~(v.height < 2) BY <2>2
      <4>3. d = x BY <4>2 DEF ChromaVertBlend
      <4> HIDE DEF d, x
      <4> QED BY <4>1, <4>3
    <3> HIDE DEF d
    <3>2. r = ChromaSet(n, Blend(m.b["i"]), Blend(m.b["q"]))
      <4>1. DOMAIN m.values = {"frame", "angle", "delay"} BY <1>3 DEF Shows
      <4> QED BY <4>1, UniformPasses
    <3>3. Means(base, m, steps) = r
      <4> HIDE DEF step
      <4>1. steps = <<step>> BY <2>2 DEF When
      <4> QED BY <4>1, MeansOne
    <3> HIDE DEF r, step, stage, n, steps
    <3>4. m.b["i"] = c.i /\ m.b["q"] = c.q BY <1>3 DEF Shows
    <3>5. r = ChromaSet(n, d.i, d.q) BY <3>1, <3>2, <3>4
    <3>6. Shows(n, c, k + 1) BY <1>3, AdvancedShows DEF n
    <3>7. Shows(ChromaSet(n, d.i, d.q), d, k + 1) BY <3>1, <3>6, ChromaShows
    <3> QED BY <2>1, <3>1, <3>3, <3>5, <3>7
  <2>3. CASE ~(v.height >= 2)
    <3>1. d = c BY <2>3 DEF ChromaVertBlend
    <3>2. steps = <<>> BY <2>3 DEF When
    <3> HIDE DEF d, steps, stage
    <3>3. Means(base, m, steps) = m BY <3>2, MeansNone
    <3>4. Shows(m, c, k + 1) BY <1>3 DEF Shows
    <3> QED BY <1>3, <2>1, <3>1, <3>3, <3>4
  <2> QED BY <2>2, <2>3
<1> HIDE DEF steps, stage
<1>4. ShowsStage(base, e, v, events, stage, When(Enabled(e, stage), steps), 1)
  BY <1>2, <1>3, StageWhen
<1> QED BY <1>4 DEF steps, stage

\* Chroma is delayed, from copies of its planes.
LEMMA ChromaDelayStage ==
  ASSUME NEW base, NEW e, NEW v, NEW events
  PROVE  ShowsStage(base, e, v, events, "chroma_delay", When(Enabled(e, "chroma_delay"), ChromaDelaySteps), 1)
<1> DEFINE stage == "chroma_delay"
           set == [delay |-> "scaled"]
           ci == CopyToScratch("i")
           cq == CopyToScratch("q")
           pass == PassWith(set, "chroma_delay", MainGroup)
           steps == ChromaDelaySteps
<1>1. StepOK(ci) /\ StepOK(cq) /\ StepOK(pass)
  <2> HIDE DEF set
  <2> QED BY StepsOK DEF Entries
<1>2. steps = <<ci, cq, pass>> BY DEF ChromaDelaySteps
<1>3. ASSUME Enabled(e, stage), NEW m, NEW c, NEW k \in Nat, Shows(m, c, k), IsPlanes(c)
      PROVE  /\ IsPlanes(CpuStage(e, v, events, stage, c))
             /\ Shows(Means(base, m, steps), CpuStage(e, v, events, stage, c), k + 1)
  <2> DEFINE d == ChromaDelay(c)
             x == [m.b EXCEPT !["si"] = m.b["i"]]
             y == [x EXCEPT !["sq"] = x["q"]]
             n == Meaning(base, m, ci)
             o == Meaning(base, n, cq)
             r == Meaning(base, o, pass)
             a == Advanced(o, set)
  <2>1. CpuStage(e, v, events, stage, c) = d BY <1>3, StageIs
  <2>2. IsPlanes(d) /\ d.y = c.y /\ d.i = Delay("scaled", c.i) /\ d.q = Delay("scaled", c.q)
    BY <1>3 DEF IsPlanes, ChromaDelay
  <2> HIDE DEF d
  <2>3. IsFrame(m.b) /\ m.b["y"] = c.y /\ m.b["i"] = c.i /\ m.b["q"] = c.q BY <1>3 DEF Shows
  <2>4. n = [b |-> x, values |-> m.values, ring |-> m.ring]
    BY Names DEF Meaning, BuffersAfter, CopyToScratch, Copy
  <2>5. IsFrame(x) /\ x["y"] = c.y /\ x["i"] = c.i /\ x["q"] = c.q /\ x["si"] = c.i
    BY <2>3, Names DEF IsFrame
  <2> HIDE DEF x, n
  <2>6. o = [b |-> y, values |-> n.values, ring |-> n.ring]
    <3>1. o = [b |-> [n.b EXCEPT !["sq"] = n.b["q"]], values |-> n.values, ring |-> n.ring]
      BY Names DEF Meaning, BuffersAfter, CopyToScratch, Copy
    <3>2. n.b = x BY <2>4
    <3> HIDE DEF o
    <3> QED BY <3>1, <3>2
  <2>7. IsFrame(y) /\ y["y"] = c.y /\ y["i"] = c.i /\ y["q"] = c.q /\ y["si"] = c.i /\ y["sq"] = c.q
    BY <2>5, Names DEF IsFrame
  <2> HIDE DEF y, o
  <2>8. o.b = y /\ o.values = m.values /\ o.ring = m.ring BY <2>4, <2>6
  <2>9. Shows(o, c, k) BY <1>3, <2>7, <2>8 DEF Shows
  <2>10. r = ChromaSet(a, Delay("scaled", o.b["si"]), Delay("scaled", o.b["sq"]))
    <3>1. DOMAIN o.values = {"frame", "angle", "delay"} BY <2>9 DEF Shows
    <3> QED BY <3>1, UniformPasses
  <2> HIDE DEF r, pass, a
  <2>11. r = ChromaSet(a, d.i, d.q) BY <2>2, <2>7, <2>8, <2>10
  <2>12. Shows(a, c, k + 1) BY <2>9, AdvancedShows DEF a
  <2>13. Shows(ChromaSet(a, d.i, d.q), d, k + 1) BY <2>2, <2>12, ChromaShows
  <2> HIDE DEF ci, cq, steps, stage
  <2>14. Means(base, m, <<ci, cq, pass>>) = Meaning(base, Meaning(base, Meaning(base, m, ci), cq), pass)
    BY MeansThree
  <2>15. Means(base, m, steps) = r BY <1>2, <2>14 DEF n, o, r
  <2> QED BY <2>1, <2>2, <2>11, <2>13, <2>15
<1> HIDE DEF steps, ci, cq, pass
<1>4. AllSteps(steps) BY <1>1, <1>2, AllThree
<1> HIDE DEF stage
<1>5. ShowsStage(base, e, v, events, stage, When(Enabled(e, stage), steps), 1) BY <1>3, <1>4, StageWhen
<1> QED BY <1>5 DEF steps, stage

\* All planes are shifted, from copies of them.
LEMMA EdgeWaveStage ==
  ASSUME NEW base, NEW e, NEW v, NEW events
  PROVE  ShowsStage(base, e, v, events, "vhs_edge_wave",
           When(Enabled(e, "vhs_edge_wave"),
                CopyAllToScratch \o <<DataPasses(<<"shift_all">>, MainGroup, Seed("vhs_edge_wave", v))>>), 0)
<1> DEFINE stage == "vhs_edge_wave"
           rows == Seed("vhs_edge_wave", v)
           copies == CopyAllToScratch
           pass == DataPasses(<<"shift_all">>, MainGroup, rows)
           steps == copies \o <<pass>>
<1>1. StepOK(pass) BY StepsOK DEF Entries
<1>2. AllSteps(copies) BY AllCopies DEF CopyAllToScratch
<1>3. AllSteps(<<pass>>)
  <2> HIDE DEF pass
  <2> QED BY <1>1, AllShort
<1>4. AllSteps(steps)
  <2> HIDE DEF copies, pass
  <2> QED BY <1>2, <1>3, AllConcat
<1>5. ASSUME Enabled(e, stage), NEW m, NEW c, NEW k \in Nat, Shows(m, c, k), IsPlanes(c)
      PROVE  /\ IsPlanes(CpuStage(e, v, events, stage, c))
             /\ Shows(Means(base, m, steps), CpuStage(e, v, events, stage, c), k + 0)
  <2> DEFINE d == VhsEdgeWave(v, c)
             n == Means(base, m, copies)
             r == Meaning(base, n, pass)
  <2>1. CpuStage(e, v, events, stage, c) = d BY <1>5, StageIs
  <2>2. IsPlanes(d) /\ d.y = Shift(rows, c.y) /\ d.i = Shift(rows, c.i) /\ d.q = Shift(rows, c.q)
    BY <1>5 DEF IsPlanes, VhsEdgeWave
  <2> HIDE DEF d, rows
  <2>3. IsFrame(m.b) /\ m.b["y"] = c.y /\ m.b["i"] = c.i /\ m.b["q"] = c.q BY <1>5 DEF Shows
  <2>4. /\ IsFrame(n.b) /\ n.values = m.values /\ n.ring = m.ring
        /\ \A p \in Planes : n.b[p] = m.b[p]
        /\ \A p \in Planes : n.b[ScratchOf[p]] = m.b[p]
    BY <2>3, CopiesMean DEF CopyAllToScratch
  <2> HIDE DEF n, copies
  <2>5. n.b["sy"] = c.y /\ n.b["si"] = c.i /\ n.b["sq"] = c.q BY <2>3, <2>4, Names DEF Planes
  <2>6. Shows(n, c, k) BY <1>5, <2>3, <2>4 DEF Shows, Planes
  <2>7. r = PlanesSet(n, Shift(rows, n.b["sy"]), Shift(rows, n.b["si"]), Shift(rows, n.b["sq"]))
    BY ShiftAllShows
  <2> HIDE DEF pass, r
  <2>8. r = PlanesSet(n, d.y, d.i, d.q) BY <2>2, <2>5, <2>7
  <2>9. Shows(PlanesSet(n, d.y, d.i, d.q), d, k) BY <2>6, PlanesShow
  <2>10. Means(base, m, steps) = r
    <3>1. IsList(copies) /\ IsList(<<pass>>) BY <1>2, <1>3 DEF AllSteps
    <3>2. Means(base, m, steps) = Means(base, n, <<pass>>) BY <3>1, MeansConcat DEF n
    <3> QED BY <3>2, MeansOne DEF r
  <2> HIDE DEF steps, stage
  <2> QED BY <2>1, <2>2, <2>8, <2>9, <2>10
<1> HIDE DEF steps, stage
<1>6. ShowsStage(base, e, v, events, stage, When(Enabled(e, stage), steps), 0) BY <1>4, <1>5, StageWhen
<1> QED BY <1>6 DEF steps, stage

\* The three filters of the tape.
LEMMA TapeStage ==
  ASSUME NEW base, NEW s, NEW v, NEW events
  PROVE  ShowsStage(base, s.effect, v, events, "vhs_tape",
                    When(Enabled(s.effect, "vhs_tape"), TapeSteps(s, v)), 0)
<1> DEFINE e == s.effect
           stage == "vhs_tape"
           f == Coeffs("tape_luma", "zero", 0)
           g == Coeffs("tape_chroma", "zero", e.tape_delay)
           h == Coeffs("tape_luma_again", "zero", 0)
           a == FilterLuma(s, v, f)
           b == FilterChroma(s, v, g)
           t == FilterLuma(s, v, h)
           steps == TapeSteps(s, v)
<1>1. steps = (a \o b) \o t BY DEF TapeSteps
<1>2. AllSteps(a) /\ AllSteps(b) /\ AllSteps(t)
  <2> HIDE DEF f, g, h
  <2>1. AllSteps(a) /\ AllSteps(t) BY AllFilter DEF FilterLuma
  <2>2. AllSteps(FilterPlanes(s, v, [i |-> g, q |-> g])) BY AllFilter
  <2>3. AllSteps(FilterPlanes(s, v, [i |-> g])) /\ AllSteps(FilterPlanes(s, v, [q |-> g])) BY AllFilter
  <2>4. AllSteps(FilterSeparately(s, v, g, g)) BY <2>3, AllConcat DEF FilterSeparately
  <2> QED BY <2>1, <2>2, <2>4 DEF FilterChroma
<1>3. ASSUME Enabled(e, stage), NEW m, NEW c, NEW k \in Nat, Shows(m, c, k), IsPlanes(c)
      PROVE  /\ IsPlanes(CpuStage(e, v, events, stage, c))
             /\ Shows(Means(base, m, steps), CpuStage(e, v, events, stage, c), k + 0)
  <2> DEFINE d == VhsTape(e, c)
             c1 == FilterY(f, c)
             c2 == [c1 EXCEPT !.i = Filter(g, @), !.q = Filter(g, @)]
             c3 == FilterY(h, c2)
             n == Means(base, m, a)
             o == Means(base, n, b)
             r == Means(base, o, t)
  <2>1. CpuStage(e, v, events, stage, c) = d BY <1>3, StageIs
  <2>2. /\ IsPlanes(d) /\ d.y = Filter(h, Filter(f, c.y)) /\ d.i = Filter(g, c.i)
        /\ d.q = Filter(g, c.q)
    BY <1>3 DEF IsPlanes, VhsTape
  <2> HIDE DEF d, f, g, h
  <2>3. IsPlanes(c1) /\ c1.y = Filter(f, c.y) /\ c1.i = c.i /\ c1.q = c.q BY <1>3 DEF IsPlanes, FilterY
  <2>4. Shows(n, c1, k) BY <1>3, FilterLumaShows
  <2> HIDE DEF c1, n
  <2>5. IsPlanes(c2) /\ c2.y = c1.y /\ c2.i = Filter(g, c1.i) /\ c2.q = Filter(g, c1.q) BY <2>3 DEF IsPlanes
  <2>6. Shows(o, c2, k) BY <2>3, <2>4, FilterChromaShows
  <2> HIDE DEF c2, o
  <2>7. IsPlanes(c3) /\ c3.y = Filter(h, c2.y) /\ c3.i = c2.i /\ c3.q = c2.q BY <2>5 DEF IsPlanes, FilterY
  <2>8. Shows(r, c3, k) BY <2>5, <2>6, FilterLumaShows
  <2> HIDE DEF c3, r
  <2>9. Shows(r, d, k) BY <2>2, <2>3, <2>5, <2>7, <2>8 DEF Shows
  <2> HIDE DEF a, b, t, steps, stage
  <2>10. Means(base, m, steps) = r
    <3>1. IsList(a) /\ IsList(b) /\ IsList(t) BY <1>2 DEF AllSteps
    <3>2. IsList(a \o b) BY <3>1, ListConcat
    <3>3. Means(base, m, (a \o b) \o t) = Means(base, Means(base, m, a \o b), t) BY <3>1, <3>2, MeansConcat
    <3>4. Means(base, m, a \o b) = o BY <3>1, MeansConcat DEF n, o
    <3> QED BY <1>1, <3>3, <3>4 DEF r
  <2> QED BY <2>1, <2>2, <2>9, <2>10
<1> HIDE DEF a, b, t, steps
<1>4. AllSteps(a \o b) BY <1>2, AllConcat
<1>5. AllSteps((a \o b) \o t) BY <1>2, <1>4, AllConcat
<1>6. AllSteps(steps) BY <1>1, <1>5
<1> HIDE DEF stage
<1>7. ShowsStage(base, e, v, events, stage, When(Enabled(e, stage), steps), 0) BY <1>3, <1>6, StageWhen
<1> QED BY <1>7 DEF steps, stage

-----------------------------------------------------------------------------
(* All stages                                                              *)

\* The buffers show the planes f[n], if they showed f[0] before the steps.
ShowsUpTo(base, f, n, steps, k) ==
  /\ AllSteps(steps) /\ k \in Nat
  /\ \A m : Shows(m, f[0], 2) => IsPlanes(f[n]) /\ Shows(Means(base, m, steps), f[n], k)

\* One stage more.
LEMMA StageNext ==
  ASSUME NEW base, NEW e, NEW v, NEW events, NEW f, NEW n, NEW p, NEW stage, NEW s, NEW t, NEW k,
          NEW more \in Nat,
         ShowsUpTo(base, f, n, s, k), ShowsStage(base, e, v, events, stage, t, more),
         f[p] = CpuStage(e, v, events, stage, f[n])
  PROVE  ShowsUpTo(base, f, p, s \o t, k + more)
<1>1. AllSteps(s \o t) BY AllConcat DEF ShowsUpTo, ShowsStage
<1>2. IsList(s) /\ IsList(t) /\ k \in Nat BY DEF ShowsUpTo, ShowsStage, AllSteps
<1>3. ASSUME NEW m, Shows(m, f[0], 2)
      PROVE  IsPlanes(f[p]) /\ Shows(Means(base, m, s \o t), f[p], k + more)
  <2>1. IsPlanes(f[n]) /\ Shows(Means(base, m, s), f[n], k) BY <1>3 DEF ShowsUpTo
  <2>2. Means(base, m, s \o t) = Means(base, Means(base, m, s), t) BY <1>2, MeansConcat
  <2> DEFINE x == Means(base, m, s)
             c == f[n]
  <2> HIDE DEF x
  <2>3. IsPlanes(CpuStage(e, v, events, stage, c)) /\ Shows(Means(base, x, t), CpuStage(e, v, events,
          stage, c), k + more)
    BY <1>2, <2>1 DEF ShowsStage, x
  <2> QED BY <2>2, <2>3 DEF x
<1>4. k + more \in Nat BY <1>2
<1> HIDE DEF ShowsStage
<1> DEFINE u == s \o t
<1> HIDE DEF u
<1> USE DEF u
<1> QED BY <1>1, <1>3, <1>4 DEF ShowsUpTo

\* What a field and a caller's settings are, as far as the stages look at them.
ForStages(base, s, v) ==
  /\ base.frame = v.frame /\ v.height \in Nat
  /\ s.effect.luma_filter \in {"none", "notch", "box"}
  /\ s.effect.chroma_lowpass_in \in {"none", "light", "full"}
  /\ s.effect.chroma_lowpass_out \in {"none", "light", "full"}
  /\ s.effect.demodulation \in {"box", "notch", "one_line", "two_line"}

\* The steps of each stage in encode_effect's order.
Part(s, v, events) ==
  LET e == s.effect IN <<
    LumaFilterSteps(s, v),
    LowpassSteps(s, v, e.chroma_lowpass_in),
    <<Pass("chroma_into_luma", MainGroup)>>,
    When(Enabled(e, "composite_sharpening"), FilterLuma(s, v, Coeffs("sharpening", "zero", 0))),
    When(Enabled(e, "composite_noise"), <<DataPasses(<<"noise">>, MainGroup, Seed("composite_noise", v))>>),
    When(Enabled(e, "snow"), <<SnowPass(Seed("snow", v), "snow" \in events)>>),
    When(Enabled(e, "head_switching"), HeadSteps(v)),
    When(Enabled(e, "tracking_noise"), TrackingSteps(v, "tracking_noise" \in events)),
    DemodulationSteps(s, v),
    When(Enabled(e, "luma_smear"), FilterLuma(s, v, Coeffs("smear", "zero", 0))),
    When(Enabled(e, "ringing"), FilterLuma(s, v, Coeffs("ringing", "first", 1))),
    When(Enabled(e, "luma_noise"), <<DataPasses(<<"noise">>, MainGroup, Seed("luma_noise", v))>>),
    When(Enabled(e, "chroma_noise"), ChromaNoiseSteps(v)),
    When(Enabled(e, "chroma_phase_error"), <<PassWith([angle |-> <<"error">>], "chroma_phase", MainGroup)>>),
    When(Enabled(e, "chroma_phase_noise"), <<DataPasses(<<"phase">>, MainGroup, Seed("chroma_phase_noise",
            v))>>),
    When(Enabled(e, "chroma_delay"), ChromaDelaySteps),
    When(Enabled(e, "vhs_edge_wave"), CopyAllToScratch \o <<DataPasses(<<"shift_all">>, MainGroup,
            Seed("vhs_edge_wave", v))>>),
    When(Enabled(e, "vhs_tape"), TapeSteps(s, v)),
    When(Enabled(e, "chroma_loss"), <<DataPasses(<<"loss">>, MainGroup, Seed("chroma_loss", v))>>),
    When(Enabled(e, "vhs_sharpen"), FilterLuma(s, v, Coeffs("vhs_sharpen", "zero", 0))),
    When(Enabled(e, "chroma_vert_blend"), When(v.height >= 2, <<PassWith(NothingNew, "chroma_vert_blend",
            ChromaLossGroup)>>)),
    LowpassSteps(s, v, e.chroma_lowpass_out) >>

\* Each of them shows the stage the CPU has at its place.
LEMMA PartsShow ==
  ASSUME NEW base, NEW s, NEW v, NEW events, ForStages(base, s, v)
  PROVE  LET e == s.effect
             p == Part(s, v, events)
         IN /\ ShowsStage(base, e, v, events, "luma_filter", p[1], 0)
            /\ ShowsStage(base, e, v, events, "chroma_lowpass_in", p[2], 0)
            /\ ShowsStage(base, e, v, events, "chroma_into_luma", p[3], 0)
            /\ ShowsStage(base, e, v, events, "composite_sharpening", p[4], 0)
            /\ ShowsStage(base, e, v, events, "composite_noise", p[5], 0)
            /\ ShowsStage(base, e, v, events, "snow", p[6], 0)
            /\ ShowsStage(base, e, v, events, "head_switching", p[7], 0)
            /\ ShowsStage(base, e, v, events, "tracking_noise", p[8], 0)
            /\ ShowsStage(base, e, v, events, "luma_into_chroma", p[9], 0)
            /\ ShowsStage(base, e, v, events, "luma_smear", p[10], 0)
            /\ ShowsStage(base, e, v, events, "ringing", p[11], 0)
            /\ ShowsStage(base, e, v, events, "luma_noise", p[12], 0)
            /\ ShowsStage(base, e, v, events, "chroma_noise", p[13], 0)
            /\ ShowsStage(base, e, v, events, "chroma_phase_error", p[14], 1)
            /\ ShowsStage(base, e, v, events, "chroma_phase_noise", p[15], 0)
            /\ ShowsStage(base, e, v, events, "chroma_delay", p[16], 1)
            /\ ShowsStage(base, e, v, events, "vhs_edge_wave", p[17], 0)
            /\ ShowsStage(base, e, v, events, "vhs_tape", p[18], 0)
            /\ ShowsStage(base, e, v, events, "chroma_loss", p[19], 0)
            /\ ShowsStage(base, e, v, events, "vhs_sharpen", p[20], 0)
            /\ ShowsStage(base, e, v, events, "chroma_vert_blend", p[21], 1)
            /\ ShowsStage(base, e, v, events, "chroma_lowpass_out", p[22], 0)
<1> DEFINE e == s.effect
<1>1. ShowsStage(base, e, v, events, "luma_filter", LumaFilterSteps(s, v), 0)
  BY LumaFilterStage DEF ForStages
<1>2. ShowsStage(base, e, v, events, "chroma_lowpass_in", LowpassSteps(s, v, e.chroma_lowpass_in), 0)
  <2> DEFINE stage == "chroma_lowpass_in"
             mode == e.chroma_lowpass_in
  <2>1. mode \in {"none", "light", "full"} BY DEF ForStages
  <2>2. Enabled(e, stage) BY DEF Enabled, Optional
  <2>3. \A c : CpuStage(e, v, events, stage, c) = ChromaLowpass(mode, c) BY <2>2, StageIs
  <2> HIDE DEF stage, mode
  <2>4. ShowsStage(base, e, v, events, stage, LowpassSteps(s, v, mode), 0) BY <2>1, <2>3, LowpassStage
  <2> QED BY <2>4 DEF stage, mode
<1>3. ShowsStage(base, e, v, events, "chroma_into_luma", <<Pass("chroma_into_luma", MainGroup)>>, 0)
  BY ChromaIntoLumaStage DEF ForStages
<1>4. ShowsStage(base, e, v, events, "composite_sharpening", When(Enabled(e, "composite_sharpening"),
        FilterLuma(s, v, Coeffs("sharpening", "zero", 0))), 0)
  <2> DEFINE stage == "composite_sharpening"
             f == Coeffs("sharpening", "zero", 0)
  <2>1. \A c : Enabled(e, stage) => CpuStage(e, v, events, stage, c) = FilterY(f, c) BY StageIs
  <2> HIDE DEF stage, f
  <2>2. ShowsStage(base, e, v, events, stage, When(Enabled(e, stage), FilterLuma(s, v, f)), 0) BY <2>1,
          FilterStage
  <2> QED BY <2>2 DEF stage, f
<1>5. ShowsStage(base, e, v, events, "composite_noise", When(Enabled(e, "composite_noise"),
        <<DataPasses(<<"noise">>, MainGroup, Seed("composite_noise", v))>>), 0)
  <2> DEFINE stage == "composite_noise"
             rows == Seed("composite_noise", v)
  <2>1. \A c : Enabled(e, stage) => CpuStage(e, v, events, stage, c) =
          [c EXCEPT !.y = Noise(rows, @)] BY StageIs
  <2> HIDE DEF stage, rows
  <2>2. ShowsStage(base, e, v, events, stage,
                   When(Enabled(e, stage), <<DataPasses(<<"noise">>, MainGroup, rows)>>), 0) BY <2>1, NoiseStage
  <2> QED BY <2>2 DEF stage, rows
<1>6. ShowsStage(base, e, v, events, "snow", When(Enabled(e, "snow"), <<SnowPass(Seed("snow", v),
        "snow" \in events)>>), 0)
  BY SnowStage DEF ForStages
<1>7. ShowsStage(base, e, v, events, "head_switching", When(Enabled(e, "head_switching"), HeadSteps(v)), 0)
  BY HeadStage DEF ForStages
<1>8. ShowsStage(base, e, v, events, "tracking_noise", When(Enabled(e, "tracking_noise"), TrackingSteps(v,
        "tracking_noise" \in events)), 0)
  BY TrackingStage DEF ForStages
<1>9. ShowsStage(base, e, v, events, "luma_into_chroma", DemodulationSteps(s, v), 0)
  BY DemodulationStage DEF ForStages
<1>10. ShowsStage(base, e, v, events, "luma_smear", When(Enabled(e, "luma_smear"), FilterLuma(s, v,
        Coeffs("smear", "zero", 0))), 0)
  <2> DEFINE stage == "luma_smear"
             f == Coeffs("smear", "zero", 0)
  <2>1. \A c : Enabled(e, stage) => CpuStage(e, v, events, stage, c) = FilterY(f, c) BY StageIs
  <2> HIDE DEF stage, f
  <2>2. ShowsStage(base, e, v, events, stage, When(Enabled(e, stage), FilterLuma(s, v, f)), 0) BY <2>1,
          FilterStage
  <2> QED BY <2>2 DEF stage, f
<1>11. ShowsStage(base, e, v, events, "ringing", When(Enabled(e, "ringing"), FilterLuma(s, v,
        Coeffs("ringing", "first", 1))), 0)
  <2> DEFINE stage == "ringing"
             f == Coeffs("ringing", "first", 1)
  <2>1. \A c : Enabled(e, stage) => CpuStage(e, v, events, stage, c) = FilterY(f, c) BY StageIs
  <2> HIDE DEF stage, f
  <2>2. ShowsStage(base, e, v, events, stage, When(Enabled(e, stage), FilterLuma(s, v, f)), 0) BY <2>1,
          FilterStage
  <2> QED BY <2>2 DEF stage, f
<1>12. ShowsStage(base, e, v, events, "luma_noise", When(Enabled(e, "luma_noise"),
        <<DataPasses(<<"noise">>, MainGroup, Seed("luma_noise", v))>>), 0)
  <2> DEFINE stage == "luma_noise"
             rows == Seed("luma_noise", v)
  <2>1. \A c : Enabled(e, stage) => CpuStage(e, v, events, stage, c) =
          [c EXCEPT !.y = Noise(rows, @)] BY StageIs
  <2> HIDE DEF stage, rows
  <2>2. ShowsStage(base, e, v, events, stage,
                   When(Enabled(e, stage), <<DataPasses(<<"noise">>, MainGroup, rows)>>), 0) BY <2>1, NoiseStage
  <2> QED BY <2>2 DEF stage, rows
<1>13. ShowsStage(base, e, v, events, "chroma_noise", When(Enabled(e, "chroma_noise"), ChromaNoiseSteps(v)), 0)
  BY ChromaNoiseStage DEF ForStages
<1>14. ShowsStage(base, e, v, events, "chroma_phase_error", When(Enabled(e, "chroma_phase_error"),
        <<PassWith([angle |-> <<"error">>], "chroma_phase", MainGroup)>>), 1)
  BY PhaseErrorStage DEF ForStages
<1>15. ShowsStage(base, e, v, events, "chroma_phase_noise", When(Enabled(e, "chroma_phase_noise"),
        <<DataPasses(<<"phase">>, MainGroup, Seed("chroma_phase_noise", v))>>), 0)
  BY PhaseNoiseStage DEF ForStages
<1>16. ShowsStage(base, e, v, events, "chroma_delay", When(Enabled(e, "chroma_delay"), ChromaDelaySteps), 1)
  BY ChromaDelayStage DEF ForStages
<1>17. ShowsStage(base, e, v, events, "vhs_edge_wave", When(Enabled(e, "vhs_edge_wave"),
        CopyAllToScratch \o <<DataPasses(<<"shift_all">>, MainGroup, Seed("vhs_edge_wave", v))>>), 0)
  BY EdgeWaveStage DEF ForStages
<1>18. ShowsStage(base, e, v, events, "vhs_tape", When(Enabled(e, "vhs_tape"), TapeSteps(s, v)), 0)
  BY TapeStage DEF ForStages
<1>19. ShowsStage(base, e, v, events, "chroma_loss", When(Enabled(e, "chroma_loss"),
        <<DataPasses(<<"loss">>, MainGroup, Seed("chroma_loss", v))>>), 0)
  BY ChromaLossStage DEF ForStages
<1>20. ShowsStage(base, e, v, events, "vhs_sharpen", When(Enabled(e, "vhs_sharpen"), FilterLuma(s, v,
        Coeffs("vhs_sharpen", "zero", 0))), 0)
  <2> DEFINE stage == "vhs_sharpen"
             f == Coeffs("vhs_sharpen", "zero", 0)
  <2>1. \A c : Enabled(e, stage) => CpuStage(e, v, events, stage, c) = FilterY(f, c) BY StageIs
  <2> HIDE DEF stage, f
  <2>2. ShowsStage(base, e, v, events, stage, When(Enabled(e, stage), FilterLuma(s, v, f)), 0) BY <2>1,
          FilterStage
  <2> QED BY <2>2 DEF stage, f
<1>21. ShowsStage(base, e, v, events, "chroma_vert_blend", When(Enabled(e, "chroma_vert_blend"),
        When(v.height >= 2, <<PassWith(NothingNew, "chroma_vert_blend", ChromaLossGroup)>>)), 1)
  BY VertBlendStage DEF ForStages
<1>22. ShowsStage(base, e, v, events, "chroma_lowpass_out", LowpassSteps(s, v, e.chroma_lowpass_out), 0)
  <2> DEFINE stage == "chroma_lowpass_out"
             mode == e.chroma_lowpass_out
  <2>1. mode \in {"none", "light", "full"} BY DEF ForStages
  <2>2. Enabled(e, stage) BY DEF Enabled, Optional
  <2>3. \A c : CpuStage(e, v, events, stage, c) = ChromaLowpass(mode, c) BY <2>2, StageIs
  <2> HIDE DEF stage, mode
  <2>4. ShowsStage(base, e, v, events, stage, LowpassSteps(s, v, mode), 0) BY <2>1, <2>3, LowpassStage
  <2> QED BY <2>4 DEF stage, mode
<1> HIDE DEF ShowsStage
<1> QED BY <1>1, <1>2, <1>3, <1>4, <1>5, <1>6, <1>7, <1>8, <1>9, <1>10, <1>11, <1>12, <1>13, <1>14, <1>15,
        <1>16, <1>17, <1>18, <1>19, <1>20, <1>21, <1>22 DEF Part

\* All steps of encode_effect, one stage after the other.
LEMMA AllStages ==
  ASSUME NEW base, NEW s, NEW v, NEW events, ForStages(base, s, v), NEW f, IsPlanes(f[0]),
         \A n \in 1 .. 22 : f[n] = CpuStage(s.effect, v, events, CpuStages[n], f[n - 1])
  PROVE  ShowsUpTo(base, f, 22, EffectSteps(s, v, events), 5)
<1> DEFINE e == s.effect
           p == Part(s, v, events)
           t1 == p[1]
           t2 == t1 \o p[2]
           t3 == t2 \o p[3]
           t4 == t3 \o p[4]
           t5 == t4 \o p[5]
           t6 == t5 \o p[6]
           t7 == t6 \o p[7]
           t8 == t7 \o p[8]
           t9 == t8 \o p[9]
           t10 == t9 \o p[10]
           t11 == t10 \o p[11]
           t12 == t11 \o p[12]
           t13 == t12 \o p[13]
           t14 == t13 \o p[14]
           t15 == t14 \o p[15]
           t16 == t15 \o p[16]
           t17 == t16 \o p[17]
           t18 == t17 \o p[18]
           t19 == t18 \o p[19]
           t20 == t19 \o p[20]
           t21 == t20 \o p[21]
           t22 == t21 \o p[22]
<1>1. EffectSteps(s, v, events) = t22 BY DEF EffectSteps, Part
<1>2. /\ ShowsStage(base, e, v, events, "luma_filter", p[1], 0)
      /\ ShowsStage(base, e, v, events, "chroma_lowpass_in", p[2], 0)
      /\ ShowsStage(base, e, v, events, "chroma_into_luma", p[3], 0)
      /\ ShowsStage(base, e, v, events, "composite_sharpening", p[4], 0)
      /\ ShowsStage(base, e, v, events, "composite_noise", p[5], 0)
      /\ ShowsStage(base, e, v, events, "snow", p[6], 0)
      /\ ShowsStage(base, e, v, events, "head_switching", p[7], 0)
      /\ ShowsStage(base, e, v, events, "tracking_noise", p[8], 0)
      /\ ShowsStage(base, e, v, events, "luma_into_chroma", p[9], 0)
      /\ ShowsStage(base, e, v, events, "luma_smear", p[10], 0)
      /\ ShowsStage(base, e, v, events, "ringing", p[11], 0)
      /\ ShowsStage(base, e, v, events, "luma_noise", p[12], 0)
      /\ ShowsStage(base, e, v, events, "chroma_noise", p[13], 0)
      /\ ShowsStage(base, e, v, events, "chroma_phase_error", p[14], 1)
      /\ ShowsStage(base, e, v, events, "chroma_phase_noise", p[15], 0)
      /\ ShowsStage(base, e, v, events, "chroma_delay", p[16], 1)
      /\ ShowsStage(base, e, v, events, "vhs_edge_wave", p[17], 0)
      /\ ShowsStage(base, e, v, events, "vhs_tape", p[18], 0)
      /\ ShowsStage(base, e, v, events, "chroma_loss", p[19], 0)
      /\ ShowsStage(base, e, v, events, "vhs_sharpen", p[20], 0)
      /\ ShowsStage(base, e, v, events, "chroma_vert_blend", p[21], 1)
      /\ ShowsStage(base, e, v, events, "chroma_lowpass_out", p[22], 0)
  BY PartsShow
<1>3. /\ f[1] = CpuStage(e, v, events, "luma_filter", f[0])
      /\ f[2] = CpuStage(e, v, events, "chroma_lowpass_in", f[1])
      /\ f[3] = CpuStage(e, v, events, "chroma_into_luma", f[2])
      /\ f[4] = CpuStage(e, v, events, "composite_sharpening", f[3])
      /\ f[5] = CpuStage(e, v, events, "composite_noise", f[4])
      /\ f[6] = CpuStage(e, v, events, "snow", f[5])
      /\ f[7] = CpuStage(e, v, events, "head_switching", f[6])
      /\ f[8] = CpuStage(e, v, events, "tracking_noise", f[7])
      /\ f[9] = CpuStage(e, v, events, "luma_into_chroma", f[8])
      /\ f[10] = CpuStage(e, v, events, "luma_smear", f[9])
      /\ f[11] = CpuStage(e, v, events, "ringing", f[10])
      /\ f[12] = CpuStage(e, v, events, "luma_noise", f[11])
      /\ f[13] = CpuStage(e, v, events, "chroma_noise", f[12])
      /\ f[14] = CpuStage(e, v, events, "chroma_phase_error", f[13])
      /\ f[15] = CpuStage(e, v, events, "chroma_phase_noise", f[14])
      /\ f[16] = CpuStage(e, v, events, "chroma_delay", f[15])
      /\ f[17] = CpuStage(e, v, events, "vhs_edge_wave", f[16])
      /\ f[18] = CpuStage(e, v, events, "vhs_tape", f[17])
      /\ f[19] = CpuStage(e, v, events, "chroma_loss", f[18])
      /\ f[20] = CpuStage(e, v, events, "vhs_sharpen", f[19])
      /\ f[21] = CpuStage(e, v, events, "chroma_vert_blend", f[20])
      /\ f[22] = CpuStage(e, v, events, "chroma_lowpass_out", f[21])
  <2>1. f[1] = CpuStage(e, v, events, "luma_filter", f[0])
    <3>1. 1 \in 1 .. 22 /\ 1 - 1 = 0 /\ CpuStages[1] = "luma_filter" BY DEF CpuStages
    <3> QED BY <3>1
  <2>2. f[2] = CpuStage(e, v, events, "chroma_lowpass_in", f[1])
    <3>1. 2 \in 1 .. 22 /\ 2 - 1 = 1 /\ CpuStages[2] = "chroma_lowpass_in" BY DEF CpuStages
    <3> QED BY <3>1
  <2>3. f[3] = CpuStage(e, v, events, "chroma_into_luma", f[2])
    <3>1. 3 \in 1 .. 22 /\ 3 - 1 = 2 /\ CpuStages[3] = "chroma_into_luma" BY DEF CpuStages
    <3> QED BY <3>1
  <2>4. f[4] = CpuStage(e, v, events, "composite_sharpening", f[3])
    <3>1. 4 \in 1 .. 22 /\ 4 - 1 = 3 /\ CpuStages[4] = "composite_sharpening" BY DEF CpuStages
    <3> QED BY <3>1
  <2>5. f[5] = CpuStage(e, v, events, "composite_noise", f[4])
    <3>1. 5 \in 1 .. 22 /\ 5 - 1 = 4 /\ CpuStages[5] = "composite_noise" BY DEF CpuStages
    <3> QED BY <3>1
  <2>6. f[6] = CpuStage(e, v, events, "snow", f[5])
    <3>1. 6 \in 1 .. 22 /\ 6 - 1 = 5 /\ CpuStages[6] = "snow" BY DEF CpuStages
    <3> QED BY <3>1
  <2>7. f[7] = CpuStage(e, v, events, "head_switching", f[6])
    <3>1. 7 \in 1 .. 22 /\ 7 - 1 = 6 /\ CpuStages[7] = "head_switching" BY DEF CpuStages
    <3> QED BY <3>1
  <2>8. f[8] = CpuStage(e, v, events, "tracking_noise", f[7])
    <3>1. 8 \in 1 .. 22 /\ 8 - 1 = 7 /\ CpuStages[8] = "tracking_noise" BY DEF CpuStages
    <3> QED BY <3>1
  <2>9. f[9] = CpuStage(e, v, events, "luma_into_chroma", f[8])
    <3>1. 9 \in 1 .. 22 /\ 9 - 1 = 8 /\ CpuStages[9] = "luma_into_chroma" BY DEF CpuStages
    <3> QED BY <3>1
  <2>10. f[10] = CpuStage(e, v, events, "luma_smear", f[9])
    <3>1. 10 \in 1 .. 22 /\ 10 - 1 = 9 /\ CpuStages[10] = "luma_smear" BY DEF CpuStages
    <3> QED BY <3>1
  <2>11. f[11] = CpuStage(e, v, events, "ringing", f[10])
    <3>1. 11 \in 1 .. 22 /\ 11 - 1 = 10 /\ CpuStages[11] = "ringing" BY DEF CpuStages
    <3> QED BY <3>1
  <2>12. f[12] = CpuStage(e, v, events, "luma_noise", f[11])
    <3>1. 12 \in 1 .. 22 /\ 12 - 1 = 11 /\ CpuStages[12] = "luma_noise" BY DEF CpuStages
    <3> QED BY <3>1
  <2>13. f[13] = CpuStage(e, v, events, "chroma_noise", f[12])
    <3>1. 13 \in 1 .. 22 /\ 13 - 1 = 12 /\ CpuStages[13] = "chroma_noise" BY DEF CpuStages
    <3> QED BY <3>1
  <2>14. f[14] = CpuStage(e, v, events, "chroma_phase_error", f[13])
    <3>1. 14 \in 1 .. 22 /\ 14 - 1 = 13 /\ CpuStages[14] = "chroma_phase_error" BY DEF CpuStages
    <3> QED BY <3>1
  <2>15. f[15] = CpuStage(e, v, events, "chroma_phase_noise", f[14])
    <3>1. 15 \in 1 .. 22 /\ 15 - 1 = 14 /\ CpuStages[15] = "chroma_phase_noise" BY DEF CpuStages
    <3> QED BY <3>1
  <2>16. f[16] = CpuStage(e, v, events, "chroma_delay", f[15])
    <3>1. 16 \in 1 .. 22 /\ 16 - 1 = 15 /\ CpuStages[16] = "chroma_delay" BY DEF CpuStages
    <3> QED BY <3>1
  <2>17. f[17] = CpuStage(e, v, events, "vhs_edge_wave", f[16])
    <3>1. 17 \in 1 .. 22 /\ 17 - 1 = 16 /\ CpuStages[17] = "vhs_edge_wave" BY DEF CpuStages
    <3> QED BY <3>1
  <2>18. f[18] = CpuStage(e, v, events, "vhs_tape", f[17])
    <3>1. 18 \in 1 .. 22 /\ 18 - 1 = 17 /\ CpuStages[18] = "vhs_tape" BY DEF CpuStages
    <3> QED BY <3>1
  <2>19. f[19] = CpuStage(e, v, events, "chroma_loss", f[18])
    <3>1. 19 \in 1 .. 22 /\ 19 - 1 = 18 /\ CpuStages[19] = "chroma_loss" BY DEF CpuStages
    <3> QED BY <3>1
  <2>20. f[20] = CpuStage(e, v, events, "vhs_sharpen", f[19])
    <3>1. 20 \in 1 .. 22 /\ 20 - 1 = 19 /\ CpuStages[20] = "vhs_sharpen" BY DEF CpuStages
    <3> QED BY <3>1
  <2>21. f[21] = CpuStage(e, v, events, "chroma_vert_blend", f[20])
    <3>1. 21 \in 1 .. 22 /\ 21 - 1 = 20 /\ CpuStages[21] = "chroma_vert_blend" BY DEF CpuStages
    <3> QED BY <3>1
  <2>22. f[22] = CpuStage(e, v, events, "chroma_lowpass_out", f[21])
    <3>1. 22 \in 1 .. 22 /\ 22 - 1 = 21 /\ CpuStages[22] = "chroma_lowpass_out" BY DEF CpuStages
    <3> QED BY <3>1
  <2> QED BY <2>1, <2>2, <2>3, <2>4, <2>5, <2>6, <2>7, <2>8, <2>9, <2>10, <2>11, <2>12, <2>13, <2>14,
          <2>15, <2>16, <2>17, <2>18, <2>19, <2>20, <2>21, <2>22
<1> HIDE DEF p
<1>4. ShowsUpTo(base, f, 1, t1, 2)
  <2>1. AllSteps(t1) BY <1>2 DEF ShowsStage
  <2>2. ASSUME NEW m, Shows(m, f[0], 2) PROVE IsPlanes(f[1]) /\ Shows(Means(base, m, t1), f[1], 2)
    <3> DEFINE c == f[0]
    <3>1. LET d == CpuStage(e, v, events, "luma_filter", c) IN IsPlanes(d) /\ Shows(Means(base, m, t1), d,
            2 + 0)
      BY <1>2, <2>2 DEF ShowsStage
    <3> QED BY <1>3, <3>1
  <2> HIDE DEF t1
  <2> QED BY <2>1, <2>2 DEF ShowsUpTo
<1> HIDE DEF t1
<1>5. ShowsUpTo(base, f, 2, t2, 2)
  <2> DEFINE stage == "chroma_lowpass_in"
             t == p[2]
  <2>1. ShowsStage(base, e, v, events, stage, t, 0) /\ f[2] = CpuStage(e, v, events, stage, f[1]) BY <1>2, <1>3
  <2> HIDE DEF stage, t
  <2>2. ShowsUpTo(base, f, 2, t1 \o t, 2 + 0) BY <1>4, <2>1, StageNext
  <2>3. 2 + 0 = 2 OBVIOUS
  <2> QED BY <2>2, <2>3 DEF t
<1> HIDE DEF t2
<1>6. ShowsUpTo(base, f, 3, t3, 2)
  <2> DEFINE stage == "chroma_into_luma"
             t == p[3]
  <2>1. ShowsStage(base, e, v, events, stage, t, 0) /\ f[3] = CpuStage(e, v, events, stage, f[2]) BY <1>2, <1>3
  <2> HIDE DEF stage, t
  <2>2. ShowsUpTo(base, f, 3, t2 \o t, 2 + 0) BY <1>5, <2>1, StageNext
  <2>3. 2 + 0 = 2 OBVIOUS
  <2> QED BY <2>2, <2>3 DEF t
<1> HIDE DEF t3
<1>7. ShowsUpTo(base, f, 4, t4, 2)
  <2> DEFINE stage == "composite_sharpening"
             t == p[4]
  <2>1. ShowsStage(base, e, v, events, stage, t, 0) /\ f[4] = CpuStage(e, v, events, stage, f[3]) BY <1>2, <1>3
  <2> HIDE DEF stage, t
  <2>2. ShowsUpTo(base, f, 4, t3 \o t, 2 + 0) BY <1>6, <2>1, StageNext
  <2>3. 2 + 0 = 2 OBVIOUS
  <2> QED BY <2>2, <2>3 DEF t
<1> HIDE DEF t4
<1>8. ShowsUpTo(base, f, 5, t5, 2)
  <2> DEFINE stage == "composite_noise"
             t == p[5]
  <2>1. ShowsStage(base, e, v, events, stage, t, 0) /\ f[5] = CpuStage(e, v, events, stage, f[4]) BY <1>2, <1>3
  <2> HIDE DEF stage, t
  <2>2. ShowsUpTo(base, f, 5, t4 \o t, 2 + 0) BY <1>7, <2>1, StageNext
  <2>3. 2 + 0 = 2 OBVIOUS
  <2> QED BY <2>2, <2>3 DEF t
<1> HIDE DEF t5
<1>9. ShowsUpTo(base, f, 6, t6, 2)
  <2> DEFINE stage == "snow"
             t == p[6]
  <2>1. ShowsStage(base, e, v, events, stage, t, 0) /\ f[6] = CpuStage(e, v, events, stage, f[5]) BY <1>2, <1>3
  <2> HIDE DEF stage, t
  <2>2. ShowsUpTo(base, f, 6, t5 \o t, 2 + 0) BY <1>8, <2>1, StageNext
  <2>3. 2 + 0 = 2 OBVIOUS
  <2> QED BY <2>2, <2>3 DEF t
<1> HIDE DEF t6
<1>10. ShowsUpTo(base, f, 7, t7, 2)
  <2> DEFINE stage == "head_switching"
             t == p[7]
  <2>1. ShowsStage(base, e, v, events, stage, t, 0) /\ f[7] = CpuStage(e, v, events, stage, f[6]) BY <1>2, <1>3
  <2> HIDE DEF stage, t
  <2>2. ShowsUpTo(base, f, 7, t6 \o t, 2 + 0) BY <1>9, <2>1, StageNext
  <2>3. 2 + 0 = 2 OBVIOUS
  <2> QED BY <2>2, <2>3 DEF t
<1> HIDE DEF t7
<1>11. ShowsUpTo(base, f, 8, t8, 2)
  <2> DEFINE stage == "tracking_noise"
             t == p[8]
  <2>1. ShowsStage(base, e, v, events, stage, t, 0) /\ f[8] = CpuStage(e, v, events, stage, f[7]) BY <1>2, <1>3
  <2> HIDE DEF stage, t
  <2>2. ShowsUpTo(base, f, 8, t7 \o t, 2 + 0) BY <1>10, <2>1, StageNext
  <2>3. 2 + 0 = 2 OBVIOUS
  <2> QED BY <2>2, <2>3 DEF t
<1> HIDE DEF t8
<1>12. ShowsUpTo(base, f, 9, t9, 2)
  <2> DEFINE stage == "luma_into_chroma"
             t == p[9]
  <2>1. ShowsStage(base, e, v, events, stage, t, 0) /\ f[9] = CpuStage(e, v, events, stage, f[8]) BY <1>2, <1>3
  <2> HIDE DEF stage, t
  <2>2. ShowsUpTo(base, f, 9, t8 \o t, 2 + 0) BY <1>11, <2>1, StageNext
  <2>3. 2 + 0 = 2 OBVIOUS
  <2> QED BY <2>2, <2>3 DEF t
<1> HIDE DEF t9
<1>13. ShowsUpTo(base, f, 10, t10, 2)
  <2> DEFINE stage == "luma_smear"
             t == p[10]
  <2>1. ShowsStage(base, e, v, events, stage, t, 0) /\ f[10] = CpuStage(e, v, events, stage, f[9]) BY <1>2, <1>3
  <2> HIDE DEF stage, t
  <2>2. ShowsUpTo(base, f, 10, t9 \o t, 2 + 0) BY <1>12, <2>1, StageNext
  <2>3. 2 + 0 = 2 OBVIOUS
  <2> QED BY <2>2, <2>3 DEF t
<1> HIDE DEF t10
<1>14. ShowsUpTo(base, f, 11, t11, 2)
  <2> DEFINE stage == "ringing"
             t == p[11]
  <2>1. ShowsStage(base, e, v, events, stage, t, 0) /\ f[11] =
          CpuStage(e, v, events, stage, f[10]) BY <1>2, <1>3
  <2> HIDE DEF stage, t
  <2>2. ShowsUpTo(base, f, 11, t10 \o t, 2 + 0) BY <1>13, <2>1, StageNext
  <2>3. 2 + 0 = 2 OBVIOUS
  <2> QED BY <2>2, <2>3 DEF t
<1> HIDE DEF t11
<1>15. ShowsUpTo(base, f, 12, t12, 2)
  <2> DEFINE stage == "luma_noise"
             t == p[12]
  <2>1. ShowsStage(base, e, v, events, stage, t, 0) /\ f[12] =
          CpuStage(e, v, events, stage, f[11]) BY <1>2, <1>3
  <2> HIDE DEF stage, t
  <2>2. ShowsUpTo(base, f, 12, t11 \o t, 2 + 0) BY <1>14, <2>1, StageNext
  <2>3. 2 + 0 = 2 OBVIOUS
  <2> QED BY <2>2, <2>3 DEF t
<1> HIDE DEF t12
<1>16. ShowsUpTo(base, f, 13, t13, 2)
  <2> DEFINE stage == "chroma_noise"
             t == p[13]
  <2>1. ShowsStage(base, e, v, events, stage, t, 0) /\ f[13] =
          CpuStage(e, v, events, stage, f[12]) BY <1>2, <1>3
  <2> HIDE DEF stage, t
  <2>2. ShowsUpTo(base, f, 13, t12 \o t, 2 + 0) BY <1>15, <2>1, StageNext
  <2>3. 2 + 0 = 2 OBVIOUS
  <2> QED BY <2>2, <2>3 DEF t
<1> HIDE DEF t13
<1>17. ShowsUpTo(base, f, 14, t14, 3)
  <2> DEFINE stage == "chroma_phase_error"
             t == p[14]
  <2>1. ShowsStage(base, e, v, events, stage, t, 1) /\ f[14] =
          CpuStage(e, v, events, stage, f[13]) BY <1>2, <1>3
  <2> HIDE DEF stage, t
  <2>2. ShowsUpTo(base, f, 14, t13 \o t, 2 + 1) BY <1>16, <2>1, StageNext
  <2>3. 2 + 1 = 3 OBVIOUS
  <2> QED BY <2>2, <2>3 DEF t
<1> HIDE DEF t14
<1>18. ShowsUpTo(base, f, 15, t15, 3)
  <2> DEFINE stage == "chroma_phase_noise"
             t == p[15]
  <2>1. ShowsStage(base, e, v, events, stage, t, 0) /\ f[15] =
          CpuStage(e, v, events, stage, f[14]) BY <1>2, <1>3
  <2> HIDE DEF stage, t
  <2>2. ShowsUpTo(base, f, 15, t14 \o t, 3 + 0) BY <1>17, <2>1, StageNext
  <2>3. 3 + 0 = 3 OBVIOUS
  <2> QED BY <2>2, <2>3 DEF t
<1> HIDE DEF t15
<1>19. ShowsUpTo(base, f, 16, t16, 4)
  <2> DEFINE stage == "chroma_delay"
             t == p[16]
  <2>1. ShowsStage(base, e, v, events, stage, t, 1) /\ f[16] =
          CpuStage(e, v, events, stage, f[15]) BY <1>2, <1>3
  <2> HIDE DEF stage, t
  <2>2. ShowsUpTo(base, f, 16, t15 \o t, 3 + 1) BY <1>18, <2>1, StageNext
  <2>3. 3 + 1 = 4 OBVIOUS
  <2> QED BY <2>2, <2>3 DEF t
<1> HIDE DEF t16
<1>20. ShowsUpTo(base, f, 17, t17, 4)
  <2> DEFINE stage == "vhs_edge_wave"
             t == p[17]
  <2>1. ShowsStage(base, e, v, events, stage, t, 0) /\ f[17] =
          CpuStage(e, v, events, stage, f[16]) BY <1>2, <1>3
  <2> HIDE DEF stage, t
  <2>2. ShowsUpTo(base, f, 17, t16 \o t, 4 + 0) BY <1>19, <2>1, StageNext
  <2>3. 4 + 0 = 4 OBVIOUS
  <2> QED BY <2>2, <2>3 DEF t
<1> HIDE DEF t17
<1>21. ShowsUpTo(base, f, 18, t18, 4)
  <2> DEFINE stage == "vhs_tape"
             t == p[18]
  <2>1. ShowsStage(base, e, v, events, stage, t, 0) /\ f[18] =
          CpuStage(e, v, events, stage, f[17]) BY <1>2, <1>3
  <2> HIDE DEF stage, t
  <2>2. ShowsUpTo(base, f, 18, t17 \o t, 4 + 0) BY <1>20, <2>1, StageNext
  <2>3. 4 + 0 = 4 OBVIOUS
  <2> QED BY <2>2, <2>3 DEF t
<1> HIDE DEF t18
<1>22. ShowsUpTo(base, f, 19, t19, 4)
  <2> DEFINE stage == "chroma_loss"
             t == p[19]
  <2>1. ShowsStage(base, e, v, events, stage, t, 0) /\ f[19] =
          CpuStage(e, v, events, stage, f[18]) BY <1>2, <1>3
  <2> HIDE DEF stage, t
  <2>2. ShowsUpTo(base, f, 19, t18 \o t, 4 + 0) BY <1>21, <2>1, StageNext
  <2>3. 4 + 0 = 4 OBVIOUS
  <2> QED BY <2>2, <2>3 DEF t
<1> HIDE DEF t19
<1>23. ShowsUpTo(base, f, 20, t20, 4)
  <2> DEFINE stage == "vhs_sharpen"
             t == p[20]
  <2>1. ShowsStage(base, e, v, events, stage, t, 0) /\ f[20] =
          CpuStage(e, v, events, stage, f[19]) BY <1>2, <1>3
  <2> HIDE DEF stage, t
  <2>2. ShowsUpTo(base, f, 20, t19 \o t, 4 + 0) BY <1>22, <2>1, StageNext
  <2>3. 4 + 0 = 4 OBVIOUS
  <2> QED BY <2>2, <2>3 DEF t
<1> HIDE DEF t20
<1>24. ShowsUpTo(base, f, 21, t21, 5)
  <2> DEFINE stage == "chroma_vert_blend"
             t == p[21]
  <2>1. ShowsStage(base, e, v, events, stage, t, 1) /\ f[21] =
          CpuStage(e, v, events, stage, f[20]) BY <1>2, <1>3
  <2> HIDE DEF stage, t
  <2>2. ShowsUpTo(base, f, 21, t20 \o t, 4 + 1) BY <1>23, <2>1, StageNext
  <2>3. 4 + 1 = 5 OBVIOUS
  <2> QED BY <2>2, <2>3 DEF t
<1> HIDE DEF t21
<1>25. ShowsUpTo(base, f, 22, t22, 5)
  <2> DEFINE stage == "chroma_lowpass_out"
             t == p[22]
  <2>1. ShowsStage(base, e, v, events, stage, t, 0) /\ f[22] =
          CpuStage(e, v, events, stage, f[21]) BY <1>2, <1>3
  <2> HIDE DEF stage, t
  <2>2. ShowsUpTo(base, f, 22, t21 \o t, 5 + 0) BY <1>24, <2>1, StageNext
  <2>3. 5 + 0 = 5 OBVIOUS
  <2> QED BY <2>2, <2>3 DEF t
<1> HIDE DEF t22
<1> QED BY <1>1, <1>25

\* f are the planes on the CPU after each of its stages.
CpuPlanes(e, v, events, f) ==
  /\ f[0] = [y |-> Input("y", v.image), i |-> Input("i", v.image), q |-> Input("q", v.image), s |-> Scrap]
  /\ \A n \in 1 .. 22 : f[n] = CpuStage(e, v, events, CpuStages[n], f[n - 1])
  /\ CpuEffectOnField(e, v, events) = <<f[22].y, f[22].i, f[22].q>>

\* The planes on the CPU after each of its stages.
LEMMA CpuFold ==
  ASSUME NEW e, NEW v, NEW events
  PROVE  \E f : CpuPlanes(e, v, events, f)
<1> DEFINE a == [y |-> Input("y", v.image), i |-> Input("i", v.image), q |-> Input("q", v.image), s |-> Scrap]
           G(g, m) == [n \in 0 .. m |-> IF n = 0 THEN a ELSE CpuStage(e, v, events, CpuStages[n], g[n - 1])]
           S == {m \in Nat : \E g : g = G(g, m)}
<1> HIDE DEF a
<1>1. 0 \in S
  <2> DEFINE g == [n \in 0 .. 0 |-> a]
  <2>1. g = G(g, 0) OBVIOUS
  <2> QED BY <2>1
<1>2. ASSUME NEW m \in Nat, m \in S PROVE m + 1 \in S
  <2>1. PICK g : g = G(g, m) BY <1>2
  <2> DEFINE h == [n \in 0 .. m + 1 |-> IF n <= m THEN g[n] ELSE CpuStage(e, v, events, CpuStages[m + 1], g[m])]
  <2>2. ASSUME NEW n \in 0 .. m + 1 PROVE h[n] = G(h, m + 1)[n]
    <3>1. CASE n = 0 BY <2>1, <3>1
    <3>2. CASE n \in 1 .. m
      <4>1. g[n] = CpuStage(e, v, events, CpuStages[n], g[n - 1]) BY <2>1, <3>2
      <4>2. h[n] = g[n] /\ h[n - 1] = g[n - 1] BY <3>2
      <4> QED BY <3>2, <4>1, <4>2
    <3>3. CASE n = m + 1 BY <3>3
    <3> QED BY <3>1, <3>2, <3>3
  <2>3. h = G(h, m + 1)
    <3>1. DOMAIN h = 0 .. m + 1 /\ DOMAIN G(h, m + 1) = 0 .. m + 1 OBVIOUS
    <3> QED BY <2>2, <3>1
  <2> HIDE DEF h
  <2>4. \E k : k = G(k, m + 1) BY <2>3
  <2>5. m + 1 \in Nat OBVIOUS
  <2> HIDE DEF G
  <2> QED BY <2>4, <2>5
<1>3. Len(CpuStages) = 22 BY DEF CpuStages
<1>4. \E g : g = G(g, 22)
  <2>1. 22 \in Nat OBVIOUS
  <2>2. 22 \in S
    <3> HIDE DEF S
    <3> QED BY <1>1, <1>2, <2>1, Induction
  <2> QED BY <2>2
<1> DEFINE f == CHOOSE g : g = G(g, 22)
<1>5. f = G(f, 22) BY <1>4
<1>6. CpuEffectOnField(e, v, events) = <<f[22].y, f[22].i, f[22].q>> BY <1>3 DEF CpuEffectOnField, a
<1> HIDE DEF f
<1>7. f[0] = a /\ \A n \in 1 .. 22 : f[n] = CpuStage(e, v, events, CpuStages[n], f[n - 1]) BY <1>5
<1>8. CpuPlanes(e, v, events, f) BY <1>6, <1>7 DEF a, CpuPlanes
<1> QED BY <1>8

\* The steps of encode_effect do to a frame with the image what the CPU does
\* with it, and there are slots for their uniforms (GpuEffect::encode_effect,
\* NtscEffect::apply_effect_to_yiq_field).
THEOREM EffectStepsShowCpuEffect ==
  ASSUME NEW base, NEW s, NEW v, NEW events, ForStages(base, s, v), NEW m, IsFrame(m.b),
         \A p \in Planes : m.b[p] = Input(p, v.image),
         DOMAIN m.values = {"frame", "angle", "delay"}, m.ring \in Nat, m.ring <= 2
  PROVE  LET r == Means(base, m, EffectSteps(s, v, events))
         IN /\ <<r.b["y"], r.b["i"], r.b["q"]>> = CpuEffectOnField(s.effect, v, events)
            /\ r.ring <= 5 /\ AllSteps(EffectSteps(s, v, events))
<1> DEFINE e == s.effect
<1>a. PICK f : CpuPlanes(e, v, events, f) BY CpuFold
<1>1. /\ f[0] = [y |-> Input("y", v.image), i |-> Input("i", v.image), q |-> Input("q", v.image), s |-> Scrap]
      /\ \A n \in 1 .. 22 : f[n] = CpuStage(e, v, events, CpuStages[n], f[n - 1])
      /\ CpuEffectOnField(e, v, events) = <<f[22].y, f[22].i, f[22].q>>
  BY <1>a DEF CpuPlanes
<1>2. IsPlanes(f[0]) BY <1>1 DEF IsPlanes
<1>3. f[0].y = Input("y", v.image) /\ f[0].i = Input("i", v.image) /\ f[0].q = Input("q", v.image) BY <1>1
<1>4. Shows(m, f[0], 2) BY <1>3 DEF Shows, Planes
<1> DEFINE steps == EffectSteps(s, v, events)
           r == Means(base, m, steps)
<1>5. ShowsUpTo(base, f, 22, steps, 5) BY <1>1, <1>2, AllStages
<1> HIDE DEF steps
<1>6. Shows(r, f[22], 5) /\ AllSteps(steps) BY <1>4, <1>5 DEF ShowsUpTo
<1> HIDE DEF r
<1>7. <<r.b["y"], r.b["i"], r.b["q"]>> = CpuEffectOnField(s.effect, v, events) /\ r.ring <= 5
  BY <1>1, <1>6 DEF Shows
<1> QED BY <1>6, <1>7 DEF r, steps

=============================================================================
