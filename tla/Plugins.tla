------------------------------- MODULE Plugins ------------------------------
(* The effect in its hosts: a session is about presets (module Hosts), or a  *)
(* host renders frames with its settings on the CPU. It reads a frame into a *)
(* YIQ buffer, applies the effect to each field and writes the planes into   *)
(* the frame it was given, one loop over rows after the other (modules       *)
(* YiqFielding, RowLoop). The application does so in process_gst_frame,      *)
(* OpenFX in action_render, After Effects in do_render. The hosts differ in  *)
(* which field a frame is, in how rows are stored, and in what is read and   *)
(* written of a frame.                                                       *)
EXTENDS Hosts, YiqFielding

CONSTANT MaxFrames      \* frames a host renders in a session

VARIABLE render         \* the frame being rendered, or the last one, and the passes left

pluginVars == <<hostVars, loopVars, fieldVars, render>>

\* A session's picture: its width and height, the pixels of padding after each
\* row, where the layer lies that is read, the rectangle that is written,
\* whether rows are stored from the bottom up, and how a video is scanned.
NoPicture == [w |-> 0]
Renders == session.picture # NoPicture
Host == Head(session.hosts)
Picture == session.picture

\* The application's layer is the frame; it may write a part of the frame only.
\* OpenFX stores a frame from the bottom up. In After Effects a layer may begin
\* anywhere in the frame and have any size, if more than one of its rows is
\* read or the frame has only one. Of a video's lower field the frame has a row.
PictureOf(host, g) ==
    /\ g.w \in Nat \ {0} /\ g.h \in Nat \ {0} /\ g.pad \in Nat
    /\ {g.src_flip, g.dst_flip} \subseteq BOOLEAN
    /\ g.scan.interlaced \in BOOLEAN
    /\ g.scan.interlaced => /\ {g.scan.tff, g.scan.onefield} \subseteq BOOLEAN
                            /\ g.scan.onefield /\ ~g.scan.tff => g.h > 1
    /\ host = "ae" =>
          /\ g.layer.row \in 0..(g.h - 1) /\ g.layer.column \in 0..(g.w - 1)
          /\ g.layer.height \in Nat \ {0} /\ g.layer.width \in Nat \ {0}
          /\ \/ Least(g.layer.height, g.h - g.layer.row) > 1
             \/ g.h = 1 /\ (g.layer.height = 1 \/ ~g.src_flip)
    /\ host # "ae" => /\ g.layer.row = 0 /\ g.layer.column = 0
                      /\ g.layer.height = g.h /\ g.layer.width = g.w
    /\ host = "gui" => /\ g.rect.bottom \in 0..g.h /\ g.rect.top \in 0..g.rect.bottom
                       /\ g.rect.right \in 0..g.w /\ g.rect.left \in 0..g.rect.right
                       /\ g.pad = 0 /\ ~g.src_flip /\ ~g.dst_flip
    /\ host # "gui" => g.rect = Rect(0, 0, g.h, g.w)
    /\ host = "ofx" => g.src_flip /\ g.dst_flip

ASSUME PicturesAssumption ==
    \A s \in Sessions : s.picture # NoPicture => PictureOf(Head(s.hosts), s.picture)

\* A host renders some frames or none.
ASSUME MaxFramesAssumption == MaxFrames \in Nat

-----------------------------------------------------------------------------
(* The frame as the host hands it over, and what each host asks for          *)

Place(row, column) == [row |-> row, column |-> column]

\* The rows in memory of a frame's layer, with samples named by the layer's pixels.
Memory(g, frame) ==
    [m \in 0..(g.layer.height - 1) |->
        [column \in 0..(g.layer.width - 1) |->
            <<frame, IF g.src_flip THEN g.layer.height - 1 - m ELSE m, column>>]]

FullFrame(g) == Rect(0, 0, g.h, g.w)
Blits(set, write) == [set |-> set, write |-> write]

\* The application writes either all of the frame or the part next to the split.
GuiBlits(g) ==
    Blits(Blit(FullFrame(g), Place(0, 0), g.w, g.h, FALSE),
          Blit(g.rect, Place(g.rect.top, g.rect.left), g.w, g.h, FALSE))

\* OpenFX stores rows from the bottom up.
OfxBlits(g) ==
    LET full == Blit(FullFrame(g), Place(0, 0), g.w + g.pad, g.h, TRUE) IN Blits(full, full)

\* After Effects hands over a layer that may be smaller than the frame.
AeBlits(g) ==
    LET rect == Rect(0, 0, Least(g.layer.height, g.h - g.layer.row),
                           Least(g.layer.width, g.w - g.layer.column))
    IN Blits(Blit(rect, Place(g.layer.row, g.layer.column), g.layer.width + g.pad, g.layer.height,
                  g.src_flip),
             Blit(FullFrame(g), Place(0, 0), g.w + g.pad, g.h, g.dst_flip))

BlitsOf(g) == CASE Host = "gui" -> GuiBlits(g) [] Host = "ofx" -> OfxBlits(g) [] Host = "ae" -> AeBlits(g)

-----------------------------------------------------------------------------
(* Fields and numbers                                                        *)

ToYiqField(use_field, frame_num) ==
    CASE use_field = 0 -> IF frame_num % 2 = 0 THEN "lower" ELSE "upper"
      [] use_field = 1 -> "upper"
      [] use_field = 2 -> "lower"
      [] use_field = 3 -> "both"
      [] use_field = 4 -> "interleaved_upper"
      [] use_field = 5 -> "interleaved_lower"

\* After Effects' own way to say so.
AeField(use_field, frame_num) ==
    IF use_field = 0 THEN IF frame_num % 2 = 1 THEN "upper" ELSE "lower"
    ELSE ToYiqField(use_field, frame_num)

\* An interlaced video says which field comes first and whether it is alone.
InterlacedField(scan) ==
    CASE scan.tff /\ scan.onefield -> "upper"
      [] ~scan.tff /\ scan.onefield -> "lower"
      [] scan.tff /\ ~scan.onefield -> "interleaved_upper"
      [] ~scan.tff /\ ~scan.onefield -> "interleaved_lower"

\* The field of a frame, the number the effect gets, and what becomes of the
\* rows of the other field.
Fielding(g, use_field, frame) ==
    IF Host = "ae" THEN [field |-> AeField(use_field, frame), number |-> frame, mode |-> "bob"]
    ELSE IF ~g.scan.interlaced
         THEN [field |-> ToYiqField(use_field, frame), number |-> frame, mode |-> "bob"]
    ELSE [field |-> InterlacedField(g.scan), number |-> IF g.scan.onefield THEN 2 * frame ELSE frame,
          mode |-> "skip"]

\* The number a view is filtered with.
NumberOf(view, f, height) ==
    (CHOOSE v \in Cpu!CpuViews(f.field, height, f.number) : v.field = view.field).frame

Passes(f, height) ==
    LET views == Views(f.field, height)
    IN [i \in DOMAIN views |-> [do |-> "set", view |-> views[i]]]
       \o [i \in DOMAIN views |->
              [do |-> "filter", view |-> views[i], number |-> NumberOf(views[i], f, height)]]
       \o <<[do |-> "write"]>>

-----------------------------------------------------------------------------
PluginsInit ==
    /\ HostsInit /\ LoopInit
    /\ pass = Idle /\ yiq = NewBuffer(0) /\ dst = NewBuffer(0)
    /\ render = [on |-> FALSE, frame |-> 0, todo |-> <<>>,
                 f |-> [field |-> "both", number |-> 0, mode |-> "bob"]]

\* The settings are read once, before the passes. The application's buffer is
\* that of the frame before if it has the right length; the plugins' is new.
RenderFrame ==
    /\ Renders /\ ~render.on /\ render.frame < MaxFrames
    /\ LET g == Picture
           f == Fielding(g, SettingsOf(Host)["use_field"], render.frame)
           n == Samples(f.field, g.w, g.h)
       IN /\ yiq' = IF Host = "gui" /\ DOMAIN yiq = 0..(n - 1) THEN yiq ELSE NewBuffer(n)
          /\ dst' = [k \in 0..((g.w + g.pad) * g.h - 1) |-> {}]
          /\ render' = [render EXCEPT !.on = TRUE, !.f = f, !.todo = Passes(f, g.h)]
    /\ UNCHANGED <<hostVars, loopVars, pass>>

StartPass ==
    /\ render.on /\ ~looping /\ render.todo # <<>>
    /\ LET g == Picture
           p == Head(render.todo)
       IN CASE p.do = "set" -> BeginSet(p.view, BlitsOf(g).set, g.w, Memory(g, render.frame))
            [] p.do = "filter" -> BeginFilter(p.view, g.w, p.number)
            [] p.do = "write" -> BeginWrite(render.f.field, BlitsOf(g).write, g.w, g.h, render.f.mode)
    /\ render' = [render EXCEPT !.todo = Tail(@)]
    /\ UNCHANGED <<hostVars, yiq, dst>>

RunLoop ==
    /\ \/ SpawnHead /\ UNCHANGED fieldVars
       \/ \E h \in heads : RunChunk(h)
       \/ Return /\ UNCHANGED fieldVars
    /\ UNCHANGED <<hostVars, render>>

EndFrame ==
    /\ render.on /\ ~looping /\ render.todo = <<>>
    /\ render' = [render EXCEPT !.on = FALSE, !.frame = @ + 1]
    /\ UNCHANGED <<hostVars, loopVars, fieldVars>>

Next ==
    \/ RenderFrame
    \/ StartPass
    \/ RunLoop
    \/ EndFrame
    \/ ~render.on /\ HostsNext /\ UNCHANGED <<loopVars, fieldVars, render>>

Spec == PluginsInit /\ [][Next]_pluginVars

-----------------------------------------------------------------------------
(* What a frame is to look like, told pixel by pixel                         *)

\* Whether the effect was applied to a row of the picture as it is: each row
\* but those of the other field. A picture of one row has no other field.
OwnRow(field, height, row) ==
    \/ height = 1
    \/ CASE field = "upper" -> row % 2 = 0
         [] field = "lower" -> row % 2 = 1
         [] OTHER -> TRUE

\* The number of a row: interleaved, the field stored first has the even one.
RowNumber(f, row) ==
    CASE f.field = "interleaved_upper" -> 2 * f.number + (row % 2)
      [] f.field = "interleaved_lower" -> 2 * f.number + 1 - (row % 2)
      [] OTHER -> f.number

\* The layer's pixel there, if the layer has one, after the effect.
Rendered(g, f, frame, row, column) ==
    LET r == row - g.layer.row
        c == column - g.layer.column
        pixel == IF r \in 0..(g.layer.height - 1) /\ c \in 0..(g.layer.width - 1)
                 THEN <<frame, r, c>> ELSE Blank
    IN Append(pixel, RowNumber(f, row))

\* Outside of the rectangle nothing is written; a row of the other field is the
\* mean of the rows next to it, or left as it was.
Expected(g, f, frame, row, column) ==
    IF ~(row \in g.rect.top..(g.rect.bottom - 1) /\ column \in g.rect.left..(g.rect.right - 1)) THEN {}
    ELSE IF OwnRow(f.field, g.h, row) THEN {Rendered(g, f, frame, row, column)}
    ELSE IF f.mode = "skip" THEN {}
    ELSE {Rendered(g, f, frame, r, column) : r \in {row - 1, row + 1} \cap 0..(g.h - 1)}

\* Every pixel of a rendered frame is the one the frame's field, number and
\* rectangle call for, wherever the layer lies, however the rows are stored
\* and whatever the buffer held before; no padding is written.
FrameAsReference ==
    (Renders /\ ~render.on /\ render.frame > 0) =>
        LET g == Picture
            length == g.w + g.pad
            Row(k) == IF g.dst_flip THEN g.h - 1 - (k \div length) ELSE k \div length
        IN \A k \in DOMAIN dst :
              dst[k] = IF k % length >= g.w THEN {}
                       ELSE Expected(g, render.f, render.frame - 1, Row(k), k % length)

\* Settings stay within the ranges of their controls, whatever a preset says,
\* and the loops within the buffers they were made for.
TypeOK ==
    /\ \A h \in HostsOf(session) : InRange(SettingsOf(h))
    /\ render.frame \in 0..MaxFrames
    /\ render.f.field \in Fields
    /\ looping => \A h \in heads : h.from \in 0..len /\ h.to \in h.from..len
=============================================================================
