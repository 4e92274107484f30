----------------------------- MODULE YiqFielding ----------------------------
(* Pictures to planes and back (ntscrs/src/yiq_fielding.rs). A YIQ buffer    *)
(* keeps only the rows of its field, packed; an interleaved one keeps the    *)
(* rows of the first field, then those of the second. Each pass over a       *)
(* picture is a loop of module RowLoop: it reads the picture's rows into the *)
(* planes, filters them, or writes them out.                                 *)
(*                                                                           *)
(* The planes y, i and q go together: a sample stands for the three. It is   *)
(* the sequence <<frame, row, column>> of the pixel it was read from, with   *)
(* the number of the frame appended by each filter pass; Blank is what a new *)
(* buffer holds. A pixel written is the set of the samples it is the mean    *)
(* of, so {} is a pixel nobody wrote.                                        *)
EXTENDS RowLoop, Integers, Sequences

Cpu == INSTANCE CpuEffect

CONSTANT FilterRows     \* rows a filter takes at once

\* A filter takes at least one row at once.
ASSUME FilterRowsAssumption == FilterRows \in Nat \ {0}

VARIABLES pass,         \* what the loop does: set, filter or write
          yiq,          \* the samples of the buffer
          dst           \* the pixels of the buffer written to, in the order of its memory

fieldVars == <<pass, yiq, dst>>

Fields == Cpu!YiqField
Blank == <<>>
Idle == [do |-> "none"]

-----------------------------------------------------------------------------
(* Fields and views                                                          *)

Flip(field) ==
    CASE field = "upper" -> "lower"
      [] field = "lower" -> "upper"
      [] field = "both" -> "both"
      [] field = "interleaved_upper" -> "interleaved_lower"
      [] field = "interleaved_lower" -> "interleaved_upper"

\* The samples of a buffer for a picture of this width and height.
Samples(field, width, height) == width * Cpu!ImageRows(field, height)
NewBuffer(n) == [k \in 0..(n - 1) |-> Blank]

View(field, base, rows) == [field |-> field, base |-> base, rows |-> rows]
Present(view) == IF view.rows > 0 THEN <<view>> ELSE <<>>

\* The views of a buffer: one per field, where it lies in the buffer. The upper
\* field is read first, whichever is stored first.
Views(field, height) ==
    LET upper == Cpu!ActualRows("upper", height)
        lower == Cpu!ActualRows("lower", height)
        Both(up, low) == Present(View("upper", up, upper)) \o Present(View("lower", low, lower))
    IN CASE field = "interleaved_upper" -> Both(0, upper)
         [] field = "interleaved_lower" -> Both(lower, 0)
         [] OTHER -> <<View(field, 0, Cpu!ImageRows(field, height))>>

\* A blit: the rectangle (of the other buffer when it is read, of the planes
\* when it is written), where it goes, the length of the other buffer's rows,
\* its height, and whether its rows are stored from the bottom up.
Blit(rect, at, row_length, height, flip_y) ==
    [rect |-> rect, at |-> at, row_length |-> row_length, height |-> height, flip_y |-> flip_y]
Rect(top, left, bottom, right) == [top |-> top, left |-> left, bottom |-> bottom, right |-> right]
Height(rect) == rect.bottom - rect.top
Width(rect) == rect.right - rect.left

-----------------------------------------------------------------------------
(* Reading a picture                                                         *)

SkippedRows(field, row) ==
    CASE field = "upper" -> DivCeil(row, 2)
      [] field = "lower" -> row \div 2
      [] OTHER -> row

\* Mutant of RectField: the field keeps its parity at an odd row.
RectFieldAsIs(field, row) == field

\* Which rows of the rectangle are of the field.
RectField(field, row) == IF row % 2 = 1 THEN Flip(field) ELSE field

RectRows(view, blit) == Cpu!ImageRows(RectField(view.field, blit.at.row), Height(blit.rect))

\* The row of the other buffer that the loop's chunk idx is read from.
SourceRow(view, blit, idx) ==
    LET field == RectField(view.field, blit.at.row)
        row == blit.rect.top + (CASE field = "upper" -> 2 * idx
                                  [] field = "lower" -> 2 * idx + 1
                                  [] OTHER -> idx)
    IN IF Height(blit.rect) = 1 THEN 0
       ELSE IF blit.flip_y THEN blit.height - row - 1 ELSE row

\* `memory[row][column]': the samples of the buffer that is read.
SetPass(view, blit, width, memory) ==
    [do |-> "set", view |-> view, blit |-> blit, width |-> width, memory |-> memory]

BeginSet(view, blit, width, memory) ==
    /\ pass' = SetPass(view, blit, width, memory)
    /\ Begin(RectRows(view, blit) * width, width)

\* The body: the slice of the planes lies after the rows above the rectangle.
SetRow(c) ==
    LET first == (pass.view.base + SkippedRows(pass.view.field, pass.blit.at.row)) * pass.width + c.from
        row == pass.memory[SourceRow(pass.view, pass.blit, c.idx)]
        Column(k) == k - first - pass.blit.at.column
    IN yiq' = [k \in DOMAIN yiq |->
                  IF Column(k) \in 0..(Width(pass.blit.rect) - 1)
                  THEN row[Column(k) + pass.blit.rect.left] ELSE yiq[k]]

-----------------------------------------------------------------------------
(* The effect: one filter, which stands for all its passes over the planes   *)

BeginFilter(view, width, number) ==
    /\ pass' = [do |-> "filter", first |-> view.base * width, number |-> number]
    /\ Begin(view.rows * width, FilterRows * width)

FilterChunk(c) ==
    yiq' = [k \in DOMAIN yiq |->
               IF k - pass.first \in c.from..(c.to - 1) THEN Append(yiq[k], pass.number) ELSE yiq[k]]

-----------------------------------------------------------------------------
(* Writing a picture                                                         *)

\* The rectangle and its place, seen from the bottom up.
Flipped(blit) ==
    LET rect == [blit.rect EXCEPT !.top = blit.height - blit.rect.bottom,
                                  !.bottom = blit.height - blit.rect.top]
    IN [blit EXCEPT !.rect = rect,
                    !.at.row = blit.height - (Height(blit.rect) + blit.at.row)]

WriteBlit(blit) == IF blit.flip_y THEN Flipped(blit) ELSE blit

BeginWrite(field, blit, width, height, mode) ==
    /\ pass' = [do |-> "write", field |-> field, blit |-> WriteBlit(blit),
                width |-> width, rows |-> Cpu!ImageRows(field, height), height |-> height, mode |-> mode]
    /\ Begin(Height(blit.rect) * blit.row_length, blit.row_length)

\* The row of the picture that the loop's chunk idx is written to.
PictureRow(blit, idx) ==
    LET row == blit.rect.top + idx
    IN IF blit.flip_y THEN blit.height - row - 1 ELSE row

OtherFieldsRow(field, row) == (field = "upper" /\ row % 2 = 1) \/ (field = "lower" /\ row % 2 = 0)

\* Bob takes the mean of the field's rows above and below a row that is not the
\* field's, or at an edge the `nearest' one; skip writes no such row.
FieldRows(p, row, nearest) ==
    IF ~OtherFieldsRow(p.field, row) THEN {nearest}
    ELSE IF p.mode = "skip" THEN {}
    ELSE IF row \in {0, p.blit.height - 1} THEN {nearest}
    ELSE {(row - 1) \div 2, (row + 1) \div 2}

\* The rows of the planes whose mean is written to a row of the picture; none
\* if the row is left as it was.
PlaneRows(p, row) ==
    CASE p.field = "interleaved_upper" ->
           {Least((row \div 2) + Cpu!ImageRows("upper", p.height) * (row % 2), p.height - 1)}
      [] p.field = "interleaved_lower" ->
           {Least((row \div 2) + Cpu!ImageRows("lower", p.height) * (1 - (row % 2)), p.height - 1)}
      [] p.field = "both" -> {Least(row, p.rows - 1)}
      [] OTHER -> FieldRows(p, row, Least(row \div 2, p.rows - 1))

\* The slice of the other buffer lies after the rows above the rectangle, and a
\* row's first pixels may lie outside of it.
WriteRow(c) ==
    LET blit == pass.blit
        first == blit.at.row * blit.row_length + c.from
        rows == PlaneRows(pass, PictureRow(blit, c.idx))
        Column(k) == k - first - blit.at.column
        Pixel(column) == {yiq[row * pass.width + column + blit.rect.left] : row \in rows}
    IN dst' = [k \in DOMAIN dst |->
                  IF Column(k) \in 0..(Width(blit.rect) - 1) /\ rows # {}
                  THEN Pixel(Column(k)) ELSE dst[k]]

-----------------------------------------------------------------------------
\* The pass's body runs on the next chunk of a head.
RunChunk(h) ==
    /\ Call(h)
    /\ CASE pass.do = "set" -> SetRow(Chunk(h)) /\ UNCHANGED dst
         [] pass.do = "filter" -> FilterChunk(Chunk(h)) /\ UNCHANGED dst
         [] pass.do = "write" -> WriteRow(Chunk(h)) /\ UNCHANGED yiq
    /\ UNCHANGED pass
=============================================================================
