---------------------------- MODULE RowLoopProofs ---------------------------
(* Proof that a loop runs its body once for every chunk (EveryRowOnce), for *)
(* every number of threads, every length of the buffer and of a chunk.      *)
EXTENDS RowLoop, TLAPS

\* Multiplication, as the provers need it spelled out.
LEMMA TimesSum ==
  ASSUME NEW a \in Int, NEW b \in Int, NEW c \in Int
  PROVE  (a + b) * c = a * c + b * c
OBVIOUS

LEMMA TimesMonotonic ==
  ASSUME NEW a \in Nat, NEW b \in Nat, NEW c \in Nat, a <= b
  PROVE  a * c \in Nat /\ b * c \in Nat /\ a * c <= b * c
OBVIOUS

LEMMA TimesAtLeast ==
  ASSUME NEW a \in Nat, NEW b \in Nat \ {0}
  PROVE  a <= a * b
OBVIOUS

\* What lies below a multiple is the multiple of something smaller.
LEMMA TimesBelow ==
  ASSUME NEW a \in Nat, NEW b \in Nat, NEW c \in Nat, a * c < b * c
  PROVE  a + 1 <= b
BY TimesMonotonic

LEMMA DivisionFacts ==
  ASSUME NEW a \in Nat, NEW b \in Nat \ {0}
  PROVE  /\ a \div b \in Nat /\ a % b \in Nat /\ a % b < b
         /\ a = (a \div b) * b + (a % b)
OBVIOUS

\* The chunks of a buffer, counted by its div_ceil, reach its end.
LEMMA DivCeilReaches ==
  ASSUME NEW a \in Nat, NEW b \in Nat \ {0}
  PROVE  DivCeil(a, b) \in Nat /\ a <= DivCeil(a, b) * b
  <1> DEFINE n == a + b - 1
  <1>1. n \in Nat  OBVIOUS
  <1>2. n \div b \in Nat /\ n % b < b /\ n % b \in Nat /\ n = (n \div b) * b + (n % b)
    BY <1>1, DivisionFacts
  <1> QED  BY <1>2 DEF DivCeil

-----------------------------------------------------------------------------
(* The inductive invariant. Heads are kept by where they lie in the buffer:  *)
(* they do not overlap, they cover what was cut off, and each of them begins *)
(* at the chunk it is numbered with. The loop stops cutting when the counter *)
(* of the heads says so; CutsAddUp says that nothing of the buffer is left.  *)

LoopType ==
    /\ looping \in BOOLEAN
    /\ len \in Nat /\ size \in Nat \ {0} /\ start \in Nat /\ from \in Nat /\ spawned \in Nat
    /\ heads \subseteq [id : Nat, start : Nat, from : Nat, to : Nat, done : Nat]
    /\ calls \subseteq [idx : Nat, from : Nat, to : Nat, by : Nat]

HeadsPlaced ==
    \A h \in heads : /\ h.from = Least(h.start * size, len)
                     /\ h.from <= h.to /\ h.to <= from
                     /\ \E k \in Nat : h.to = Least(k * size, len)

Overlap(h, g) == h.from < g.to /\ g.from < h.to
HeadsApart == \A h, g \in heads : Overlap(h, g) => h.id = g.id

Covered(at, slices) == \E s \in slices : s.from <= at /\ at < s.to
HeadsCover == \A at \in Nat : at < from => Covered(at, heads)

CutsAddUp ==
    /\ from <= len
    /\ Threads = 1 => from = len
    /\ Threads # 1 => /\ from = Least(start * size, len)
                      /\ start = spawned * PerUnit + Least(spawned, Remainder)
                      /\ spawned <= Heads

OneSlice(c) == c.from = c.idx * size /\ c.from < c.to /\ c.to = Least(c.from + size, len)
InHead(c) == \E h \in heads : h.id = c.by /\ h.from <= c.from /\ c.from < h.to
CallsMade == \A c \in calls : OneSlice(c) /\ InHead(c)

CallsCover ==
    \A h \in heads : \A at \in Nat :
        h.from <= at /\ at < h.to /\ at < At(h) => Covered(at, calls)

AllCalled == ~looping => \A at \in Nat : at < len => Covered(at, calls)

LoopInv == /\ LoopType /\ HeadsPlaced /\ HeadsApart /\ HeadsCover /\ CutsAddUp
           /\ CallsMade /\ CallsCover /\ AllCalled

-----------------------------------------------------------------------------
LEMMA CountsType ==
  ASSUME len \in Nat, size \in Nat \ {0}
  PROVE  /\ Units \in Nat \ {0}
         /\ PerUnit \in Nat /\ Remainder \in Nat /\ Heads \in Nat
         /\ DivCeil(len, size) \in Nat
         /\ Remainder >= DivCeil(len, size) % Units
         /\ DivCeil(len, size) = PerUnit * Units + (DivCeil(len, size) % Units)
         /\ DivCeil(len, size) % Units \in Nat
         /\ DivCeil(len, size) % Units < Units
  <1>1. Units \in Nat \ {0}  BY ThreadsAssumption DEF Units
  <1>2. DivCeil(len, size) \in Nat  BY DivCeilReaches
  <1>3. /\ PerUnit \in Nat
        /\ DivCeil(len, size) = PerUnit * Units + (DivCeil(len, size) % Units)
        /\ DivCeil(len, size) % Units \in Nat /\ DivCeil(len, size) % Units < Units
    BY <1>1, <1>2, DivisionFacts DEF PerUnit
  <1>4. Remainder \in Nat /\ Remainder >= DivCeil(len, size) % Units
    BY <1>3 DEF Remainder
  <1>5. Heads \in Nat  BY <1>1, <1>4 DEF Heads
  <1> QED  BY <1>1, <1>2, <1>3, <1>4, <1>5

\* When the loop's thread stops, the heads reach the end of the buffer: what
\* par_for_each_inner leaves in `rest` is empty, so dropping it loses no row.
LEMMA NothingLeft ==
  ASSUME LoopType, CutsAddUp, AllSpawned
  PROVE  from = len
  <1>1. CASE Threads = 1  BY <1>1 DEF CutsAddUp
  <1>2. CASE Threads # 1
    <2> DEFINE total == DivCeil(len, size)
    <2>0. len \in Nat /\ size \in Nat \ {0} /\ start \in Nat /\ spawned \in Nat
      BY DEF LoopType
    <2>1. /\ Units \in Nat \ {0} /\ PerUnit \in Nat /\ Remainder \in Nat /\ total \in Nat
          /\ Remainder >= total % Units /\ total = PerUnit * Units + (total % Units)
          /\ total % Units \in Nat /\ total % Units < Units
      BY <2>0, CountsType
    <2>2. start = spawned * PerUnit + Least(spawned, Remainder)
      BY <1>2 DEF CutsAddUp
    <2>3. start >= total
      <3>1. CASE PerUnit = 0
        <4>1. spawned >= Remainder
          BY <1>2, <2>0, <2>1, <3>1 DEF AllSpawned, Heads, ChunksOf, CutsAddUp
        <4> QED  BY <4>1, <2>0, <2>1, <2>2, <3>1 DEF Least
      <3>2. CASE PerUnit # 0
        <4>1. spawned = Units
          BY <1>2, <2>0, <2>1, <3>2 DEF AllSpawned, Heads, ChunksOf
        <4>2. Least(spawned, Remainder) >= total % Units
          BY <4>1, <2>1 DEF Least
        <4>3. spawned * PerUnit = PerUnit * Units  BY <4>1, <2>1
        <4> HIDE DEF total
        <4> QED  BY <4>2, <4>3, <2>0, <2>1, <2>2 DEF Least
      <3> QED  BY <3>1, <3>2
    <2>4. len <= total * size  BY <2>0, DivCeilReaches
    <2>5. total * size <= start * size  BY <2>0, <2>1, <2>3, TimesMonotonic
    <2>6. start * size \in Nat /\ total * size \in Nat  BY <2>0, <2>1
    <2> HIDE DEF total
    <2>7. len <= start * size  BY <2>0, <2>4, <2>5, <2>6
    <2> QED  BY <1>2, <2>0, <2>6, <2>7 DEF CutsAddUp, Least
  <1> QED  BY <1>1, <1>2

-----------------------------------------------------------------------------
LEMMA InvAtStart == LoopInit => LoopInv
  <1> SUFFICES ASSUME LoopInit  PROVE LoopInv
    OBVIOUS
  <1>1. LoopType
    <2>1. looping \in BOOLEAN  BY DEF LoopInit
    <2>2. /\ len \in Nat /\ size \in Nat \ {0} /\ start \in Nat /\ from \in Nat
          /\ spawned \in Nat /\ heads = {} /\ calls = {}
      BY DEF LoopInit
    <2> QED  BY <2>1, <2>2 DEF LoopType
  <1>2. CutsAddUp
    BY <1>1, CountsType DEF LoopInit, LoopType, CutsAddUp, Least
  <1> QED
    BY <1>1, <1>2
       DEF LoopInit, LoopInv, HeadsPlaced, HeadsApart, HeadsCover, CallsMade, CallsCover, AllCalled

LEMMA InvBegin ==
  ASSUME LoopInv, NEW l \in Nat, NEW s \in Nat \ {0}, Begin(l, s)
  PROVE  LoopInv'
  <1> USE DEF Begin
  <1>0. l \in Nat /\ s \in Nat \ {0}  OBVIOUS
  <1>1. LoopType'
    <2>1. CASE Threads = 1  BY <1>0, <2>1 DEF LoopInv, LoopType
    <2>2. CASE Threads # 1  BY <1>0, <2>2 DEF LoopInv, LoopType
    <2> QED  BY <2>1, <2>2
  <1>2. HeadsPlaced'
    <2>1. CASE Threads = 1
      <3>1. l <= l * s  BY <1>0, TimesAtLeast
      <3>2. l = Least(l * s, l) /\ 0 = Least(0 * s, l) /\ 0 <= l
        BY <1>0, <3>1 DEF Least
      <3> DEFINE h == [id |-> 0, start |-> 0, from |-> 0, to |-> l, done |-> 0]
      <3>3. heads' = {h} /\ from' = l /\ size' = s /\ len' = l  BY <2>1
      <3>4. h.start = 0 /\ h.from = 0 /\ h.to = l  OBVIOUS
      <3> HIDE DEF h
      <3>5. \E k \in Nat : h.to = Least(k * s, l)  BY <1>0, <3>2, <3>4
      <3>6. h.from = Least(h.start * s, l) /\ h.from <= h.to /\ h.to <= l
        BY <1>0, <3>2, <3>4
      <3> HIDE DEF Begin
      <3> QED  BY <3>3, <3>5, <3>6 DEF HeadsPlaced
    <2>2. CASE Threads # 1  BY <2>2 DEF HeadsPlaced
    <2> QED  BY <2>1, <2>2
  <1>3. HeadsApart' /\ HeadsCover'
    <2>1. CASE Threads = 1
      <3> DEFINE h == [id |-> 0, start |-> 0, from |-> 0, to |-> l, done |-> 0]
      <3>1. heads' = {h} /\ from' = l /\ h.from = 0 /\ h.to = l  BY <2>1
      <3> HIDE DEF h
      <3> QED  BY <1>0, <3>1 DEF HeadsApart, HeadsCover, Covered
    <2>2. CASE Threads # 1  BY <1>0, <2>2 DEF HeadsApart, HeadsCover, Covered
    <2> QED  BY <2>1, <2>2
  <1>4. CutsAddUp'
    <2>1. PerUnit' \in Nat /\ Remainder' \in Nat /\ Heads' \in Nat
      <3>1. Units \in Nat \ {0} /\ DivCeil(l, s) \in Nat
        BY <1>0, DivCeilReaches, ThreadsAssumption DEF Units
      <3>2. DivCeil(l, s) \div Units \in Nat /\ DivCeil(l, s) % Units \in Nat
        BY <3>1, DivisionFacts
      <3>3. PerUnit' \in Nat /\ Remainder' \in Nat
        BY <3>2 DEF PerUnit, Remainder
      <3> QED  BY <3>1, <3>3 DEF Heads
    <2>2. CASE Threads = 1  BY <1>0, <2>2 DEF CutsAddUp
    <2>3. CASE Threads # 1
      <3>1. from' = 0 /\ start' = 0 /\ spawned' = 0 /\ len' = l /\ size' = s
        BY <2>3
      <3>2. 0 = Least(0 * s, l)  BY <1>0 DEF Least
      <3>3. \A p, q \in Nat : 0 = 0 * p + Least(0, q)  BY DEF Least
      <3>4. 0 = 0 * PerUnit' + Least(0, Remainder')
        BY ONLY <2>1, <3>3
      <3> QED  BY <1>0, <2>1, <2>3, <3>1, <3>2, <3>4 DEF CutsAddUp
    <2> QED  BY <2>2, <2>3
  <1>5. CallsMade' /\ AllCalled'
    BY DEF CallsMade, AllCalled
  <1>6. CallsCover'
    BY <1>0 DEF CallsCover, At
  <1> QED  BY <1>1, <1>2, <1>3, <1>4, <1>5, <1>6 DEF LoopInv

LEMMA InvSpawnHead ==
  ASSUME LoopInv, SpawnHead
  PROVE  LoopInv'
  <1> DEFINE n == ChunksOf(spawned)
             to == from + Least(n * size, len - from)
             new == [id |-> spawned, start |-> start, from |-> from, to |-> to, done |-> 0]
  <1>1. /\ len \in Nat /\ size \in Nat \ {0} /\ start \in Nat /\ from \in Nat /\ spawned \in Nat
        /\ looping \in BOOLEAN /\ looping
        /\ from <= len
    BY DEF LoopInv, LoopType, CutsAddUp, SpawnHead
  <1>2. /\ Threads # 1 /\ spawned # Heads /\ n # 0
        /\ heads' = heads \cup {new} /\ start' = start + n /\ from' = to /\ spawned' = spawned + 1
        /\ UNCHANGED <<looping, len, size, calls>>
    BY DEF SpawnHead, AllSpawned, SplitAt
  <1>3. PerUnit \in Nat /\ Remainder \in Nat /\ Heads \in Nat  BY <1>1, CountsType
  <1>4. n \in Nat /\ n = PerUnit + (IF spawned < Remainder THEN 1 ELSE 0)
    BY <1>3 DEF ChunksOf
  <1>5. start * size \in Nat /\ n * size \in Nat /\ (start + n) * size = start * size + n * size
    BY <1>1, <1>4, TimesSum
  <1>6. from = Least(start * size, len)  BY <1>2 DEF LoopInv, CutsAddUp
  <1> HIDE DEF n
  <1>7. to \in Nat /\ from <= to /\ to <= len /\ to = Least((start + n) * size, len)
    BY <1>1, <1>5, <1>6 DEF Least
  <1> HIDE DEF to
  <1>8. new \in [id : Nat, start : Nat, from : Nat, to : Nat, done : Nat]
    BY <1>1, <1>7
  <1>9. new.id = spawned /\ new.start = start /\ new.from = from /\ new.to = to /\ new.done = 0
    OBVIOUS
  <1> HIDE DEF new
  <1>10. LoopType'
    <2>1. heads \subseteq [id : Nat, start : Nat, from : Nat, to : Nat, done : Nat]
      BY DEF LoopInv, LoopType
    <2>2. heads' \subseteq [id : Nat, start : Nat, from : Nat, to : Nat, done : Nat]
      BY <1>2, <1>8, <2>1
    <2>3. looping' \in BOOLEAN /\ calls' \subseteq [idx : Nat, from : Nat, to : Nat, by : Nat]
      BY <1>1, <1>2 DEF LoopInv, LoopType
    <2>4. /\ len' \in Nat /\ size' \in Nat \ {0} /\ start' \in Nat /\ from' \in Nat
          /\ spawned' \in Nat
      BY <1>1, <1>2, <1>4, <1>7
    <2> QED  BY <2>2, <2>3, <2>4 DEF LoopType
  <1>11. HeadsPlaced'
    <2> SUFFICES ASSUME NEW h \in heads'
                 PROVE  /\ h.from = Least(h.start * size, len)
                        /\ h.from <= h.to /\ h.to <= to
                        /\ \E k \in Nat : h.to = Least(k * size, len)
      BY <1>2 DEF HeadsPlaced
    <2>1. CASE h \in heads
      <3>1. /\ h.from = Least(h.start * size, len) /\ h.from <= h.to /\ h.to <= from
            /\ \E k \in Nat : h.to = Least(k * size, len)
        BY <2>1 DEF LoopInv, HeadsPlaced
      <3>2. h.from \in Nat /\ h.to \in Nat  BY <2>1 DEF LoopInv, LoopType
      <3>3. h.to <= to  BY <3>1, <3>2, <1>1, <1>7
      <3> QED  BY ONLY <3>1, <3>3
    <2>2. CASE h = new
      <3>1. start + n \in Nat  BY <1>1, <1>4
      <3>2. h.from = Least(h.start * size, len) /\ h.from <= h.to
        BY <2>2, <1>6, <1>7, <1>9
      <3>3. h.to <= to /\ h.to = Least((start + n) * size, len)
        BY <2>2, <1>7, <1>9
      <3> QED  BY ONLY <3>1, <3>2, <3>3
    <2> QED  BY <2>1, <2>2, <1>2
  <1>12. HeadsApart'
    <2> SUFFICES ASSUME NEW h \in heads', NEW g \in heads', Overlap(h, g)  PROVE h.id = g.id
      BY DEF HeadsApart, Overlap
    <2>1. \A e \in heads : e.from \in Nat /\ e.to \in Nat /\ e.to <= from
      BY DEF LoopInv, LoopType, HeadsPlaced
    <2>2. \A e \in heads : ~Overlap(e, new) /\ ~Overlap(new, e)
      BY <2>1, <1>1, <1>7, <1>9 DEF Overlap
    <2>3. CASE h \in heads /\ g \in heads  BY <2>3 DEF LoopInv, HeadsApart
    <2> QED  BY <2>2, <2>3, <1>2
  <1>13. HeadsCover'
    <2> SUFFICES ASSUME NEW at \in Nat, at < to  PROVE Covered(at, heads')
      BY <1>2 DEF HeadsCover, Covered
    <2>1. CASE at < from
      <3>1. Covered(at, heads)  BY <2>1 DEF LoopInv, HeadsCover
      <3> QED  BY <3>1, <1>2 DEF Covered
    <2>2. CASE from <= at  BY <2>2, <1>2, <1>9 DEF Covered
    <2> QED  BY <2>1, <2>2, <1>1
  <1>14. CutsAddUp'
    <2>1. PerUnit' = PerUnit /\ Remainder' = Remainder /\ Heads' = Heads
      BY <1>2 DEF PerUnit, Remainder, Heads, Units, DivCeil
    <2>2. from' <= len'  BY <1>2, <1>7
    <2>3. from' = Least(start' * size', len')  BY <1>2, <1>7
    <2>4. spawned' <= Heads'
      <3>1. spawned <= Heads  BY <1>2 DEF LoopInv, CutsAddUp
      <3> QED  BY <3>1, <2>1, <1>1, <1>2, <1>3
    <2>5. start' = spawned' * PerUnit' + Least(spawned', Remainder')
      <3>1. start = spawned * PerUnit + Least(spawned, Remainder)
        BY <1>2 DEF LoopInv, CutsAddUp
      <3>2. (spawned + 1) * PerUnit = spawned * PerUnit + 1 * PerUnit
            /\ spawned * PerUnit \in Nat
        BY <1>1, <1>3, TimesSum
      <3>3. start + n = (spawned + 1) * PerUnit + Least(spawned + 1, Remainder)
        BY <3>1, <3>2, <1>1, <1>3, <1>4 DEF Least
      <3> QED  BY <3>3, <2>1, <1>2
    <2> QED  BY <2>2, <2>3, <2>4, <2>5, <1>2 DEF CutsAddUp
  <1>15. CallsMade'
    <2> SUFFICES ASSUME NEW c \in calls  PROVE OneSlice(c)' /\ InHead(c)'
      BY <1>2 DEF CallsMade
    <2>1. OneSlice(c) /\ InHead(c)  BY DEF LoopInv, CallsMade
    <2> QED  BY <2>1, <1>2 DEF OneSlice, InHead
  <1>16. CallsCover'
    <2> SUFFICES ASSUME NEW h \in heads', NEW at \in Nat,
                        h.from <= at, at < h.to, at < h.from + h.done * size
                 PROVE  Covered(at, calls)
      BY <1>2 DEF CallsCover, At, Covered
    <2>1. CASE h \in heads  BY <2>1 DEF LoopInv, CallsCover, At
    <2>2. CASE h = new  BY <2>2, <1>1, <1>9
    <2> QED  BY <2>1, <2>2, <1>2
  <1>17. AllCalled'  BY <1>1, <1>2 DEF AllCalled
  <1> QED  BY <1>10, <1>11, <1>12, <1>13, <1>14, <1>15, <1>16, <1>17 DEF LoopInv

\* A chunk that a head still has to run ends where its number says: only the
\* head that ends the buffer may be cut within a chunk.
LEMMA ChunkIsOneSlice ==
  ASSUME LoopInv, NEW h \in heads, ~Finished(h)
  PROVE  OneSlice(Chunk(h)) /\ h.from <= Chunk(h).from /\ Chunk(h).from < h.to /\ Chunk(h).by = h.id
  <1>1. /\ len \in Nat /\ size \in Nat \ {0} /\ from <= len /\ from \in Nat
        /\ h.id \in Nat /\ h.start \in Nat /\ h.from \in Nat /\ h.to \in Nat /\ h.done \in Nat
    BY DEF LoopInv, LoopType, CutsAddUp
  <1>2. h.from = Least(h.start * size, len) /\ h.from <= h.to /\ h.to <= from
    BY DEF LoopInv, HeadsPlaced
  <1>3. h.start * size \in Nat /\ h.done * size \in Nat  BY <1>1
  <1>4. At(h) = h.from + h.done * size /\ At(h) < h.to /\ At(h) \in Nat
    BY <1>1, <1>3 DEF Finished, At
  <1>5. h.from = h.start * size
    BY <1>1, <1>2, <1>3, <1>4 DEF Least
  <1>6. At(h) = (h.start + h.done) * size
    BY <1>1, <1>4, <1>5, TimesSum
  <1>7. Least(At(h) + size, h.to) = Least(At(h) + size, len)
    <2>1. PICK k \in Nat : h.to = Least(k * size, len)
      BY DEF LoopInv, HeadsPlaced
    <2>2. CASE h.to = len  BY <2>2
    <2>3. CASE h.to # len
      <3>1. k * size \in Nat /\ h.to = k * size /\ h.to <= len
        BY <2>1, <2>3, <1>1 DEF Least
      <3>2. h.start + h.done \in Nat /\ (h.start + h.done) * size < k * size
        BY <3>1, <1>1, <1>4, <1>6
      <3>3. h.start + h.done + 1 <= k  BY <3>2, <1>1, TimesBelow
      <3>4. (h.start + h.done + 1) * size <= k * size
        BY <3>3, <1>1, TimesMonotonic
      <3>5. (h.start + h.done + 1) * size = (h.start + h.done) * size + 1 * size
        BY <1>1, TimesSum
      <3>6. At(h) + size <= h.to
        BY <3>1, <3>4, <3>5, <1>1, <1>6
      <3> QED  BY <3>1, <3>6, <1>1, <1>4 DEF Least
    <2> QED  BY <2>2, <2>3
  <1>8. At(h) < Least(At(h) + size, len)
    BY <1>1, <1>2, <1>4 DEF Least
  <1>9. h.from <= At(h)  BY <1>1, <1>3, <1>4
  <1> QED  BY <1>4, <1>6, <1>7, <1>8, <1>9 DEF Chunk, OneSlice

LEMMA InvCall ==
  ASSUME LoopInv, NEW h \in heads, Call(h)
  PROVE  LoopInv'
  <1> DEFINE new == [h EXCEPT !.done = @ + 1]
             chunk == Chunk(h)
  <1>1. /\ len \in Nat /\ size \in Nat \ {0} /\ from \in Nat
        /\ h \in [id : Nat, start : Nat, from : Nat, to : Nat, done : Nat]
        /\ heads \subseteq [id : Nat, start : Nat, from : Nat, to : Nat, done : Nat]
        /\ calls \subseteq [idx : Nat, from : Nat, to : Nat, by : Nat]
    BY DEF LoopInv, LoopType
  <1>2. /\ ~Finished(h) /\ looping /\ looping' = looping
        /\ calls' = calls \cup {chunk} /\ heads' = (heads \ {h}) \cup {new}
        /\ UNCHANGED <<len, size, start, from, spawned>>
    BY DEF Call
  <1>3. OneSlice(chunk) /\ h.from <= chunk.from /\ chunk.from < h.to /\ chunk.by = h.id
    BY <1>2, ChunkIsOneSlice
  <1>4. /\ new \in [id : Nat, start : Nat, from : Nat, to : Nat, done : Nat]
        /\ new.id = h.id /\ new.start = h.start /\ new.from = h.from /\ new.to = h.to
        /\ new.done = h.done + 1
    BY <1>1
  <1>5. /\ chunk.from = At(h) /\ At(h) = h.from + h.done * size /\ At(h) \in Nat
        /\ chunk.to = Least(At(h) + size, h.to)
        /\ chunk \in [idx : Nat, from : Nat, to : Nat, by : Nat]
    <2>1. h.done * size \in Nat /\ h.done \in Nat /\ h.to \in Nat /\ h.from \in Nat
          /\ h.start \in Nat /\ h.id \in Nat
      BY <1>1
    <2>2. At(h) \in Nat  BY <2>1 DEF At
    <2>3. Least(At(h) + size, h.to) \in Nat  BY <2>1, <2>2, <1>1 DEF Least
    <2> QED  BY <2>1, <2>2, <2>3 DEF Chunk, At
  <1> HIDE DEF new, chunk
  <1>6. LoopType'
    <2>1. heads' \subseteq [id : Nat, start : Nat, from : Nat, to : Nat, done : Nat]
      BY <1>1, <1>2, <1>4
    <2>2. calls' \subseteq [idx : Nat, from : Nat, to : Nat, by : Nat]
      BY <1>1, <1>2, <1>5
    <2>3. /\ looping' \in BOOLEAN /\ len' \in Nat /\ size' \in Nat \ {0} /\ start' \in Nat
          /\ from' \in Nat /\ spawned' \in Nat
      BY <1>2 DEF LoopInv, LoopType
    <2> QED  BY <2>1, <2>2, <2>3 DEF LoopType
  <1>7. HeadsPlaced'
    <2>1. \A g \in heads : /\ g.from = Least(g.start * size, len)
                           /\ g.from <= g.to /\ g.to <= from
                           /\ \E k \in Nat : g.to = Least(k * size, len)
      BY DEF LoopInv, HeadsPlaced
    <2> QED  BY <2>1, <1>2, <1>4 DEF HeadsPlaced
  <1>8. HeadsApart'
    <2>1. \A e, g \in heads : Overlap(e, g) => e.id = g.id  BY DEF LoopInv, HeadsApart
    <2>2. \A e : (Overlap(new, e) <=> Overlap(h, e)) /\ (Overlap(e, new) <=> Overlap(e, h))
      BY <1>4 DEF Overlap
    <2>3. \A e, g \in heads' : Overlap(e, g) => e.id = g.id
      BY <2>1, <2>2, <1>2, <1>4
    <2> QED  BY <2>3 DEF HeadsApart, Overlap
  <1>9. ASSUME NEW at \in Nat, Covered(at, heads)  PROVE Covered(at, heads')
    BY <1>9, <1>2, <1>4 DEF Covered
  <1>10. HeadsCover'
    <2>1. \A at \in Nat : at < from => Covered(at, heads')
      BY <1>9 DEF LoopInv, HeadsCover
    <2> QED  BY <2>1, <1>2 DEF HeadsCover, Covered
  <1>11. CutsAddUp'
    <2>1. PerUnit' = PerUnit /\ Remainder' = Remainder /\ Heads' = Heads
      BY <1>2 DEF PerUnit, Remainder, Heads, Units, DivCeil
    <2> QED  BY <2>1, <1>2 DEF LoopInv, CutsAddUp
  <1>12. CallsMade'
    <2> SUFFICES ASSUME NEW c \in calls'  PROVE OneSlice(c)' /\ InHead(c)'
      BY DEF CallsMade
    <2>1. CASE c \in calls
      <3>1. OneSlice(c) /\ InHead(c)  BY <2>1 DEF LoopInv, CallsMade
      <3>2. OneSlice(c)'  BY <3>1, <1>2 DEF OneSlice
      <3>3. PICK g \in heads : g.id = c.by /\ g.from <= c.from /\ c.from < g.to
        BY <3>1 DEF InHead
      <3>4. \E e \in heads' : e.id = c.by /\ e.from <= c.from /\ c.from < e.to
        BY <3>3, <1>2, <1>4
      <3> QED  BY <3>2, <3>4 DEF InHead
    <2>2. CASE c = chunk
      <3>1. OneSlice(c)'  BY <2>2, <1>2, <1>3 DEF OneSlice
      <3>2. new \in heads'  BY <1>2
      <3>3. InHead(c)'  BY <2>2, <3>2, <1>3, <1>4 DEF InHead
      <3> QED  BY <3>1, <3>3
    <2> QED  BY <2>1, <2>2, <1>2
  <1>13. CallsCover'
    <2> SUFFICES ASSUME NEW g \in heads', NEW at \in Nat,
                        g.from <= at, at < g.to, at < g.from + g.done * size
                 PROVE  Covered(at, calls')
      BY <1>2 DEF CallsCover, At, Covered
    <2>1. ASSUME NEW e \in heads, e.from <= at, at < e.to, at < e.from + e.done * size
          PROVE  Covered(at, calls')
      <3>1. Covered(at, calls)  BY <2>1 DEF LoopInv, CallsCover, At
      <3> QED  BY <3>1, <1>2 DEF Covered
    <2>2. CASE g \in heads  BY <2>1, <2>2
    <2>3. CASE g = new
      <3>1. CASE at < At(h)
        BY <2>1, <2>3, <3>1, <1>4, <1>5
      <3>2. CASE At(h) <= at
        <4>1. (h.done + 1) * size = h.done * size + 1 * size
          BY <1>1, TimesSum
        <4>2. at < At(h) + size
          BY <2>3, <4>1, <1>1, <1>4, <1>5
        <4>3. chunk.from <= at /\ at < chunk.to
          BY <2>3, <3>2, <4>2, <1>4, <1>5 DEF Least
        <4> QED  BY <4>3, <1>2 DEF Covered
      <3> QED  BY <3>1, <3>2, <1>5
    <2> QED  BY <2>2, <2>3, <1>2
  <1>14. AllCalled'  BY <1>2 DEF AllCalled
  <1> QED  BY <1>6, <1>7, <1>8, <1>10, <1>11, <1>12, <1>13, <1>14 DEF LoopInv

LEMMA InvReturn ==
  ASSUME LoopInv, Return
  PROVE  LoopInv'
  <1>1. /\ looping' = FALSE /\ AllSpawned /\ \A h \in heads : Finished(h)
        /\ UNCHANGED <<len, size, start, from, spawned, heads, calls>>
    BY DEF Return
  <1>2. from = len  BY <1>1, NothingLeft DEF LoopInv
  <1>3. \A at \in Nat : at < len => Covered(at, calls)
    <2> SUFFICES ASSUME NEW at \in Nat, at < len  PROVE Covered(at, calls)
      OBVIOUS
    <2>1. PICK h \in heads : h.from <= at /\ at < h.to
      BY <1>2 DEF LoopInv, HeadsCover, Covered
    <2>2. h.to <= At(h) /\ h.to \in Nat /\ At(h) \in Nat
      <3>1. h.from \in Nat /\ h.to \in Nat /\ h.done \in Nat /\ size \in Nat
        BY DEF LoopInv, LoopType
      <3>2. h.done * size \in Nat  BY <3>1
      <3> QED  BY <1>1, <3>1, <3>2 DEF Finished, At
    <2>3. at < At(h)  BY <2>1, <2>2
    <2> QED  BY <2>1, <2>3 DEF LoopInv, CallsCover
  <1>4. AllCalled'  BY <1>1, <1>3 DEF AllCalled, Covered
  <1>5. PerUnit' = PerUnit /\ Remainder' = Remainder /\ Heads' = Heads
    BY <1>1 DEF PerUnit, Remainder, Heads, Units, DivCeil
  <1>6. CutsAddUp'  BY <1>1, <1>5 DEF LoopInv, CutsAddUp
  <1>7. LoopType'
    <2>1. looping' \in BOOLEAN  BY <1>1
    <2> QED  BY <2>1, <1>1 DEF LoopInv, LoopType
  <1> QED
    BY <1>1, <1>4, <1>6, <1>7
       DEF LoopInv, HeadsPlaced, HeadsApart, Overlap, HeadsCover, Covered, CallsMade, OneSlice,
           InHead, CallsCover, At

LEMMA InvStutter ==
  ASSUME LoopInv, UNCHANGED loopVars
  PROVE  LoopInv'
  <1>1. UNCHANGED <<looping, len, size, start, from, spawned, heads, calls>>
    BY DEF loopVars
  <1>2. PerUnit' = PerUnit /\ Remainder' = Remainder /\ Heads' = Heads
    BY <1>1 DEF PerUnit, Remainder, Heads, Units, DivCeil
  <1> QED
    BY <1>1, <1>2
       DEF LoopInv, LoopType, HeadsPlaced, HeadsApart, Overlap, HeadsCover, Covered, CutsAddUp,
           CallsMade, OneSlice, InHead, CallsCover, At, AllCalled

LEMMA InvSuffices == LoopInv => EveryRowOnce
  <1> SUFFICES ASSUME LoopInv  PROVE EveryRowOnce
    OBVIOUS
  <1>1. \A c \in calls : OneSlice(c) /\ InHead(c)
    BY DEF LoopInv, CallsMade
  <1>2. ASSUME NEW c \in calls, NEW d \in calls, c.idx = d.idx  PROVE c = d
    <2>1. c \in [idx : Nat, from : Nat, to : Nat, by : Nat]
          /\ d \in [idx : Nat, from : Nat, to : Nat, by : Nat]
      BY DEF LoopInv, LoopType
    <2>2. c.from = d.from /\ c.to = d.to  BY <1>1, <1>2 DEF OneSlice
    <2>3. PICK h \in heads : h.id = c.by /\ h.from <= c.from /\ c.from < h.to
      BY <1>1 DEF InHead
    <2>4. PICK g \in heads : g.id = d.by /\ g.from <= d.from /\ d.from < g.to
      BY <1>1 DEF InHead
    <2>5. Overlap(h, g)
      <3>1. h.from \in Nat /\ h.to \in Nat /\ g.from \in Nat /\ g.to \in Nat
        BY DEF LoopInv, LoopType
      <3>2. c.from \in Nat  BY <2>1
      <3> QED  BY <2>2, <2>3, <2>4, <3>1, <3>2 DEF Overlap
    <2>6. c.by = d.by  BY <2>3, <2>4, <2>5 DEF LoopInv, HeadsApart
    <2> QED  BY <1>2, <2>1, <2>2, <2>6
  <1>3. ~looping => \A at \in 0..(len - 1) : \E c \in calls : c.from <= at /\ at < c.to
    <2>1. len \in Nat  BY DEF LoopInv, LoopType
    <2> QED  BY <2>1 DEF LoopInv, AllCalled, Covered
  <1> QED  BY <1>1, <1>2, <1>3 DEF EveryRowOnce, OneSlice

-----------------------------------------------------------------------------
\* Whatever the number of threads, the length of the buffer and of a chunk, no
\* slice of par_for_each is given to two threads, each is called with its own
\* number, and when the loop returns the body was called for all of them.
THEOREM EveryRowOnceHolds == LoopSpec => []EveryRowOnce
  <1>1. LoopInit => LoopInv  BY InvAtStart
  <1>2. LoopInv /\ [LoopNext]_loopVars => LoopInv'
    BY BuffersAssumption, InvBegin, InvSpawnHead, InvCall, InvReturn, InvStutter DEF LoopNext
  <1>3. LoopInv => EveryRowOnce  BY InvSuffices
  <1> QED  BY <1>1, <1>2, <1>3, PTL DEF LoopSpec

-----------------------------------------------------------------------------
(* No chunk is called twice: what the loops of module YiqFielding rely on,   *)
(* whose filter is not idempotent.                                           *)

\* The heads have their own numbers, and what a head was called with lies before
\* the chunk it has come to.
HeadsKnown ==
    /\ \A h \in heads : h.id < spawned
    /\ \A h, g \in heads : h.id = g.id => h = g
    /\ \A h \in heads, c \in calls : h.from <= c.from /\ c.from < h.to => c.from < At(h)

LEMMA KnownAtStart == LoopInit => HeadsKnown
BY DEF LoopInit, HeadsKnown

LEMMA KnownBegin ==
  ASSUME NEW l, NEW s, Begin(l, s)
  PROVE  HeadsKnown'
  <1>1. calls' = {} /\ (heads' = {} \/ (spawned' = 1 /\ \E h : heads' = {h} /\ h.id = 0))
    <2>1. CASE Threads = 1
      <3> DEFINE h == [id |-> 0, start |-> 0, from |-> 0, to |-> l, done |-> 0]
      <3>1. heads' = {h} /\ h.id = 0 /\ spawned' = 1 /\ calls' = {}  BY <2>1 DEF Begin
      <3> QED  BY <3>1
    <2>2. CASE Threads # 1  BY <2>2 DEF Begin
    <2> QED  BY <2>1, <2>2
  <1> QED  BY <1>1 DEF HeadsKnown

LEMMA KnownSpawn ==
  ASSUME LoopInv, HeadsKnown, SpawnHead
  PROVE  HeadsKnown'
  <1> DEFINE n == ChunksOf(spawned)
             to == from + Least(n * size, len - from)
             new == [id |-> spawned, start |-> start, from |-> from, to |-> to, done |-> 0]
  <1>1. /\ heads' = heads \cup {new} /\ spawned' = spawned + 1
        /\ calls' = calls /\ size' = size
    BY DEF SpawnHead, SplitAt
  <1>2. /\ spawned \in Nat /\ from \in Nat /\ size \in Nat
        /\ heads \subseteq [id : Nat, start : Nat, from : Nat, to : Nat, done : Nat]
        /\ calls \subseteq [idx : Nat, from : Nat, to : Nat, by : Nat]
    BY DEF LoopInv, LoopType
  <1>3. new.id = spawned /\ new.from = from  OBVIOUS
  <1> HIDE DEF new
  <1>4. ASSUME NEW h \in heads'  PROVE h.id < spawned'
    BY <1>1, <1>2, <1>3, <1>4 DEF HeadsKnown
  <1>5. ASSUME NEW h \in heads', NEW g \in heads', h.id = g.id  PROVE h = g
    <2>1. \A e \in heads : e.id < spawned /\ e.id \in Nat  BY <1>2 DEF HeadsKnown
    <2>2. CASE h \in heads /\ g \in heads  BY <2>2, <1>5 DEF HeadsKnown
    <2>3. CASE h = new \/ g = new  BY <2>1, <2>3, <1>1, <1>2, <1>3, <1>5
    <2> QED  BY <2>2, <2>3, <1>1
  <1>6. ASSUME NEW h \in heads', NEW c \in calls, h.from <= c.from, c.from < h.to
        PROVE  c.from < At(h)
    <2>1. CASE h \in heads  BY <2>1, <1>6 DEF HeadsKnown
    <2>2. CASE h = new
      <3>1. PICK g \in heads : g.from <= c.from /\ c.from < g.to
        BY DEF LoopInv, CallsMade, InHead
      <3>2. g.to <= from /\ g.to \in Nat /\ c.from \in Nat
        BY <1>2 DEF LoopInv, HeadsPlaced
      <3> QED  BY <2>2, <3>1, <3>2, <1>2, <1>3, <1>6
    <2> QED  BY <2>1, <2>2, <1>1
  <1>7. ASSUME NEW h \in heads'  PROVE At(h)' = At(h)
    BY <1>1 DEF At
  <1> QED  BY <1>1, <1>4, <1>5, <1>6, <1>7 DEF HeadsKnown, At

\* The chunk a head comes to was not called, nor any that holds some of it.
LEMMA ChunkIsNew ==
  ASSUME LoopInv, HeadsKnown, NEW h \in heads, ~Finished(h),
         NEW at \in Nat, Chunk(h).from <= at, at < Chunk(h).to
  PROVE  ~Covered(at, calls)
  <1> SUFFICES ASSUME NEW c \in calls, c.from <= at, at < c.to  PROVE FALSE
    BY DEF Covered
  <1>1. OneSlice(Chunk(h)) /\ h.from <= Chunk(h).from /\ Chunk(h).from < h.to
    BY ChunkIsOneSlice
  <1>2. OneSlice(c)  BY DEF LoopInv, CallsMade
  <1>3. Chunk(h).from = At(h) /\ Chunk(h).idx = h.start + h.done  BY DEF Chunk
  <1>4. /\ size \in Nat \ {0} /\ len \in Nat /\ h.start + h.done \in Nat
        /\ c.idx \in Nat /\ c.from \in Nat /\ c.to \in Nat
    BY DEF LoopInv, LoopType
  <1> DEFINE i == h.start + h.done
             j == c.idx
  <1>5. At(h) = i * size /\ c.from = j * size  BY <1>1, <1>2, <1>3 DEF OneSlice
  <1>6. i * size \in Nat /\ j * size \in Nat  BY <1>4
  <1>7. at < i * size + size /\ at < j * size + size /\ i * size <= at /\ j * size <= at
    BY <1>1, <1>2, <1>3, <1>4, <1>5, <1>6 DEF OneSlice, Least
  <1>8. i \in Nat /\ j \in Nat  BY <1>4
  <1> HIDE DEF i, j
  <1>9. (i + 1) * size = i * size + size /\ (j + 1) * size = j * size + size
    BY <1>4, <1>8
  <1>10. i * size < (j + 1) * size /\ j * size < (i + 1) * size
    BY <1>4, <1>6, <1>7, <1>9
  <1>11. i + 1 <= j + 1 /\ j + 1 <= i + 1  BY <1>4, <1>8, <1>10, TimesBelow
  <1>12. c.from = At(h)  BY <1>5, <1>8, <1>11
  <1>13. c.from < At(h)  BY <1>1, <1>3, <1>12 DEF HeadsKnown
  <1> QED  BY <1>4, <1>12, <1>13

LEMMA KnownCall ==
  ASSUME LoopInv, HeadsKnown, NEW h \in heads, Call(h)
  PROVE  HeadsKnown'
  <1> DEFINE new == [h EXCEPT !.done = @ + 1]
  <1>1. /\ ~Finished(h) /\ calls' = calls \cup {Chunk(h)} /\ heads' = (heads \ {h}) \cup {new}
        /\ spawned' = spawned /\ size' = size
    BY DEF Call
  <1>2. /\ spawned \in Nat /\ size \in Nat \ {0}
        /\ h \in [id : Nat, start : Nat, from : Nat, to : Nat, done : Nat]
        /\ heads \subseteq [id : Nat, start : Nat, from : Nat, to : Nat, done : Nat]
        /\ calls \subseteq [idx : Nat, from : Nat, to : Nat, by : Nat]
    BY DEF LoopInv, LoopType
  <1>3. new.id = h.id /\ new.from = h.from /\ new.to = h.to /\ new.done = h.done + 1
    BY <1>2
  <1> HIDE DEF new
  <1>4. OneSlice(Chunk(h)) /\ h.from <= Chunk(h).from /\ Chunk(h).from < h.to /\ Chunk(h).from = At(h)
    BY <1>1, ChunkIsOneSlice DEF Chunk
  <1>5. At(h) < At(new) /\ At(h) \in Nat /\ At(new) \in Nat
    <2>1. (h.done + 1) * size = h.done * size + 1 * size  BY <1>2, TimesSum
    <2>2. h.done * size \in Nat /\ h.from \in Nat  BY <1>2
    <2> QED  BY <2>1, <2>2, <1>2, <1>3 DEF At
  <1>6. ASSUME NEW g \in heads'  PROVE g.id < spawned'
    BY <1>1, <1>3, <1>6 DEF HeadsKnown
  <1>7. ASSUME NEW e \in heads', NEW g \in heads', e.id = g.id  PROVE e = g
    BY <1>1, <1>3, <1>7 DEF HeadsKnown
  <1>8. ASSUME NEW g \in heads', NEW c \in calls', g.from <= c.from, c.from < g.to
        PROVE  c.from < At(g)
    <2>1. CASE g = new
      <3>1. CASE c = Chunk(h)  BY <2>1, <3>1, <1>4, <1>5
      <3>2. CASE c \in calls
        <4>1. c.from < At(h) /\ c.from \in Nat  BY <2>1, <3>2, <1>2, <1>3, <1>8 DEF HeadsKnown
        <4> QED  BY <2>1, <4>1, <1>5
      <3> QED  BY <3>1, <3>2, <1>1
    <2>2. CASE g \in heads /\ g # h
      <3>1. CASE c = Chunk(h)
        <4>1. Overlap(g, h)
          <5>1. g.from \in Nat /\ g.to \in Nat /\ h.from \in Nat /\ h.to \in Nat  BY <2>2, <1>2
          <5> QED  BY <3>1, <5>1, <1>4, <1>5, <1>8 DEF Overlap
        <4>2. g.id = h.id  BY <2>2, <4>1 DEF LoopInv, HeadsApart
        <4> QED  BY <2>2, <4>2 DEF HeadsKnown
      <3>2. CASE c \in calls  BY <2>2, <3>2, <1>8 DEF HeadsKnown
      <3> QED  BY <3>1, <3>2, <1>1
    <2> QED  BY <2>1, <2>2, <1>1
  <1>9. ASSUME NEW g \in heads'  PROVE At(g)' = At(g)
    BY <1>1 DEF At
  <1> QED  BY <1>6, <1>7, <1>8, <1>9 DEF HeadsKnown, At

LEMMA KnownStutter ==
  ASSUME HeadsKnown, UNCHANGED <<size, spawned, heads, calls>>
  PROVE  HeadsKnown'
BY DEF HeadsKnown, At

=============================================================================
