------------------------------- MODULE RowLoop ------------------------------
(* Loops over the chunks of a buffer (ntscrs/src/thread_pool.rs). Every pass *)
(* over a picture is such a loop, with a row or a few rows to a chunk.       *)
(* par_for_each cuts the buffer into heads, which are handed to the pool's   *)
(* threads one by one; a thread runs a head's chunks in order, and the loop  *)
(* returns when all heads were run.  A chunk is a slice of the buffer and    *)
(* its number: the slice says what is written, the number what is read, and  *)
(* split_at computes the two apart.                                          *)
EXTENDS Integers

CONSTANT Threads        \* threads of the pool

\* The pool has a thread: rayon starts one for every processor.
ASSUME ThreadsAssumption == Threads \in Nat \ {0}

VARIABLES looping,      \* a loop has begun and has not returned
          len, size,    \* of its buffer and of a chunk; the last chunk may be shorter
          start, from,  \* of what is not in a head yet: its first chunk, and where it begins
          spawned,      \* how many heads the pool got
          heads,        \* those heads, with the number of chunks run
          calls         \* the calls of the loop's body, and the head each one was made for

loopVars == <<looping, len, size, start, from, spawned, heads, calls>>

Least(a, b) == IF a <= b THEN a ELSE b

Units == 4 * Threads
DivCeil(a, b) == (a + b - 1) \div b
PerUnit == DivCeil(len, size) \div Units

\* One more when the last chunk is partial, though that chunk was counted.
Remainder == (DivCeil(len, size) % Units) + (IF len % size = 0 THEN 0 ELSE 1)
Heads == IF PerUnit = 0 THEN Remainder ELSE Units
ChunksOf(i) == PerUnit + (IF i < Remainder THEN 1 ELSE 0)

LoopInit ==
    /\ looping = FALSE /\ len = 0 /\ size = 1 /\ start = 0 /\ from = 0
    /\ spawned = 0 /\ heads = {} /\ calls = {}

\* With one thread the buffer is a single head.
Begin(l, s) ==
    /\ ~looping
    /\ looping' = TRUE /\ len' = l /\ size' = s
    /\ start' = 0 /\ calls' = {}
    /\ IF Threads = 1
       THEN /\ heads' = {[id |-> 0, start |-> 0, from |-> 0, to |-> l, done |-> 0]}
            /\ from' = l /\ spawned' = 1
       ELSE heads' = {} /\ from' = 0 /\ spawned' = 0

AllSpawned == Threads = 1 \/ spawned = Heads \/ ChunksOf(spawned) = 0

\* Mutant of SplitAt: the rest keeps the number of its first chunk.
SplitAtSameStart(chunks) ==
    LET to == from + Least(chunks * size, len - from)
    IN /\ heads' = heads \cup {[id |-> spawned, start |-> start, from |-> from, to |-> to, done |-> 0]}
       /\ start' = start
       /\ from' = to

\* Cuts a head off the front of the rest.
SplitAt(chunks) ==
    LET to == from + Least(chunks * size, len - from)
    IN /\ heads' = heads \cup {[id |-> spawned, start |-> start, from |-> from, to |-> to, done |-> 0]}
       /\ start' = start + chunks
       /\ from' = to

\* The loop's thread makes the next head and gives it to the pool.
SpawnHead ==
    /\ looping /\ ~AllSpawned
    /\ SplitAt(ChunksOf(spawned))
    /\ spawned' = spawned + 1
    /\ UNCHANGED <<looping, len, size, calls>>

At(h) == h.from + h.done * size
Finished(h) == At(h) >= h.to
Chunk(h) == [idx |-> h.start + h.done, from |-> At(h), to |-> Least(At(h) + size, h.to), by |-> h.id]

\* A thread of the pool runs the next chunk of a head.
Call(h) ==
    /\ looping /\ h \in heads /\ ~Finished(h)
    /\ calls' = calls \cup {Chunk(h)}
    /\ heads' = (heads \ {h}) \cup {[h EXCEPT !.done = @ + 1]}
    /\ UNCHANGED <<looping, len, size, start, from, spawned>>

Return ==
    /\ looping /\ AllSpawned
    /\ \A h \in heads : Finished(h)
    /\ looping' = FALSE
    /\ UNCHANGED <<len, size, start, from, spawned, heads, calls>>

-----------------------------------------------------------------------------
CONSTANTS Lengths, Sizes    \* of the buffers and chunks of this specification's loops

\* Buffers may be empty, chunks may not: their size is a picture's width.
ASSUME BuffersAssumption == Lengths \subseteq Nat /\ Sizes \subseteq Nat \ {0}

LoopNext ==
    \/ \E l \in Lengths, s \in Sizes : Begin(l, s)
    \/ SpawnHead
    \/ \E h \in heads : Call(h)
    \/ Return

LoopSpec == LoopInit /\ [][LoopNext]_loopVars

\* The body is called for every chunk of the buffer, for none of them twice,
\* with the slice of its number, and all calls are over when the loop returns:
\* two threads never hold slices that overlap, though split_at makes them from
\* raw pointers, and the counter of the heads counts a partial chunk twice.
EveryRowOnce ==
    /\ \A c \in calls : c.from = c.idx * size /\ c.from < c.to /\ c.to = Least(c.from + size, len)
    /\ \A c, d \in calls : c.idx = d.idx => c = d
    /\ ~looping => \A at \in 0..(len - 1) : \E c \in calls : c.from <= at /\ at < c.to
=============================================================================
