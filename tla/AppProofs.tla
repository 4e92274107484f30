------------------------------ MODULE AppProofs -----------------------------
(* Proofs about the application: its executor, its preview, and what its     *)
(* tasks do: types, the counts and listings of the presets pane, and the     *)
(* jobs that meet the executor.                                              *)
EXTENDS App, FiniteSetTheorems, SequenceTheorems, TLAPS

-----------------------------------------------------------------------------
(* What Kept returns: the items kept, each once.  The n-th of them stands at *)
(* the index at[n], whose rank among the indexes kept is n.                  *)

LEMMA KeptItems ==
  ASSUME NEW S, NEW s \in Seq(S), NEW I \in SUBSET DOMAIN s
  PROVE  /\ Cardinality(I) \in Nat /\ (I = {} <=> Cardinality(I) = 0)
         /\ \E at \in [1 .. Cardinality(I) -> I] :
               /\ Kept(s, I) = [n \in 1 .. Cardinality(I) |-> s[at[n]]]
               /\ \A m, n \in 1 .. Cardinality(I) : at[m] = at[n] => m = n
               /\ \A i \in I : \E n \in 1 .. Cardinality(I) : at[n] = i
  <1> DEFINE Below(i) == {j \in I : j <= i}
             Rank(i) == Cardinality(Below(i))
             rank == [i \in I |-> Rank(i)]
             N == Cardinality(I)
             Where(n) == CHOOSE i \in I : Rank(i) = n
             at == [n \in 1 .. N |-> Where(n)]
  <1>1. Len(s) \in Nat /\ DOMAIN s = 1 .. Len(s)
    BY LenProperties
  <1>2. IsFiniteSet(I) /\ N \in Nat /\ (I = {} <=> N = 0)
    <2>1. IsFiniteSet(1 .. Len(s))  BY <1>1, FS_Interval
    <2>2. IsFiniteSet(I)  BY <1>1, <2>1, FS_Subset
    <2> QED  BY <2>2, FS_CardinalityType, FS_EmptySet
  <1>3. \A i \in I : IsFiniteSet(Below(i)) /\ Rank(i) \in 1 .. N
    <2> TAKE i \in I
    <2>1. Below(i) \in SUBSET I /\ i \in Below(i)  BY <1>1
    <2>2. IsFiniteSet(Below(i)) /\ Rank(i) <= N  BY <1>2, <2>1, FS_Subset
    <2>3. Rank(i) \in Nat /\ Rank(i) # 0  BY <2>1, <2>2, FS_CardinalityType, FS_EmptySet
    <2> HIDE DEF Rank
    <2> QED  BY <1>2, <2>2, <2>3
  <1>4. \A i, j \in I : i < j => Rank(i) # Rank(j)
    <2> SUFFICES ASSUME NEW i \in I, NEW j \in I, i < j, Rank(i) = Rank(j) PROVE FALSE
      OBVIOUS
    <2>1. Below(i) \in SUBSET Below(j)  BY <1>1
    <2>2. Below(j) = Below(i)  BY <1>3, <2>1, FS_Subset
    <2>3. j \in Below(j) /\ j \notin Below(i)  BY <1>1
    <2> QED  BY <2>2, <2>3
  <1>5. \A i, j \in I : Rank(i) = Rank(j) => i = j
    <2> SUFFICES ASSUME NEW i \in I, NEW j \in I, Rank(i) = Rank(j) PROVE i = j
      OBVIOUS
    <2>1. i < j \/ j < i \/ i = j  BY <1>1
    <2> HIDE DEF Rank
    <2> QED  BY <2>1, <1>4
  <1>6. \A n \in 1 .. N : \E i \in I : Rank(i) = n
    <2> HIDE DEF Rank
    <2>1. rank \in Injection(I, 1 .. N)
      BY <1>3, <1>5 DEF Injection, IsInjective
    <2>2. IsFiniteSet(1 .. N) /\ Cardinality(1 .. N) = N
      <3> HIDE DEF N
      <3> QED  BY <1>2, FS_Interval
    <2>3. rank \in Surjection(I, 1 .. N)
      <3> HIDE DEF rank
      <3>1. Cardinality(I) = Cardinality(1 .. N) <=> rank \in Surjection(I, 1 .. N)
        BY <2>1, <2>2, FS_Injection
      <3> QED  BY <2>2, <3>1
    <2> QED  BY <2>3 DEF Surjection
  <1>7. \A n \in 1 .. N : Where(n) \in I /\ Rank(Where(n)) = n
    <2> HIDE DEF Rank, N
    <2> QED  BY <1>6
  <1>8. \A i \in I : Where(Rank(i)) = i
    <2> HIDE DEF Rank, N
    <2>1. \A i \in I : \A j \in I : Rank(j) = Rank(i) => j = i  BY <1>5
    <2> QED  BY <2>1
  <1>9. at \in [1 .. N -> I]  BY <1>7
  <1>10. Kept(s, I) = [n \in 1 .. N |-> s[at[n]]]  BY DEF Kept
  <1>11. \A m, n \in 1 .. N : at[m] = at[n] => m = n
    <2> HIDE DEF Rank, N, Where
    <2> QED  BY <1>7
  <1>12. \A i \in I : \E n \in 1 .. N : at[n] = i
    <2> HIDE DEF Rank, N, Where
    <2> QED  BY <1>3, <1>8
  <1> HIDE DEF at
  <1> QED  BY <1>2, <1>9, <1>10, <1>11, <1>12

-----------------------------------------------------------------------------
Futs(futs) == \E F : futs \in Seq([st : {"ready", "blocked"}, fut : F])

Quietly == /\ UNCHANGED <<tasks, fns, spawned>> /\ (repaint => repaint') /\ repaint' \in BOOLEAN
           /\ ui' = ui \/ (ui = "show" /\ ui' \in {"idle", "panic"})
Marks(i, fut) == /\ tasks[i].st = "blocked" /\ tasks' = [tasks EXCEPT ![i].fut = fut]
                 /\ UNCHANGED <<ui, fns, spawned, repaint>>
Spawns(futs) == /\ SpawnTo(tasks, futs) /\ UNCHANGED fns
                /\ \/ ui' = ui /\ ui # "poll"
                   \/ ui = "show" /\ ui' = "idle"

ExecStep ==
    \/ Quietly
    \/ \E i \in DOMAIN tasks : \E st \in {"blocked", "done"} : \E fut : Polls(i, st, fut)
    \/ \E i \in DOMAIN tasks : \E fut : Wakes(i, fut) \/ Marks(i, fut)
    \/ \E futs : Futs(futs) /\ (Spawns(futs) \/ RunsFn(futs))
    \/ Collect \/ BeginFrame \/ UserEvent

LEMMA PollsExec ==
  ASSUME PollTask, repaint \in BOOLEAN PROVE ExecStep
  <1>1. PICK i \in DOMAIN tasks : TaskOf(i)  BY DEF PollTask
  <1>2. \E st \in {"blocked", "done"} : \E fut : Polls(i, st, fut)
    BY <1>1 DEF TaskOf, PollReloadStart, PollReloadCreated, PollReloadFailed, PollReloadRead,
       PollWrite, PollInstall, PollOpEnd, PollLoad, PollMedia, PollRender, PollSave, PollJob
  <1> QED  BY <1>2 DEF ExecStep
LEMMA FutsEmpty == Futs(<<>>)
  <1>1. <<>> \in Seq([st : {"ready", "blocked"}, fut : {}])  OBVIOUS
  <1> QED  BY <1>1 DEF Futs

LEMMA FutsOne ==
  ASSUME NEW fut
  PROVE  Futs(<<Ready(fut)>>) /\ Futs(<<Blocked(fut)>>)
  <1>1. /\ <<[st |-> "ready", fut |-> fut]>> \in Seq([st : {"ready", "blocked"}, fut : {fut}])
        /\ <<[st |-> "blocked", fut |-> fut]>> \in Seq([st : {"ready", "blocked"}, fut : {fut}])
    OBVIOUS
  <1> QED  BY <1>1 DEF Futs, Ready, Blocked

LEMMA FutsConcat ==
  ASSUME NEW s, NEW t, Futs(s), Futs(t)
  PROVE  Futs(s \o t)
  <1>1. PICK F : s \in Seq([st : {"ready", "blocked"}, fut : F])  BY DEF Futs
  <1>2. PICK G : t \in Seq([st : {"ready", "blocked"}, fut : G])  BY DEF Futs
  <1> DEFINE T == [st : {"ready", "blocked"}, fut : F \cup G]
  <1>3. s \in Seq(T)  BY <1>1, SeqMonotonic, [st : {"ready", "blocked"}, fut : F] \subseteq T
  <1>4. t \in Seq(T)  BY <1>2, SeqMonotonic, [st : {"ready", "blocked"}, fut : G] \subseteq T
  <1>5. s \o t \in Seq(T)  BY <1>3, <1>4
  <1> QED  BY <1>5 DEF Futs

LEMMA FutsAppend ==
  ASSUME NEW s, NEW t, Futs(s), Futs(<<t>>)
  PROVE  Futs(Append(s, t))
  <1>1. PICK F : s \in Seq([st : {"ready", "blocked"}, fut : F])  BY DEF Futs
  <1>2. PICK G : <<t>> \in Seq([st : {"ready", "blocked"}, fut : G])  BY DEF Futs
  <1> DEFINE T == [st : {"ready", "blocked"}, fut : F \cup G]
  <1>3. s \in Seq(T)  BY <1>1, SeqMonotonic, [st : {"ready", "blocked"}, fut : F] \subseteq T
  <1>4. t \in [st : {"ready", "blocked"}, fut : G]  BY <1>2, ElementOfSeq, Len(<<t>>) = 1, <<t>>[1] = t
  <1>5. t \in T  BY <1>4
  <1>6. Append(s, t) \in Seq(T)  BY <1>3, <1>5
  <1> QED  BY <1>6 DEF Futs

LEMMA RunExec ==
  ASSUME RunFn PROVE \E futs : Futs(futs) /\ RunsFn(futs)
  <1>1. \E fut : RunsFn(<<>>) \/ RunsFn(<<Ready(fut)>>)
    BY DEF RunFn, RunFail, RunKids, RunOpEnd, RunLoaded, RunMedia, RunRender, Reload
  <1> QED  BY <1>1, FutsEmpty, FutsOne

LEMMA AutoReloadFuts ==
  ASSUME NEW open PROVE Futs(AutoReload(open))
  <1>1. \A d : Futs(<<Reload(d, FALSE)>>)  BY FutsOne DEF Reload
  <1> QED  BY <1>1, FutsEmpty, FutsConcat DEF AutoReload

LEMMA PaneExec ==
  ASSUME NEW open, NEW v, PaneAction(open, v)
  PROVE  \E futs : Futs(futs) /\ SpawnTo(tasks, futs)
  <1>1. \A s : Futs(s) => \A fut : Futs(Append(s, Ready(fut))) /\ Futs(Append(s, Blocked(fut)))
    BY FutsAppend, FutsOne
  <1>2. \A s : Futs(s) => \A op, d, a, b, w : Futs(Append(s, OpTask(op, d, a, b, w)))
    BY <1>1 DEF OpTask
  <1>3. \E t : SpawnTo(tasks, Append(AutoReload(open), t)) /\ Futs(Append(AutoReload(open), t))
    BY <1>1, <1>2, AutoReloadFuts
    DEF PaneAction, ReloadClick, LoadClick, EntryClick, CreateClick, OverwriteClick, InstallDrop,
        StartOp, Reload
  <1> QED  BY <1>3

LEMMA ShowExec ==
  ASSUME Show, repaint \in BOOLEAN
  PROVE  Quietly \/ \E futs : Futs(futs) /\ Spawns(futs)
  <1>1. ui = "show"  BY DEF Show
  <1>2. CASE ShowNothing
    BY <1>1, <1>2, AutoReloadFuts DEF ShowNothing, Idle, NoTask, PaneShown, Quietly, Spawns
  <1>3. CASE UsePresets
    BY <1>1, <1>3, PaneExec DEF UsePresets, Idle, Spawns
  <1>4. CASE UseMedia
    BY <1>1, <1>4, FutsOne DEF UseMedia, Idle, NoTask, SpawnsOne, DialogTask, MediaTask, RescaleVideo,
       Quietly, Spawns
  <1>5. CASE UseEffects \/ UseAudio
    BY <1>1, <1>5 DEF UseEffects, UseAudio, Idle, NoTask, Quietly
  <1>6. CASE UseRender
    BY <1>1, <1>6, FutsOne DEF UseRender, Idle, NoTask, SpawnsOne, SaveTask, RenderTask, Quietly, Spawns
  <1> QED  BY <1>2, <1>3, <1>4, <1>5, <1>6 DEF Show

LEMMA ThreadExec ==
  ASSUME PoolThread \/ Answer PROVE ExecStep
  <1>1. CASE PoolThread
    <2>1. PICK i \in DOMAIN tasks : ThreadOf(i)  BY <1>1 DEF PoolThread
    <2>2. CASE ThreadRename(i)
      <3> DEFINE fut == [tasks[i].fut EXCEPT !.pc = "checked"]
      <3>1. [tasks EXCEPT ![i].fut.pc = "checked"] = [tasks EXCEPT ![i].fut = fut]
        OBVIOUS
      <3>2. CASE Marks(i, fut)  BY <3>2 DEF ExecStep
      <3>3. CASE \E fut2 : Wakes(i, fut2)  BY <3>3 DEF ExecStep
      <3>4. Marks(i, fut) \/ Wakes(i, [tasks[i].fut EXCEPT !.pc = "failed"])
            \/ Wakes(i, [tasks[i].fut EXCEPT !.pc = "ok"])
        <4> HIDE DEF fut
        <4> QED  BY <2>2, <3>1 DEF ThreadRename, Marks
      <3> QED  BY <3>2, <3>3, <3>4
    <2>3. CASE ThreadReload(i) \/ ThreadOp(i) \/ ThreadLoad(i) \/ ThreadRender(i)
      BY <2>3 DEF ThreadReload, ThreadOp, ThreadLoad, ThreadRender, ExecStep
    <2> QED  BY <2>1, <2>2, <2>3 DEF ThreadOf
  <1>2. CASE Answer
    BY <1>2 DEF Answer, AnswerPick, AnswerSave, ExecStep
  <1> QED  BY <1>1, <1>2

LEMMA StepExec ==
  ASSUME [Next]_vars, repaint \in BOOLEAN PROVE ExecStep
  <1>1. CASE Tick
    BY <1>1 DEF Tick, ExecStep
  <1>2. CASE PollTask  BY <1>2, PollsExec
  <1>3. CASE RunFn  BY <1>3, RunExec DEF ExecStep
  <1>4. CASE Show  BY <1>4, ShowExec DEF ExecStep
  <1>5. CASE Sink
    BY <1>5 DEF Sink, UiCall, Quietly, ExecStep
  <1>6. CASE PoolThread \/ Answer  BY <1>6, ThreadExec
  <1>7. CASE Stream
    BY <1>7 DEF Stream, StreamEvent, Frame, PadAdded, StateChanged, AsyncDone, ErrorMessage, Eos,
       Quietly, ExecStep
  <1>8. CASE Jobs
    <2>1. PICK n : JobEvent(n) \/ JobSpawns(n)  BY <1>8 DEF Jobs
    <2>2. CASE JobEvent(n)  BY <2>2 DEF JobEvent, execVars, Quietly, ExecStep
    <2>3. CASE JobSpawns(n)
      BY <2>3, FutsOne DEF JobSpawns, SpawnFromThread, ExecutorLocked, Spawns, ExecStep
    <2> QED  BY <2>1, <2>2, <2>3
  <1>9. CASE UNCHANGED vars
    BY <1>9 DEF vars, execVars, Quietly, ExecStep
  <1> QED  BY <1>1, <1>2, <1>3, <1>4, <1>5, <1>6, <1>7, <1>8, <1>9 DEF Next, UiStep

LEMMA KeptSeq ==
  ASSUME NEW S, NEW s \in Seq(S), NEW I \in SUBSET DOMAIN s
  PROVE  /\ Kept(s, I) \in Seq(S)
         /\ Kept(s, I) = <<>> <=> I = {}
         /\ \A n \in DOMAIN Kept(s, I) : \E i \in I : Kept(s, I)[n] = s[i]
         /\ \A i \in I : \E n \in DOMAIN Kept(s, I) : Kept(s, I)[n] = s[i]
         /\ \A m, n \in DOMAIN Kept(s, I) : m # n =>
               \E i, j \in I : i # j /\ Kept(s, I)[m] = s[i] /\ Kept(s, I)[n] = s[j]
  <1> DEFINE N == Cardinality(I)
             k == Kept(s, I)
  <1>1. N \in Nat /\ (I = {} <=> N = 0)  BY KeptItems
  <1>2. PICK at \in [1 .. N -> I] : /\ k = [n \in 1 .. N |-> s[at[n]]]
                                    /\ \A m, n \in 1 .. N : at[m] = at[n] => m = n
                                    /\ \A i \in I : \E n \in 1 .. N : at[n] = i
    BY KeptItems
  <1>3. \A i \in I : s[i] \in S  BY ElementOfSeq, LenProperties
  <1> HIDE DEF N, k
  <1>4. DOMAIN k = 1 .. N /\ \A n \in 1 .. N : k[n] = s[at[n]] /\ at[n] \in I
    BY <1>2
  <1>5. k \in [1 .. N -> S]
    BY <1>2, <1>3, <1>4
  <1>6. k \in Seq(S) /\ Len(k) = N
    BY <1>1, <1>5
  <1>7. k = <<>> <=> I = {}
    BY <1>1, <1>6
  <1>8. \A n \in DOMAIN k : \E i \in I : k[n] = s[i]  BY <1>4
  <1>9. \A i \in I : \E n \in DOMAIN k : k[n] = s[i]  BY <1>2, <1>4
  <1>10. \A m, n \in DOMAIN k : m # n => \E i, j \in I : i # j /\ k[m] = s[i] /\ k[n] = s[j]
    BY <1>2, <1>4
  <1> QED  BY <1>6, <1>7, <1>8, <1>9, <1>10 DEF k

-----------------------------------------------------------------------------
(* The invariant of the executor. *)

Items(F, n) == [id : 1 .. n, st : {"ready", "blocked", "done"}, fut : F]

TaskTypes ==
    /\ ui \in Phases \cup {"panic"} /\ repaint \in BOOLEAN /\ spawned \in 0 .. MaxTasks
    /\ \E F : tasks \in Seq(Items(F, spawned)) /\ fns \in Seq(Items(F, spawned))
    /\ fns # <<>> <=> ui = "run"

OnceEach ==
    /\ \A i, j \in DOMAIN tasks : tasks[i].id = tasks[j].id => i = j
    /\ \A i, j \in DOMAIN fns : fns[i].id = fns[j].id => i = j
    /\ \A i \in DOMAIN tasks : \A j \in DOMAIN fns : tasks[i].id # fns[j].id

Roused == \E i \in DOMAIN tasks : tasks[i].st # "blocked"
WakesFrame == ui \in {"idle", "show"} /\ Roused => repaint

ExecInv == TaskTypes /\ OnceEach /\ WakesFrame

LEMMA InitExec == Init => ExecInv
  <1> SUFFICES ASSUME Init PROVE ExecInv  OBVIOUS
  <1>1. ui = "idle" /\ tasks = <<>> /\ fns = <<>> /\ spawned = 0 /\ repaint = TRUE
    BY DEF Init, ExecInit
  <1>2. <<>> \in Seq(Items({}, 0)) /\ DOMAIN (<<>>) = {}  OBVIOUS
  <1> QED  BY <1>1, <1>2, TasksAssumption DEF ExecInv, TaskTypes, OnceEach, WakesFrame, Roused, Phases

LEMMA FunctionIsSeq ==
  ASSUME NEW S, NEW n \in Nat, NEW f \in [1 .. n -> S]
  PROVE  f \in Seq(S) /\ Len(f) = n
OBVIOUS

LEMMA Elements ==
  ASSUME NEW S, NEW s \in Seq(S)
  PROVE  Len(s) \in Nat /\ DOMAIN s = 1 .. Len(s) /\ \A i \in DOMAIN s : s[i] \in S
BY LenProperties, ElementOfSeq

LEMMA ItemsOf ==
  ASSUME NEW F, NEW n, NEW s \in Seq(Items(F, n))
  PROVE  /\ Len(s) \in Nat /\ DOMAIN s = 1 .. Len(s)
         /\ \A i \in DOMAIN s : s[i].id \in 1 .. n /\ s[i].st \in {"ready", "blocked", "done"}
  <1> DEFINE T == Items(F, n)
  <1>1. Len(s) \in Nat /\ DOMAIN s = 1 .. Len(s) /\ \A i \in DOMAIN s : s[i] \in T
    <2>1. s \in Seq(T)  OBVIOUS
    <2> HIDE DEF T
    <2> QED  BY <2>1, Elements
  <1> QED  BY <1>1 DEF Items

\* What a task becomes when it is polled or answered.
Changed(i, st, fut) == [tasks EXCEPT ![i].st = st, ![i].fut = fut]

LEMMA TaskChanges ==
  ASSUME NEW G, NEW n, tasks \in Seq(Items(G, n)), NEW i \in DOMAIN tasks, NEW fut \in G,
         NEW st \in {"ready", "blocked", "done"}
  PROVE  /\ Changed(i, st, fut) \in Seq(Items(G, n))
         /\ DOMAIN Changed(i, st, fut) = DOMAIN tasks
         /\ \A j \in DOMAIN tasks :
               /\ Changed(i, st, fut)[j].id = tasks[j].id
               /\ j # i => Changed(i, st, fut)[j] = tasks[j]
         /\ Changed(i, st, fut)[i].st = st /\ Changed(i, st, fut)[i].fut = fut
  <1> DEFINE t == Changed(i, st, fut)
             e == [[tasks[i] EXCEPT !.st = st] EXCEPT !.fut = fut]
  <1>1. tasks \in Seq(Items(G, n))
    OBVIOUS
  <1>2. DOMAIN tasks = 1 .. Len(tasks) /\ \A j \in DOMAIN tasks : tasks[j] \in Items(G, n)
    BY <1>1, LenProperties, ElementOfSeq
  <1>3. e \in Items(G, n) /\ e.id = tasks[i].id /\ e.st = st /\ e.fut = fut
    BY <1>2 DEF Items
  <1>4. t = [tasks EXCEPT ![i] = e]
    BY <1>2 DEF Changed
  <1> DEFINE T == Items(G, n)
  <1>5. t \in Seq(T) /\ Len(t) = Len(tasks)
        /\ \A j \in 1 .. Len(tasks) : t[j] = IF j = i THEN e ELSE tasks[j]
    <2>1. tasks \in Seq(T) /\ e \in T  BY <1>1, <1>3
    <2> HIDE DEF T, e, t
    <2>2. Len(tasks) \in Nat /\ tasks \in [1 .. Len(tasks) -> T] /\ i \in 1 .. Len(tasks)
      BY <2>1, <1>2, LenProperties
    <2>3. t \in [1 .. Len(tasks) -> T]
      BY <2>1, <2>2, <1>4
    <2>4. t \in Seq(T) /\ Len(t) = Len(tasks)
      BY <2>2, <2>3, FunctionIsSeq
    <2> QED  BY <2>2, <2>4, <1>4
  <1> HIDE DEF e, t
  <1>6. DOMAIN t = DOMAIN tasks
    BY <1>5, <1>2, LenProperties
  <1> QED  BY <1>2, <1>3, <1>5, <1>6 DEF T, t

LEMMA MarkedTask ==
  ASSUME NEW F, NEW n, tasks \in Seq(Items(F, n)), NEW i \in DOMAIN tasks, NEW fut
  PROVE  [tasks EXCEPT ![i].fut = fut] = Changed(i, tasks[i].st, fut)
  <1> DEFINE T == Items(F, n)
  <1>1. tasks[i] \in T
    <2>1. tasks \in Seq(T)  OBVIOUS
    <2> HIDE DEF T
    <2> QED  BY <2>1, Elements
  <1>2. [tasks[i] EXCEPT !.fut = fut] = [[tasks[i] EXCEPT !.st = tasks[i].st] EXCEPT !.fut = fut]
    BY <1>1 DEF Items
  <1> QED  BY <1>2 DEF Changed

\* What the tasks become when futures are spawned.
LEMMA TasksGrow ==
  ASSUME NEW F, spawned \in Nat, tasks \in Seq(Items(F, spawned)), NEW futs, Futs(futs)
  PROVE  /\ Len(futs) \in Nat /\ (futs = <<>> <=> Len(futs) = 0)
         /\ \E G : Spawned(tasks, futs) \in Seq(Items(F \cup G, spawned + Len(futs)))
         /\ DOMAIN Spawned(tasks, futs) = 1 .. (Len(tasks) + Len(futs))
         /\ DOMAIN tasks = 1 .. Len(tasks) /\ DOMAIN futs = 1 .. Len(futs)
         /\ \A j \in 1 .. Len(tasks) : Spawned(tasks, futs)[j] = tasks[j]
         /\ \A j \in 1 .. Len(futs) :
               /\ Spawned(tasks, futs)[Len(tasks) + j].id = spawned + j
               /\ Spawned(tasks, futs)[Len(tasks) + j].st = futs[j].st
               /\ Spawned(tasks, futs)[Len(tasks) + j].fut = futs[j].fut
               /\ futs[j].st \in {"ready", "blocked"}
  <1>1. PICK G : futs \in Seq([st : {"ready", "blocked"}, fut : G])  BY DEF Futs
  <1> DEFINE T == Items(F \cup G, spawned + Len(futs))
             new == [i \in DOMAIN futs |-> [id |-> spawned + i, st |-> futs[i].st, fut |-> futs[i].fut]]
  <1>2. Len(futs) \in Nat /\ DOMAIN futs = 1 .. Len(futs) /\ (futs = <<>> <=> Len(futs) = 0)
        /\ \A i \in DOMAIN futs : futs[i] \in [st : {"ready", "blocked"}, fut : G]
    BY <1>1, LenProperties, ElementOfSeq, EmptySeq
  <1>3. Items(F, spawned) \subseteq T
    BY <1>2 DEF Items
  <1>4. tasks \in Seq(T)
    BY <1>3, SeqMonotonic
  <1>5. \A i \in DOMAIN futs : new[i] \in T
    BY <1>2 DEF Items
  <1>6. new \in Seq(T) /\ Len(new) = Len(futs)
    <2>1. new \in [1 .. Len(futs) -> T]
      BY <1>2, <1>5
    <2> HIDE DEF T, new
    <2> QED  BY <1>2, <2>1
  <1>7. \A i \in 1 .. Len(futs) : new[i].id = spawned + i /\ new[i].st = futs[i].st /\ new[i].fut = futs[i].fut
    BY <1>2
  <1>8. Spawned(tasks, futs) = tasks \o new
    BY DEF Spawned
  <1> HIDE DEF T, new
  <1>9. Len(tasks) \in Nat /\ DOMAIN tasks = 1 .. Len(tasks)
    BY LenProperties
  <1>10. /\ tasks \o new \in Seq(T) /\ Len(tasks \o new) = Len(tasks) + Len(futs)
         /\ \A j \in 1 .. Len(tasks) + Len(futs) : (tasks \o new)[j] = IF j <= Len(tasks) THEN tasks[j] ELSE new[j - Len(tasks)]
    <2>1. Len(tasks \o new) = Len(tasks) + Len(new) /\ tasks \o new \in Seq(T)
          /\ \A j \in 1 .. Len(tasks) + Len(new) : (tasks \o new)[j] = IF j <= Len(tasks) THEN tasks[j] ELSE new[j - Len(tasks)]
      BY <1>4, <1>6, ConcatProperties
    <2> QED  BY <1>6, <2>1
  <1>11. DOMAIN (tasks \o new) = 1 .. (Len(tasks) + Len(futs))
    BY <1>10, LenProperties
  <1>12. \A j \in 1 .. Len(tasks) : (tasks \o new)[j] = tasks[j]
    BY <1>2, <1>9, <1>10
  <1>13. \A j \in 1 .. Len(futs) : (tasks \o new)[Len(tasks) + j] = new[j]
    <2> TAKE j \in 1 .. Len(futs)
    <2>1. Len(tasks) + j \in 1 .. Len(tasks) + Len(futs) /\ ~(Len(tasks) + j <= Len(tasks))
          /\ (Len(tasks) + j) - Len(tasks) = j
      BY <1>2, <1>9
    <2> QED  BY <1>10, <2>1
  <1>14. \A j \in 1 .. Len(futs) :
            /\ (tasks \o new)[Len(tasks) + j].id = spawned + j
            /\ (tasks \o new)[Len(tasks) + j].st = futs[j].st
            /\ (tasks \o new)[Len(tasks) + j].fut = futs[j].fut
            /\ futs[j].st \in {"ready", "blocked"}
    BY <1>2, <1>7, <1>13
  <1>15. Spawned(tasks, futs) \in Seq(Items(F \cup G, spawned + Len(futs)))
    BY <1>8, <1>10 DEF T
  <1> QED  BY <1>2, <1>8, <1>9, <1>11, <1>12, <1>14, <1>15

LEMMA Grown ==
  ASSUME ExecInv, NEW futs, Futs(futs), SpawnTo(tasks, futs)
  PROVE  /\ spawned \in Nat /\ spawned' \in spawned .. MaxTasks
         /\ repaint' = (repaint \/ futs # <<>>)
         /\ \E G : tasks' \in Seq(Items(G, spawned')) /\ fns \in Seq(Items(G, spawned'))
         /\ DOMAIN tasks \subseteq DOMAIN tasks'
         /\ \A j \in DOMAIN tasks : tasks'[j] = tasks[j] /\ tasks[j].id \in 1 .. spawned
         /\ \A j \in DOMAIN fns : fns[j].id \in 1 .. spawned
         /\ \A j \in DOMAIN tasks' \ DOMAIN tasks : tasks'[j].id \in (spawned + 1) .. spawned'
         /\ \A i, j \in DOMAIN tasks' : tasks'[i].id = tasks'[j].id => i = j
         /\ \A b \in (spawned + 1) .. spawned' :
               \E j \in DOMAIN tasks' \ DOMAIN tasks : tasks'[j].id = b
         /\ futs = <<>> => DOMAIN tasks' = DOMAIN tasks
         /\ futs = <<>> <=> spawned' = spawned
  <1>1. PICK F : tasks \in Seq(Items(F, spawned)) /\ fns \in Seq(Items(F, spawned))
    BY DEF ExecInv, TaskTypes
  <1>2. spawned \in Nat /\ spawned' = spawned + Len(futs) /\ spawned' <= MaxTasks
        /\ tasks' = Spawned(tasks, futs) /\ repaint' = (repaint \/ futs # <<>>)
    BY TasksAssumption DEF ExecInv, TaskTypes, SpawnTo
  <1> DEFINE N == Len(tasks)
             M == Len(futs)
  <1>3. PICK H : tasks' \in Seq(Items(F \cup H, spawned'))
    BY <1>1, <1>2, TasksGrow
  <1>4. /\ M \in Nat /\ N \in Nat /\ (futs = <<>> <=> M = 0)
        /\ DOMAIN tasks' = 1 .. (N + M) /\ DOMAIN tasks = 1 .. N
        /\ \A j \in 1 .. N : tasks'[j] = tasks[j]
        /\ \A j \in 1 .. M : tasks'[N + j].id = spawned + j
    BY <1>1, <1>2, TasksGrow, LenProperties
  <1> HIDE DEF N, M
  <1>5. spawned' = spawned + M  BY <1>2 DEF M
  <1>6. fns \in Seq(Items(F \cup H, spawned'))
    <2>1. Items(F, spawned) \subseteq Items(F \cup H, spawned')
      BY <1>2, <1>4, <1>5 DEF Items
    <2> QED  BY <1>1, <2>1, SeqMonotonic
  <1>7. /\ \A i \in DOMAIN tasks : tasks[i].id \in 1 .. spawned
        /\ \A i \in DOMAIN fns : fns[i].id \in 1 .. spawned
    BY <1>1, ItemsOf
  <1>8. \A j \in DOMAIN tasks' \ DOMAIN tasks : \E k \in 1 .. M : j = N + k /\ tasks'[j].id = spawned + k
    <2> TAKE j \in DOMAIN tasks' \ DOMAIN tasks
    <2>1. j - N \in 1 .. M /\ j = N + (j - N)  BY <1>4
    <2> QED  BY <1>4, <2>1
  <1>9. \A b \in (spawned + 1) .. spawned' : \E j \in DOMAIN tasks' \ DOMAIN tasks : tasks'[j].id = b
    <2> TAKE b \in (spawned + 1) .. spawned'
    <2>1. b - spawned \in 1 .. M /\ spawned + (b - spawned) = b  BY <1>2, <1>4, <1>5
    <2>2. N + (b - spawned) \in DOMAIN tasks' \ DOMAIN tasks  BY <1>4, <2>1
    <2>3. tasks'[N + (b - spawned)].id = b  BY <1>4, <2>1
    <2> QED  BY <2>2, <2>3
  <1>10. \A j \in DOMAIN tasks' \ DOMAIN tasks : tasks'[j].id \in (spawned + 1) .. spawned'
    BY <1>2, <1>4, <1>5, <1>8
  <1>11. \A i, j \in DOMAIN tasks' : tasks'[i].id = tasks'[j].id => i = j
    <2> SUFFICES ASSUME NEW i \in DOMAIN tasks', NEW j \in DOMAIN tasks', tasks'[i].id = tasks'[j].id
                 PROVE  i = j
      OBVIOUS
    <2>1. CASE i \in DOMAIN tasks /\ j \in DOMAIN tasks
      BY <1>4, <2>1 DEF ExecInv, OnceEach
    <2>2. CASE i \in DOMAIN tasks /\ j \notin DOMAIN tasks
      BY <1>2, <1>4, <1>7, <1>10, <2>2
    <2>3. CASE i \notin DOMAIN tasks /\ j \in DOMAIN tasks
      BY <1>2, <1>4, <1>7, <1>10, <2>3
    <2>4. CASE i \notin DOMAIN tasks /\ j \notin DOMAIN tasks
      <3>1. PICK k \in 1 .. M : i = N + k /\ tasks'[i].id = spawned + k  BY <1>8, <2>4
      <3>2. PICK m \in 1 .. M : j = N + m /\ tasks'[j].id = spawned + m  BY <1>8, <2>4
      <3> QED  BY <1>2, <1>4, <3>1, <3>2
    <2> QED  BY <2>1, <2>2, <2>3, <2>4
  <1>12. spawned' \in spawned .. MaxTasks /\ (futs = <<>> <=> spawned' = spawned)
    BY <1>2, <1>4, <1>5, TasksAssumption
  <1>13. DOMAIN tasks \subseteq DOMAIN tasks' /\ (futs = <<>> => DOMAIN tasks' = DOMAIN tasks)
    BY <1>4
  <1> QED  BY <1>2, <1>3, <1>4, <1>6, <1>7, <1>9, <1>10, <1>11, <1>12, <1>13

LEMMA ApartFromFns ==
  ASSUME ExecInv, NEW futs, Futs(futs), SpawnTo(tasks, futs)
  PROVE  \A i \in DOMAIN tasks' : \A j \in DOMAIN fns : tasks'[i].id # fns[j].id
  <1> SUFFICES ASSUME NEW i \in DOMAIN tasks', NEW j \in DOMAIN fns PROVE tasks'[i].id # fns[j].id
    OBVIOUS
  <1>1. CASE i \in DOMAIN tasks
    <2>1. tasks'[i] = tasks[i]  BY <1>1, Grown
    <2> QED  BY <1>1, <2>1 DEF ExecInv, OnceEach
  <1>2. CASE i \notin DOMAIN tasks
    <2>1. spawned \in Nat /\ tasks'[i].id \in (spawned + 1) .. spawned'  BY <1>2, Grown
    <2>2. fns[j].id \in 1 .. spawned  BY Grown
    <2> QED  BY <2>1, <2>2
  <1> QED  BY <1>1, <1>2

\* The first of a sequence is taken off.
LEMMA TailOf ==
  ASSUME NEW S, NEW s \in Seq(S), s # <<>>
  PROVE  /\ Len(s) \in Nat \ {0} /\ DOMAIN s = 1 .. Len(s)
         /\ Tail(s) \in Seq(S) /\ DOMAIN Tail(s) = 1 .. (Len(s) - 1)
         /\ \A i \in DOMAIN Tail(s) : Tail(s)[i] = s[i + 1]
         /\ Tail(s) = <<>> <=> Len(s) = 1
  <1>1. Len(s) \in Nat \ {0} /\ DOMAIN s = 1 .. Len(s)  BY EmptySeq, LenProperties
  <1>2. Tail(s) \in Seq(S) /\ Len(Tail(s)) = Len(s) - 1 /\ \A i \in 1 .. Len(Tail(s)) : Tail(s)[i] = s[i + 1]
    BY HeadTailProperties
  <1>3. DOMAIN Tail(s) = 1 .. (Len(s) - 1)  BY <1>2, LenProperties
  <1>4. Tail(s) = <<>> <=> Len(s) = 1  BY <1>1, <1>2, EmptySeq
  <1> QED  BY <1>1, <1>2, <1>3, <1>4

LEMMA SpawnExec ==
  ASSUME ExecInv, NEW futs, Futs(futs), Spawns(futs)
  PROVE  ExecInv'
  <1>1. SpawnTo(tasks, futs) /\ fns' = fns /\ ui' \in Phases \cup {"panic"} /\ (ui' = "run" <=> ui = "run")
        /\ (ui' \in {"idle", "show"} => ui \in {"idle", "show"})
    BY DEF ExecInv, TaskTypes, Spawns, Phases
  <1>2. TaskTypes'
    <2>1. spawned' \in 0 .. MaxTasks /\ repaint' \in BOOLEAN
      <3>1. spawned \in Nat /\ spawned' \in spawned .. MaxTasks  BY <1>1, Grown
      <3>2. repaint' = (repaint \/ futs # <<>>)  BY <1>1, Grown
      <3> QED  BY <3>1, <3>2, TasksAssumption
    <2>2. PICK G : tasks' \in Seq(Items(G, spawned')) /\ fns \in Seq(Items(G, spawned'))  BY <1>1, Grown
    <2> QED  BY <1>1, <2>1, <2>2 DEF ExecInv, TaskTypes
  <1>3. OnceEach'
    <2>1. \A i, j \in DOMAIN tasks' : tasks'[i].id = tasks'[j].id => i = j  BY <1>1, Grown
    <2>2. \A i \in DOMAIN tasks' : \A j \in DOMAIN fns : tasks'[i].id # fns[j].id
      BY <1>1, ApartFromFns
    <2> QED  BY <1>1, <2>1, <2>2 DEF ExecInv, OnceEach
  <1>4. WakesFrame'
    <2>1. CASE futs = <<>>
      <3>1. Roused' => Roused
        BY <1>1, <2>1, Grown DEF Roused
      <3> QED  BY <1>1, <2>1, <3>1, Grown DEF ExecInv, WakesFrame
    <2>2. CASE futs # <<>>  BY <1>1, <2>2, Grown DEF WakesFrame
    <2> QED  BY <2>1, <2>2
  <1> QED  BY <1>2, <1>3, <1>4 DEF ExecInv

LEMMA RunsExec ==
  ASSUME ExecInv, NEW futs, Futs(futs), RunsFn(futs)
  PROVE  ExecInv'
  <1>1. /\ SpawnTo(tasks, futs) /\ fns' = Tail(fns) /\ ui = "run"
        /\ ui' = IF Len(fns) = 1 THEN "poll" ELSE "run"
    BY DEF RunsFn
  <1>2. PICK G : tasks' \in Seq(Items(G, spawned')) /\ fns \in Seq(Items(G, spawned'))
    BY <1>1, Grown
  <1>3. /\ fns # <<>> /\ Len(fns) \in Nat \ {0} /\ DOMAIN fns = 1 .. Len(fns)
        /\ fns' \in Seq(Items(G, spawned')) /\ DOMAIN fns' = 1 .. (Len(fns) - 1)
        /\ \A i \in DOMAIN fns' : fns'[i] = fns[i + 1]
        /\ (fns' = <<>> <=> Len(fns) = 1)
    BY <1>1, <1>2, TailOf DEF ExecInv, TaskTypes
  <1>4. TaskTypes'
    <2>1. spawned' \in 0 .. MaxTasks /\ repaint' \in BOOLEAN
      <3>1. spawned \in Nat /\ spawned' \in spawned .. MaxTasks  BY <1>1, Grown
      <3>2. repaint' = (repaint \/ futs # <<>>)  BY <1>1, Grown
      <3> QED  BY <3>1, <3>2, TasksAssumption
    <2>2. ui' \in Phases \cup {"panic"} /\ (fns' # <<>> <=> ui' = "run")  BY <1>1, <1>3 DEF Phases
    <2> QED  BY <1>2, <1>3, <2>1, <2>2 DEF TaskTypes
  <1>5. OnceEach'
    <2>1. \A i, j \in DOMAIN tasks' : tasks'[i].id = tasks'[j].id => i = j  BY <1>1, Grown
    <2>2. \A i \in DOMAIN fns' : i + 1 \in DOMAIN fns  BY <1>3
    <2>3. \A i \in DOMAIN tasks' : \A j \in DOMAIN fns' : tasks'[i].id # fns'[j].id
      BY <1>1, <1>3, <2>2, ApartFromFns
    <2>4. \A i, j \in DOMAIN fns' : fns'[i].id = fns'[j].id => i = j
      BY <1>3, <2>2 DEF ExecInv, OnceEach
    <2> QED  BY <2>1, <2>3, <2>4 DEF OnceEach
  <1>6. WakesFrame'  BY <1>1 DEF WakesFrame
  <1> QED  BY <1>4, <1>5, <1>6 DEF ExecInv

\* Polling, waking and marking a task change only that task.
LEMMA TouchFacts ==
  ASSUME ExecInv, NEW i \in DOMAIN tasks, NEW fut,
         \/ \E st \in {"blocked", "done"} : Polls(i, st, fut)
         \/ Wakes(i, fut) \/ Marks(i, fut)
  PROVE  \E st \in {"ready", "blocked", "done"} :
            /\ \E G : tasks' \in Seq(Items(G, spawned)) /\ fns \in Seq(Items(G, spawned))
            /\ DOMAIN tasks' = DOMAIN tasks
            /\ \A j \in DOMAIN tasks : /\ tasks'[j].id = tasks[j].id
                                       /\ j # i => tasks'[j] = tasks[j]
            /\ tasks'[i].st = st /\ tasks'[i].fut = fut /\ UNCHANGED <<ui, fns, spawned>>
            /\ \/ tasks[i].st = "ready" /\ st \in {"blocked", "done"} /\ ui = "poll" /\ repaint' = repaint
               \/ tasks[i].st = "blocked" /\ st = "ready" /\ repaint' = TRUE
               \/ tasks[i].st = "blocked" /\ st = "blocked" /\ repaint' = repaint
  <1>1. PICK F : tasks \in Seq(Items(F, spawned)) /\ fns \in Seq(Items(F, spawned))
    BY DEF ExecInv, TaskTypes
  <1> DEFINE G == F \cup {fut}
  <1>2. tasks \in Seq(Items(G, spawned)) /\ fns \in Seq(Items(G, spawned)) /\ fut \in G
    <2>1. Items(F, spawned) \subseteq Items(G, spawned)  BY DEF Items
    <2> QED  BY <1>1, <2>1, SeqMonotonic
  <1> HIDE DEF G
  <1>3. PICK st \in {"ready", "blocked", "done"} :
            /\ \/ tasks' = Changed(i, st, fut)
               \/ st = tasks[i].st /\ tasks' = [tasks EXCEPT ![i].fut = fut]
            /\ UNCHANGED <<ui, fns, spawned>>
            /\ \/ tasks[i].st = "ready" /\ st \in {"blocked", "done"} /\ ui = "poll" /\ repaint' = repaint
               \/ tasks[i].st = "blocked" /\ st = "ready" /\ repaint' = TRUE
               \/ tasks[i].st = "blocked" /\ st = "blocked" /\ repaint' = repaint
    <2>1. CASE \E st \in {"blocked", "done"} : Polls(i, st, fut)
      BY <2>1 DEF Polls, Changed
    <2>2. CASE Wakes(i, fut)  BY <2>2 DEF Wakes, Changed
    <2>3. CASE Marks(i, fut)  BY <2>3 DEF Marks
    <2> QED  BY <2>1, <2>2, <2>3
  <1>4. tasks' = Changed(i, st, fut)
    BY <1>1, <1>3, MarkedTask
  <1>5. /\ Changed(i, st, fut) \in Seq(Items(G, spawned))
        /\ DOMAIN Changed(i, st, fut) = DOMAIN tasks
        /\ \A j \in DOMAIN tasks :
              /\ Changed(i, st, fut)[j].id = tasks[j].id
              /\ j # i => Changed(i, st, fut)[j] = tasks[j]
        /\ Changed(i, st, fut)[i].st = st /\ Changed(i, st, fut)[i].fut = fut
    BY <1>2, TaskChanges
  <1> QED  BY <1>2, <1>3, <1>4, <1>5

LEMMA TouchExec ==
  ASSUME ExecInv, NEW i \in DOMAIN tasks, NEW fut,
         \/ \E st \in {"blocked", "done"} : Polls(i, st, fut)
         \/ Wakes(i, fut) \/ Marks(i, fut)
  PROVE  ExecInv'
  <1>1. PICK st \in {"ready", "blocked", "done"} :
            /\ \E G : tasks' \in Seq(Items(G, spawned)) /\ fns \in Seq(Items(G, spawned))
            /\ DOMAIN tasks' = DOMAIN tasks
            /\ \A j \in DOMAIN tasks : /\ tasks'[j].id = tasks[j].id
                                       /\ j # i => tasks'[j].st = tasks[j].st
            /\ tasks'[i].st = st /\ UNCHANGED <<ui, fns, spawned>>
            /\ \/ ui = "poll" /\ repaint' = repaint
               \/ repaint' = TRUE
               \/ tasks[i].st = "blocked" /\ st = "blocked" /\ repaint' = repaint
    BY TouchFacts
  <1>2. TaskTypes'  BY <1>1 DEF ExecInv, TaskTypes
  <1>3. OnceEach'  BY <1>1 DEF ExecInv, OnceEach
  <1>4. WakesFrame'
    BY <1>1 DEF ExecInv, TaskTypes, WakesFrame, Roused
  <1> QED  BY <1>2, <1>3, <1>4 DEF ExecInv

LEMMA CollectExec ==
  ASSUME ExecInv, Collect
  PROVE  ExecInv'
  <1>1. PICK F : tasks \in Seq(Items(F, spawned)) /\ fns \in Seq(Items(F, spawned))
    BY DEF ExecInv, TaskTypes
  <1> DEFINE T == Items(F, spawned)
             done == {i \in DOMAIN tasks : tasks[i].st = "done"}
             found == {i \in done : tasks[i].fut # NoFn}
             left == DOMAIN tasks \ done
  <1>2. /\ tasks' = Kept(tasks, left) /\ fns' = Kept(tasks, found)
        /\ ui = "poll" /\ (ui' = IF found = {} THEN "show" ELSE "run")
        /\ spawned' = spawned /\ repaint' = repaint
        /\ \A i \in DOMAIN tasks : tasks[i].st # "ready"
    BY DEF Collect
  <1>3. \A i \in left : tasks[i].st = "blocked"
    BY <1>1, <1>2, ItemsOf
  <1>4. found \in SUBSET DOMAIN tasks /\ left \in SUBSET DOMAIN tasks /\ left \cap found = {}
    OBVIOUS
  <1> HIDE DEF found, left, T
  <1>5. /\ fns' \in Seq(T) /\ (fns' = <<>> <=> found = {})
        /\ \A n \in DOMAIN fns' : \E i \in found : fns'[n] = tasks[i]
        /\ \A m, n \in DOMAIN fns' : m # n =>
              \E i, j \in found : i # j /\ fns'[m] = tasks[i] /\ fns'[n] = tasks[j]
    BY <1>1, <1>2, <1>4, KeptSeq DEF T
  <1>6. /\ tasks' \in Seq(T)
        /\ \A n \in DOMAIN tasks' : \E i \in left : tasks'[n] = tasks[i]
        /\ \A m, n \in DOMAIN tasks' : m # n =>
              \E i, j \in left : i # j /\ tasks'[m] = tasks[i] /\ tasks'[n] = tasks[j]
    <2>1. tasks \in Seq(T)  BY <1>1 DEF T
    <2> QED  BY <1>2, <1>4, <2>1, KeptSeq
  <1>7. TaskTypes'
    <2>1. tasks' \in Seq(Items(F, spawned')) /\ fns' \in Seq(Items(F, spawned'))
      BY <1>2, <1>5, <1>6 DEF T
    <2>2. fns' # <<>> <=> ui' = "run"
      BY <1>2, <1>5
    <2>3. ui' \in Phases \cup {"panic"}  BY <1>2 DEF Phases
    <2>4. repaint' \in BOOLEAN /\ spawned' \in 0 .. MaxTasks  BY <1>2 DEF ExecInv, TaskTypes
    <2> QED  BY <2>1, <2>2, <2>3, <2>4 DEF TaskTypes
  <1>8. OnceEach'
    <2>1. \A i, j \in DOMAIN tasks : i # j => tasks[i].id # tasks[j].id
      BY DEF ExecInv, OnceEach
    <2>2. \A i, j \in DOMAIN fns' : fns'[i].id = fns'[j].id => i = j
      BY <1>4, <1>5, <2>1
    <2>3. \A i, j \in DOMAIN tasks' : tasks'[i].id = tasks'[j].id => i = j
      BY <1>4, <1>6, <2>1
    <2>4. \A i \in DOMAIN tasks' : \A j \in DOMAIN fns' : tasks'[i].id # fns'[j].id
      <3> SUFFICES ASSUME NEW i \in DOMAIN tasks', NEW j \in DOMAIN fns' PROVE tasks'[i].id # fns'[j].id
        OBVIOUS
      <3>1. PICK k \in left : tasks'[i] = tasks[k]  BY <1>6
      <3>2. PICK m \in found : fns'[j] = tasks[m]  BY <1>5
      <3> QED  BY <1>4, <2>1, <3>1, <3>2
    <2> QED  BY <2>2, <2>3, <2>4 DEF OnceEach
  <1>9. WakesFrame'
    BY <1>3, <1>6 DEF WakesFrame, Roused
  <1> QED  BY <1>7, <1>8, <1>9 DEF ExecInv

LEMMA NextExec ==
  ASSUME ExecInv, [Next]_vars
  PROVE  ExecInv'
  <1>1. ExecStep  BY StepExec DEF ExecInv, TaskTypes
  <1>2. CASE Quietly \/ BeginFrame \/ UserEvent
    <2>1. /\ UNCHANGED <<tasks, fns, spawned>> /\ ui' \in Phases \cup {"panic"} /\ repaint' \in BOOLEAN
          /\ ui' = "run" <=> ui = "run"
          /\ ui' \in {"idle", "show"} => (repaint => repaint') /\ ui \in {"idle", "show"}
      BY <1>2 DEF Quietly, BeginFrame, UserEvent, ExecInv, TaskTypes, Phases
    <2>2. TaskTypes'  BY <2>1 DEF ExecInv, TaskTypes
    <2>3. OnceEach'  BY <2>1 DEF ExecInv, OnceEach
    <2>4. WakesFrame'
      <3>1. Roused' <=> Roused  BY <2>1 DEF Roused
      <3> QED  BY <2>1, <3>1 DEF ExecInv, WakesFrame
    <2> QED  BY <2>2, <2>3, <2>4 DEF ExecInv
  <1>3. CASE Collect  BY <1>3, CollectExec
  <1>4. CASE \E i \in DOMAIN tasks : \E st \in {"blocked", "done"} : \E fut : Polls(i, st, fut)
    BY <1>4, TouchExec
  <1>5. CASE \E i \in DOMAIN tasks : \E fut : Wakes(i, fut) \/ Marks(i, fut)
    BY <1>5, TouchExec
  <1>6. CASE \E futs : Futs(futs) /\ (Spawns(futs) \/ RunsFn(futs))
    BY <1>6, SpawnExec, RunsExec
  <1> QED  BY <1>1, <1>2, <1>3, <1>4, <1>5, <1>6 DEF ExecStep

LEMMA ExecInvHolds == Spec => []ExecInv
  <1>1. ExecInv /\ [Next]_vars => ExecInv'  BY NextExec
  <1> QED  BY InitExec, <1>1, PTL DEF Spec

\* A task that can go on, or a function that waits to be run, always has a
\* frame ahead of it, whatever the number of tasks: the thread of the interface
\* is not left asleep by a waker or by a spawn that raced with its frame.
THEOREM NoLostWakeHolds == Spec => []NoLostWake
  <1>1. ExecInv => NoLostWake
    <2> SUFFICES ASSUME ExecInv, ui = "idle", Woken # {} PROVE repaint
      BY DEF NoLostWake
    <2>1. fns = <<>>  BY DEF ExecInv, TaskTypes
    <2>2. Roused  BY <2>1 DEF Woken, Ids, Asleep, Roused
    <2> QED  BY <2>2 DEF ExecInv, WakesFrame
  <1> QED  BY ExecInvHolds, <1>1, PTL

-----------------------------------------------------------------------------
(* Every step of the application is a step of the pool of tasks.             *)

LEMMA Apart == ExecInv => Waiting \cap Woken = {}
BY DEF ExecInv, OnceEach, Waiting, Woken, Ids, Asleep

LEMMA ApartNext == ExecInv' => Waiting' \cap Woken' = {}
BY DEF ExecInv, OnceEach, Waiting, Woken, Ids, Asleep

LEMMA PoolNames == ExecInv => Waiting \cup Woken \subseteq 1 .. spawned
  <1> SUFFICES ASSUME ExecInv PROVE Waiting \cup Woken \subseteq 1 .. spawned  OBVIOUS
  <1>1. PICK F : tasks \in Seq(Items(F, spawned)) /\ fns \in Seq(Items(F, spawned))
    BY DEF ExecInv, TaskTypes
  <1> QED  BY <1>1, ItemsOf DEF Waiting, Woken, Ids, Asleep

LEMMA PoolTouched ==
  ASSUME ExecInv, ExecInv', NEW i \in DOMAIN tasks, NEW fut,
         \/ \E st \in {"blocked", "done"} : Polls(i, st, fut)
         \/ Wakes(i, fut) \/ Marks(i, fut)
  PROVE  [Pool!Next]_(Pool!poolVars)
  <1> DEFINE t == tasks[i].id
  <1>1. PICK st \in {"ready", "blocked", "done"} :
          /\ DOMAIN tasks' = DOMAIN tasks
          /\ \A j \in DOMAIN tasks : /\ tasks'[j].id = tasks[j].id
                                     /\ j # i => tasks'[j].st = tasks[j].st
          /\ tasks'[i].st = st /\ UNCHANGED <<fns, spawned>>
          /\ \/ tasks[i].st = "ready" /\ st \in {"blocked", "done"}
             \/ tasks[i].st = "blocked" /\ st \in {"ready", "blocked"}
    BY TouchFacts
  <1>2. t \in 1 .. spawned /\ spawned \in 0 .. MaxTasks
    <2>1. PICK F : tasks \in Seq(Items(F, spawned))  BY DEF ExecInv, TaskTypes
    <2> QED  BY <2>1, ItemsOf DEF ExecInv, TaskTypes
  <1>3. \A j \in DOMAIN tasks : tasks[j].id = t => j = i
    BY DEF ExecInv, OnceEach
  <1>4. \A j \in DOMAIN fns : fns[j].id # t
    BY DEF ExecInv, OnceEach
  <1> HIDE DEF t
  <1>5. CASE tasks[i].st = "ready" /\ st = "blocked"
    <2>1. Waiting' = Waiting \cup {t}
      BY <1>1, <1>5 DEF Waiting, Ids, Asleep, t
    <2>2. Woken' = Woken \ {t} /\ t \in Woken
      BY <1>1, <1>3, <1>4, <1>5 DEF Woken, Ids, Asleep, t
    <2>3. Waiting' \cap Woken' = {}
      BY Apart, <2>1, <2>2
    <2>4. (spawned + 1) .. spawned = {}
      BY <1>2
    <2> QED  BY <1>1, <1>2, <2>1, <2>2, <2>3, <2>4 DEF Pool!Next, Pool!Serve, Pool!Born
  <1>6. CASE tasks[i].st = "blocked" /\ st = "ready"
    <2>1. Waiting' = Waiting \ {t} /\ t \in Waiting
      BY <1>1, <1>3, <1>6 DEF Waiting, Ids, Asleep, t
    <2>2. Woken' = Woken \cup {t}
      BY <1>1, <1>6 DEF Woken, Ids, Asleep, t
    <2>3. t \in 1 .. MaxTasks  BY <1>2, TasksAssumption
    <2> QED  BY <1>1, <2>1, <2>2, <2>3 DEF Pool!Next, Pool!Wake
  <1>7. CASE (tasks[i].st = "blocked") <=> (st = "blocked")
    <2>1. Asleep' = Asleep  BY <1>1, <1>7 DEF Asleep
    <2>2. Waiting' = Waiting /\ Woken' = Woken
      BY <1>1, <2>1 DEF Waiting, Woken, Ids, Asleep
    <2> QED  BY <1>1, <2>2 DEF Pool!poolVars
  <1> QED  BY <1>1, <1>5, <1>6, <1>7

LEMMA PoolCollected ==
  ASSUME ExecInv, ExecInv', Collect
  PROVE  [Pool!Next]_(Pool!poolVars)
  <1>1. PICK F : tasks \in Seq(Items(F, spawned)) /\ fns \in Seq(Items(F, spawned))
    BY DEF ExecInv, TaskTypes
  <1> DEFINE done == {i \in DOMAIN tasks : tasks[i].st = "done"}
             found == {i \in done : tasks[i].fut # NoFn}
             left == DOMAIN tasks \ done
  <1>2. /\ tasks' = Kept(tasks, left) /\ fns' = Kept(tasks, found)
        /\ ui = "poll" /\ spawned' = spawned
        /\ \A i \in DOMAIN tasks : tasks[i].st # "ready"
    BY DEF Collect
  <1>3. left = Asleep
    BY <1>1, <1>2, ItemsOf DEF Asleep
  <1>4. fns = <<>> /\ spawned \in 0 .. MaxTasks
    BY <1>2 DEF ExecInv, TaskTypes
  <1>5. found \in SUBSET DOMAIN tasks /\ left \in SUBSET DOMAIN tasks /\ left \cap found = {}
    OBVIOUS
  <1> HIDE DEF found, left
  <1>6. /\ \A n \in DOMAIN fns' : \E i \in found : fns'[n] = tasks[i]
        /\ \A n \in DOMAIN tasks' : \E i \in left : tasks'[n] = tasks[i]
        /\ \A i \in left : \E n \in DOMAIN tasks' : tasks'[n] = tasks[i]
    <2> DEFINE T == Items(F, spawned)
    <2>1. tasks \in Seq(T)  BY <1>1
    <2> HIDE DEF T
    <2> QED  BY <1>2, <1>5, <2>1, KeptSeq
  <1>7. Waiting' = Waiting
    BY <1>3, <1>6 DEF Waiting, Ids, Asleep
  <1>8. Woken' \subseteq Woken
    <2>1. \A n \in DOMAIN tasks' : tasks'[n].st = "blocked"  BY <1>3, <1>6 DEF Asleep
    <2>2. \A n \in DOMAIN fns' : fns'[n].id \in Woken
      BY <1>3, <1>5, <1>6 DEF Woken, Ids
    <2> QED  BY <2>1, <2>2 DEF Woken, Ids, Asleep
  <1>9. CASE Woken' = Woken
    BY <1>2, <1>7, <1>9 DEF Pool!poolVars
  <1>10. CASE Woken' # Woken
    <2>1. (spawned + 1) .. spawned = {}  BY <1>4
    <2>2. Waiting \cap Woken = {}  BY Apart
    <2> QED  BY <1>2, <1>4, <1>7, <1>8, <1>10, <2>1, <2>2 DEF Pool!Next, Pool!Serve, Pool!Born
  <1> QED  BY <1>9, <1>10

\* Spawning, from anywhere; the functions that wait are fns, or what is left of
\* them once the first has run.
LEMMA PoolGrown ==
  ASSUME ExecInv, NEW futs, Futs(futs), SpawnTo(tasks, futs)
  PROVE  /\ Waiting \subseteq Waiting' /\ Waiting' \subseteq Waiting \cup Pool!Born
         /\ Ids(tasks', DOMAIN tasks' \ Asleep') \subseteq Woken \cup Pool!Born
         /\ Ids(tasks, DOMAIN tasks \ Asleep) \subseteq Ids(tasks', DOMAIN tasks' \ Asleep')
         /\ Pool!Born \subseteq Waiting' \cup Ids(tasks', DOMAIN tasks' \ Asleep')
         /\ futs = <<>> => /\ Waiting' = Waiting
                           /\ Ids(tasks', DOMAIN tasks' \ Asleep') = Ids(tasks, DOMAIN tasks \ Asleep)
  <1> DEFINE ready == Ids(tasks, DOMAIN tasks \ Asleep)
             readyNext == Ids(tasks', DOMAIN tasks' \ Asleep')
             new == DOMAIN tasks' \ DOMAIN tasks
  <1>1. /\ DOMAIN tasks \subseteq DOMAIN tasks'
        /\ \A j \in DOMAIN tasks : tasks'[j] = tasks[j]
        /\ \A j \in new : tasks'[j].id \in Pool!Born
        /\ \A b \in Pool!Born : \E j \in new : tasks'[j].id = b
        /\ futs = <<>> => new = {}
    BY Grown DEF Pool!Born
  <1> HIDE DEF new
  <1>2. DOMAIN tasks' = DOMAIN tasks \cup new  BY <1>1 DEF new
  <1>3. Waiting \subseteq Waiting' /\ Waiting' \subseteq Waiting \cup Pool!Born
    BY <1>1, <1>2 DEF Waiting, Ids, Asleep
  <1>4. readyNext \subseteq ready \cup Pool!Born /\ ready \subseteq readyNext
    BY <1>1, <1>2 DEF Ids, Asleep
  <1>5. Pool!Born \subseteq Waiting' \cup readyNext
    BY <1>1, <1>2 DEF Waiting, Ids, Asleep
  <1>6. ASSUME futs = <<>> PROVE Waiting' = Waiting /\ readyNext = ready
    BY <1>1, <1>2, <1>6 DEF Waiting, Ids, Asleep
  <1>7. ready \subseteq Woken  BY DEF Woken
  <1> QED  BY <1>3, <1>4, <1>5, <1>6, <1>7

LEMMA PoolSpawned ==
  ASSUME ExecInv, ExecInv', NEW futs, Futs(futs), Spawns(futs)
  PROVE  [Pool!Next]_(Pool!poolVars)
  <1>1. SpawnTo(tasks, futs) /\ fns' = fns  BY DEF Spawns
  <1> DEFINE ready == Ids(tasks, DOMAIN tasks \ Asleep)
             readyNext == Ids(tasks', DOMAIN tasks' \ Asleep')
             waits == Ids(fns, DOMAIN fns)
  <1>2. Woken = ready \cup waits /\ Woken' = readyNext \cup waits
    BY <1>1 DEF Woken, Ids
  <1>3. /\ Waiting \subseteq Waiting' /\ Waiting' \subseteq Waiting \cup Pool!Born
        /\ readyNext \subseteq Woken \cup Pool!Born
        /\ ready \subseteq readyNext
        /\ Pool!Born \subseteq Waiting' \cup readyNext
        /\ futs = <<>> => Waiting' = Waiting /\ readyNext = ready
    BY <1>1, PoolGrown
  <1>4. Waiting' \cap Woken' = {} /\ Waiting \cap Woken = {}
    BY Apart, ApartNext
  <1>5. spawned \in Nat /\ spawned' \in spawned .. MaxTasks /\ (futs = <<>> <=> spawned' = spawned)
    BY <1>1, Grown
  <1> HIDE DEF ready, readyNext, waits
  <1>6. CASE futs = <<>>
    BY <1>2, <1>3, <1>5, <1>6 DEF Pool!poolVars
  <1>7. CASE futs # <<>>
    <2> DEFINE B == Pool!Born \cap Waiting'
    <2>1. Pool!Born \cap (Waiting \cup Woken) = {}
      <3>1. Pool!Born \cap 1 .. spawned = {}  BY <1>5 DEF Pool!Born
      <3>2. Waiting \cup Woken \subseteq 1 .. spawned  BY PoolNames
      <3> QED  BY <3>1, <3>2
    <2>2. Waiting' = Waiting \cup B  BY <1>3
    <2>3. Woken' = Woken \cup (Pool!Born \ B)  BY <1>2, <1>3, <1>4
    <2>4. spawned' \in (spawned + 1) .. MaxTasks  BY <1>5, <1>7, TasksAssumption
    <2> QED  BY <2>2, <2>3, <2>4 DEF Pool!Next, Pool!Spawn
  <1> QED  BY <1>6, <1>7

LEMMA PoolRan ==
  ASSUME ExecInv, ExecInv', NEW futs, Futs(futs), RunsFn(futs)
  PROVE  [Pool!Next]_(Pool!poolVars)
  <1>1. SpawnTo(tasks, futs) /\ fns' = Tail(fns) /\ ui = "run"  BY DEF RunsFn
  <1> DEFINE ready == Ids(tasks, DOMAIN tasks \ Asleep)
             readyNext == Ids(tasks', DOMAIN tasks' \ Asleep')
             waits == Ids(fns, DOMAIN fns)
             waitsNext == Ids(fns', DOMAIN fns')
             ran == fns[1].id
  <1>2. Woken = ready \cup waits /\ Woken' = readyNext \cup waitsNext
    BY DEF Woken
  <1>3. /\ Waiting \subseteq Waiting' /\ Waiting' \subseteq Waiting \cup Pool!Born
        /\ readyNext \subseteq Woken \cup Pool!Born
        /\ Pool!Born \subseteq Waiting' \cup readyNext
    BY <1>1, PoolGrown
  <1>4. Waiting' \cap Woken' = {}
    BY ApartNext
  <1>5. spawned \in Nat /\ spawned' \in spawned .. MaxTasks
    BY <1>1, Grown
  <1>6. waitsNext \subseteq waits /\ ran \in waits /\ ran \notin Woken'
    <2>1. PICK F : fns \in Seq(Items(F, spawned))  BY DEF ExecInv, TaskTypes
    <2>2. /\ fns # <<>> /\ Len(fns) \in Nat \ {0} /\ DOMAIN fns = 1 .. Len(fns)
          /\ DOMAIN fns' = 1 .. (Len(fns) - 1)
          /\ \A i \in DOMAIN fns' : fns'[i] = fns[i + 1]
      BY <1>1, <2>1, TailOf DEF ExecInv, TaskTypes
    <2>3. \A i \in DOMAIN fns' : i + 1 \in DOMAIN fns /\ i + 1 # 1 /\ 1 \in DOMAIN fns  BY <2>2
    <2>4. waitsNext \subseteq waits /\ ran \in waits  BY <2>2, <2>3 DEF Ids
    <2>5. ran \notin waitsNext
      BY <2>2, <2>3 DEF Ids, ExecInv, OnceEach
    <2>6. ran \notin readyNext
      BY <1>1, <2>2, ApartFromFns DEF Ids
    <2> QED  BY <1>2, <2>4, <2>5, <2>6
  <1> HIDE DEF ready, readyNext, waits, waitsNext, ran
  <1>7. Woken \ Woken' # {} /\ Woken' \in SUBSET (Woken \cup Pool!Born)
    BY <1>2, <1>3, <1>6
  <1>8. Pool!Born \subseteq Waiting' \cup Woken'  BY <1>2, <1>3
  <1> QED  BY <1>3, <1>4, <1>5, <1>7, <1>8 DEF Pool!Next, Pool!Serve

LEMMA PoolStep ==
  ASSUME ExecInv, ExecInv', [Next]_vars
  PROVE  [Pool!Next]_(Pool!poolVars)
  <1>1. ExecStep  BY StepExec DEF ExecInv, TaskTypes
  <1>2. CASE Quietly \/ BeginFrame \/ UserEvent
    <2>1. UNCHANGED <<tasks, fns, spawned>>  BY <1>2 DEF Quietly, BeginFrame, UserEvent
    <2> QED  BY <2>1 DEF Pool!poolVars, Waiting, Woken, Ids, Asleep
  <1>3. CASE Collect  BY <1>3, PoolCollected
  <1>4. CASE \E i \in DOMAIN tasks : \E st \in {"blocked", "done"} : \E fut : Polls(i, st, fut)
    BY <1>4, PoolTouched
  <1>5. CASE \E i \in DOMAIN tasks : \E fut : Wakes(i, fut) \/ Marks(i, fut)
    BY <1>5, PoolTouched
  <1>6. CASE \E futs : Futs(futs) /\ (Spawns(futs) \/ RunsFn(futs))
    BY <1>6, PoolSpawned, PoolRan
  <1> QED  BY <1>1, <1>2, <1>3, <1>4, <1>5, <1>6 DEF ExecStep

\* The executor never does to its tasks what the pool does not allow: a task
\* wakes only while it waits, is served only once it is woken, and ends once,
\* whatever the threads do meanwhile.  (That it is served is left to TLC.)
THEOREM TasksRefinePool == Spec => Pool!Init /\ [][Pool!Next]_(Pool!poolVars)
  <1>1. Init => Pool!Init
    BY DEF Init, ExecInit, Pool!Init, Waiting, Woken, Ids, Asleep
  <1>2. ExecInv /\ ExecInv' /\ [Next]_vars => [Pool!Next]_(Pool!poolVars)
    BY PoolStep
  <1> QED  BY <1>1, <1>2, ExecInvHolds, PTL DEF Spec

-----------------------------------------------------------------------------
(* Proofs about the preview of the application: its texture shows what was   *)
(* set last, its sink follows the application, and the recent files are in   *)
(* order, for any settings, media, number of tasks and limit.                *)

-----------------------------------------------------------------------------
(* The shapes of the preview's records. *)

SinkShape ==
    /\ sink = [last |-> sink.last, settings |-> sink.settings, mode |-> sink.mode,
               holder |-> sink.holder, tex |-> sink.tex, failed |-> sink.failed]
    /\ stream \in {"idle", "update", "draw"}
    /\ \/ call = NoCall
       \/ /\ call \in {[k |-> "settings", settings |-> call.settings, pc |-> call.pc],
                       [k |-> "mode", mode |-> call.mode, pc |-> call.pc]}
          /\ call.pc \in {"write", "update", "draw"}

PipeShape ==
    \/ pipe = NoPipe
    \/ pipe = [path |-> pipe.path, status |-> pipe.status, eos |-> pipe.eos, gst |-> pipe.gst,
               elems |-> pipe.elems, prerolled |-> pipe.prerolled, finished |-> pipe.finished,
               volume |-> pipe.volume]
       /\ pipe.status \in {"Loading", "Loaded", "Error"}

\* Who holds the texture is drawing it, and nobody draws without a pipeline.
Holders ==
    /\ sink.holder \in {"none", "ui", "stream"}
    /\ sink.holder = "ui" <=> call.pc = "draw"
    /\ sink.holder = "stream" <=> stream = "draw"
    /\ pipe = NoPipe => call = NoCall /\ stream = "idle"

\* The texture is current unless someone is about to draw it, has failed to, or
\* has nothing to draw.
Current == /\ sink.tex.f = sink.last /\ sink.tex.m = sink.mode
           /\ sink.mode = "Disabled" \/ sink.tex.s = sink.settings
DrawnInTime ==
    \/ stream \in {"update", "draw"} \/ call.pc \in {"update", "draw"}
    \/ sink.failed \/ sink.last = NoFrame
    \/ Current

\* What the application has set is in the sink, or in the call that brings it.
Writes(k) == call.k = k /\ call.pc = "write"
Brought ==
    pipe # NoPipe =>
        /\ IF Writes("settings") THEN call.settings = settings ELSE sink.settings = settings
        /\ IF Writes("mode") THEN call.mode = mode ELSE sink.mode = mode
        /\ pipe.volume # Untouched =>
               pipe.volume = [gain |-> audio.gain, mute |-> audio.mute \/ audio.gain = 0]

PreviewInv == SinkShape /\ PipeShape /\ Holders /\ DrawnInTime /\ Brought

-----------------------------------------------------------------------------
(* What the steps of the application do to the preview. *)

Stays == UNCHANGED <<pipe, recent, settings, mode, audio>> /\ UNCHANGED sinkVars

\* The pipeline goes on: its media and its volume are what they were.
Moves == /\ pipe # NoPipe
         /\ \E status \in {"Loading", "Loaded", "Error"} : \E eos, gst, elems, prerolled, finished :
               pipe' = [path |-> pipe.path, status |-> status, eos |-> eos, gst |-> gst,
                        elems |-> elems, prerolled |-> prerolled, finished |-> finished,
                        volume |-> pipe.volume]
         /\ UNCHANGED <<recent, settings, mode, audio>> /\ UNCHANGED sinkVars

Replaces == /\ call = NoCall
            /\ \/ Drops(NoPipe) /\ UNCHANGED recent
               \/ \E path : Drops(NewPipe(path)) /\ recent' = Remembered(path)
            /\ UNCHANGED <<settings, mode, audio>>

Sets == /\ call = NoCall
        /\ (\E v : SetEffectSettings(v)) \/ (\E m : SetMode(m))

PreviewStep ==
    \/ Stays \/ Moves \/ Replaces \/ Sets
    \/ call = NoCall /\ \E gain, preMute, mute :
                            SetVolume(gain, preMute, mute)
    \/ Frame \/ UiCall

LEMMA LoadSteps ==
  ASSUME NEW path, LoadVideo(path), call = NoCall PROVE PreviewStep
BY DEF LoadVideo, Replaces, Stays, PreviewStep

LEMMA MoveSteps ==
  ASSUME PipeShape, pipe # NoPipe,
         \/ \E kinds : StreamEvent(kinds)
         \/ TogglePlaying
         \/ CheckStatus /\ pipe.status = "Loaded" /\ pipe.eos
  PROVE  Moves
  <1> DEFINE P(status, eos, gst, elems, prerolled, finished) ==
                [path |-> pipe.path, status |-> status, eos |-> eos, gst |-> gst, elems |-> elems,
                 prerolled |-> prerolled, finished |-> finished, volume |-> pipe.volume]
  <1>1. pipe = P(pipe.status, pipe.eos, pipe.gst, pipe.elems, pipe.prerolled, pipe.finished)
        /\ pipe.status \in {"Loading", "Loaded", "Error"}
    BY DEF PipeShape
  <1>2. CASE TogglePlaying
    BY <1>1, <1>2 DEF TogglePlaying, Moves
  <1>3. CASE CheckStatus /\ pipe.status = "Loaded" /\ pipe.eos
    BY <1>1, <1>3 DEF CheckStatus, Moves
  <1>4. CASE \E kinds : StreamEvent(kinds)
    BY <1>1, <1>4 DEF StreamEvent, PadAdded, StateChanged, AsyncDone, ErrorMessage, Eos, Moves
  <1> QED  BY <1>2, <1>3, <1>4

LEMMA StatusSteps ==
  ASSUME PipeShape, CheckStatus, call = NoCall PROVE PreviewStep
  <1>1. CASE pipe = NoPipe \/ pipe.status = "Loading"
    BY <1>1 DEF CheckStatus, Stays, PreviewStep
  <1>2. CASE pipe # NoPipe /\ pipe.status = "Error"
    BY <1>2 DEF CheckStatus, Replaces, PreviewStep
  <1>3. CASE pipe # NoPipe /\ pipe.status = "Loaded" /\ pipe.eos
    BY <1>3, MoveSteps DEF PreviewStep
  <1>4. CASE pipe # NoPipe /\ pipe.status = "Loaded" /\ ~pipe.eos
    BY <1>4 DEF CheckStatus, Stays, PreviewStep
  <1> QED  BY <1>1, <1>2, <1>3, <1>4 DEF PipeShape

LEMMA PollKeeps ==
  ASSUME PollTask PROVE Stays
  <1>1. PICK i \in DOMAIN tasks : TaskOf(i)  BY DEF PollTask
  <1>2. UNCHANGED sinkVars /\ UNCHANGED previewVars
    BY <1>1 DEF TaskOf, PollMedia, PollRender, PollSave, PollJob, JobKeeps
  <1> QED  BY <1>2 DEF previewVars, Stays

LEMMA RunPreview ==
  ASSUME RunFn PROVE PreviewStep
  <1>1. call = NoCall  BY DEF RunFn, UiFree
  <1>2. CASE RunRender
    BY <1>2 DEF RunRender, PushJob, previewVars, Stays, PreviewStep
  <1>3. CASE RunMedia
    BY <1>1, <1>3, LoadSteps DEF RunMedia
  <1>4. CASE UNCHANGED sinkVars /\ UNCHANGED previewVars
    BY <1>4 DEF previewVars, Stays, PreviewStep
  <1>5. CASE SetEffectSettings(Head(fns).fut.v)
    BY <1>1, <1>5 DEF Sets, PreviewStep
  <1> QED  BY <1>2, <1>3, <1>4, <1>5 DEF RunFn

LEMMA TickPreview ==
  ASSUME PipeShape, Tick PROVE PreviewStep
  <1>1. call = NoCall  BY DEF Tick, UiFree
  <1>2. CASE Others  BY <1>2 DEF Others, previewVars, Stays, PreviewStep
  <1>3. CASE CheckStatus  BY <1>1, <1>3, StatusSteps
  <1> QED  BY <1>2, <1>3 DEF Tick

LEMMA ShowPreview ==
  ASSUME PipeShape, Show PROVE PreviewStep
  <1>1. call = NoCall  BY DEF Show, UiFree
  <1>2. CASE ShowNothing \/ UsePresets
    BY <1>2 DEF ShowNothing, UsePresets, previewVars, Stays, PreviewStep
  <1>3. CASE UseMedia
    <2>1. CASE UNCHANGED previewVars /\ UNCHANGED sinkVars
      BY <2>1 DEF previewVars, Stays, PreviewStep
    <2>2. CASE \E path \in Media : LoadVideo(path)
      BY <1>1, <2>2, LoadSteps
    <2>3. CASE CloseVideo
      BY <1>1, <2>3 DEF CloseVideo, Replaces, PreviewStep
    <2>4. CASE TogglePlaying
      BY <2>4, MoveSteps DEF TogglePlaying, PreviewStep
    <2> QED  BY <1>3, <2>1, <2>2, <2>3, <2>4 DEF UseMedia, RescaleVideo
  <1>4. CASE UseEffects
    BY <1>1, <1>4 DEF UseEffects, Sets, PreviewStep
  <1>5. CASE UseAudio
    BY <1>1, <1>5 DEF UseAudio, DragVolume, ToggleMute, Released, PreviewStep
  <1>6. CASE UseRender
    BY <1>6 DEF UseRender, Confirm, Refuse, PushJob, CloseJob, JobKeeps, previewVars, Stays, PreviewStep
  <1> QED  BY <1>2, <1>3, <1>4, <1>5, <1>6 DEF Show

LEMMA StepPreview ==
  ASSUME PipeShape, [Next]_vars PROVE PreviewStep
  <1>1. CASE Tick  BY <1>1, TickPreview
  <1>2. CASE PollTask  BY <1>2, PollKeeps DEF PreviewStep
  <1>3. CASE RunFn  BY <1>3, RunPreview
  <1>4. CASE Show  BY <1>4, ShowPreview
  <1>5. CASE Sink  BY <1>5 DEF Sink, PreviewStep
  <1>6. CASE PoolThread
    <2>1. UNCHANGED sinkVars /\ UNCHANGED previewVars
      BY <1>6 DEF PoolThread, ThreadOf, ThreadRender
    <2> QED  BY <2>1 DEF previewVars, Stays, PreviewStep
  <1>7. CASE Answer
    <2>1. UNCHANGED sinkVars /\ UNCHANGED previewVars
      BY <1>7 DEF Answer, AnswerPick, AnswerSave
    <2> QED  BY <2>1 DEF previewVars, Stays, PreviewStep
  <1>8. CASE Stream
    <2>1. CASE \E kinds : StreamEvent(kinds)
      <3>1. pipe # NoPipe
        BY <2>1 DEF StreamEvent, PadAdded, StateChanged, AsyncDone, ErrorMessage, Eos
      <3> QED  BY <2>1, <3>1, MoveSteps DEF PreviewStep
    <2>2. CASE Frame  BY <2>2 DEF PreviewStep
    <2> QED  BY <1>8, <2>1, <2>2 DEF Stream
  <1>9. CASE Jobs
    <2>1. UNCHANGED sinkVars /\ UNCHANGED previewVars
      BY <1>9 DEF Jobs, JobEvent, JobSpawns, JobKeeps
    <2> QED  BY <2>1 DEF previewVars, Stays, PreviewStep
  <1>10. CASE UNCHANGED vars
    BY <1>10 DEF vars, previewVars, Stays, PreviewStep
  <1> QED  BY <1>1, <1>2, <1>3, <1>4, <1>5, <1>6, <1>7, <1>8, <1>9, <1>10 DEF Next, UiStep

-----------------------------------------------------------------------------
(* The invariant is inductive. *)

LEMMA InitPreview == Init => PreviewInv
  <1> SUFFICES ASSUME Init PROVE PreviewInv  OBVIOUS
  <1>1. /\ settings = 0 /\ mode = "Enabled" /\ audio = [gain |-> 1, preMute |-> 1, mute |-> FALSE]
        /\ sink = NewSink(settings, mode) /\ stream = "idle" /\ call = NoCall
        /\ \E path : pipe \in {NewPipe(path), PlayingPipe(path), NoPipe}
    BY DEF Init, PreviewInit
  <1>2. SinkShape /\ Holders /\ DrawnInTime
    BY <1>1 DEF NewSink, NoCall, SinkShape, Holders, DrawnInTime
  <1>3. PipeShape
    BY <1>1 DEF NewPipe, PlayingPipe, PipeShape
  <1>4. Brought
    <2>1. pipe # NoPipe => pipe.volume = Untouched  BY <1>1 DEF NewPipe, PlayingPipe
    <2> QED  BY <1>1, <2>1 DEF Brought, Writes, NewSink, NoCall
  <1> QED  BY <1>2, <1>3, <1>4 DEF PreviewInv

LEMMA PipesDiffer ==
  \A path, status, eos, gst, elems, prerolled, finished, volume :
     [path |-> path, status |-> status, eos |-> eos, gst |-> gst, elems |-> elems,
      prerolled |-> prerolled, finished |-> finished, volume |-> volume] # NoPipe
BY DEF NoPipe

LEMMA MovesInv ==
  ASSUME PreviewInv, Moves
  PROVE  PreviewInv' /\ pipe' # NoPipe /\ pipe'.path = pipe.path
  <1>1. /\ pipe # NoPipe /\ pipe' # NoPipe /\ PipeShape'
        /\ pipe'.volume = pipe.volume /\ pipe'.path = pipe.path
    BY PipesDiffer DEF Moves, PipeShape
  <1>2. UNCHANGED <<settings, mode, audio, sink, stream, call>>
    BY DEF Moves, sinkVars
  <1>3. SinkShape' /\ Holders' /\ DrawnInTime'
    BY <1>1, <1>2 DEF PreviewInv, SinkShape, Holders, DrawnInTime, Current
  <1>4. Brought'
    BY <1>1, <1>2 DEF PreviewInv, Brought, Writes
  <1> QED  BY <1>1, <1>3, <1>4 DEF PreviewInv

LEMMA ReplacesInv ==
  ASSUME PreviewInv, Replaces
  PROVE  PreviewInv'
  <1>1. /\ UNCHANGED <<settings, mode, audio, stream, call>> /\ call = NoCall
        /\ sink' = NewSink(settings, mode) /\ stream = "idle"
        /\ \E path : pipe' \in {NewPipe(path), NoPipe}
    BY DEF Replaces, Drops, Stopped, PreviewInv, Holders
  <1>2. SinkShape' /\ Holders' /\ DrawnInTime'
    BY <1>1 DEF NewSink, NoCall, SinkShape, Holders, DrawnInTime
  <1>3. PipeShape'
    BY <1>1 DEF NewPipe, PreviewInv, PipeShape
  <1>4. Brought'
    <2>1. pipe' # NoPipe => pipe'.volume = Untouched  BY <1>1 DEF NewPipe
    <2> QED  BY <1>1, <2>1 DEF Brought, Writes, NewSink, NoCall
  <1> QED  BY <1>2, <1>3, <1>4 DEF PreviewInv

LEMMA SetsInv ==
  ASSUME PreviewInv, Sets
  PROVE  PreviewInv'
  <1>1. UNCHANGED <<pipe, audio, sink, stream>> /\ call = NoCall
    BY DEF Sets, SetEffectSettings, SetMode
  <1>2. \/ \E v : settings' = v /\ mode' = mode
              /\ IF pipe = NoPipe THEN call' = call ELSE CallSettings(v)
        \/ \E m : mode' = m /\ settings' = settings
              /\ IF pipe = NoPipe THEN call' = call ELSE CallPreviewMode(m)
    BY DEF Sets, SetEffectSettings, SetMode
  <1>3. call' = NoCall \/ (pipe # NoPipe /\ call'.pc = "write")
    BY <1>1, <1>2 DEF CallSettings, CallPreviewMode
  <1>4. NoCall.pc = "nocall" /\ NoCall.k = "nocall"
    BY DEF NoCall
  <1>5. SinkShape'
    BY <1>1, <1>2 DEF CallSettings, CallPreviewMode, PreviewInv, SinkShape
  <1>6. PipeShape'
    BY <1>1 DEF PreviewInv, PipeShape
  <1>7. Holders' /\ DrawnInTime'
    BY <1>1, <1>3, <1>4 DEF PreviewInv, Holders, DrawnInTime, Current
  <1>8. Brought'
    BY <1>1, <1>2, <1>4 DEF CallSettings, CallPreviewMode, PreviewInv, Brought, Writes
  <1> QED  BY <1>5, <1>6, <1>7, <1>8 DEF PreviewInv

LEMMA VolumeInv ==
  ASSUME PreviewInv, NEW gain, NEW preMute, NEW mute,
         SetVolume(gain, preMute, mute), call = NoCall
  PROVE  PreviewInv' /\ pipe' # NoPipe /\ pipe'.path = pipe.path /\ recent' = recent
  <1>1. /\ UNCHANGED <<settings, mode, sink, stream, call, recent>> /\ pipe # NoPipe
        /\ audio' = [gain |-> gain, preMute |-> preMute, mute |-> mute]
        /\ pipe' = [pipe EXCEPT !.volume = [gain |-> gain, mute |-> mute \/ gain = 0]]
    BY DEF SetVolume, sinkVars
  <1>2. /\ PipeShape' /\ pipe' # NoPipe /\ pipe'.path = pipe.path
        /\ pipe'.volume = [gain |-> gain, mute |-> mute \/ gain = 0]
    BY <1>1, PipesDiffer DEF PreviewInv, PipeShape
  <1>3. SinkShape' /\ Holders' /\ DrawnInTime'
    BY <1>1, <1>2 DEF PreviewInv, SinkShape, Holders, DrawnInTime, Current
  <1>4. Brought'
    BY <1>1, <1>2 DEF PreviewInv, Brought, Writes
  <1> QED  BY <1>1, <1>2, <1>3, <1>4 DEF PreviewInv

\* What drawing and locking do to the sink.
LEMMA SinkFields ==
  ASSUME SinkShape
  PROVE  /\ Draws => /\ sink' = [last |-> sink.last, settings |-> sink.settings, mode |-> sink.mode,
                                 holder |-> "none", failed |-> FALSE,
                                 tex |-> [f |-> sink.last, s |-> sink.settings, m |-> sink.mode]]
         /\ FailsToDraw => /\ sink' = [last |-> sink.last, settings |-> sink.settings,
                                       mode |-> sink.mode, holder |-> "none", failed |-> TRUE,
                                       tex |-> sink.tex]
         /\ \A who : Lock(who) =>
               /\ sink.holder = "none"
               /\ sink' = [last |-> sink.last, settings |-> sink.settings, mode |-> sink.mode,
                           holder |-> who, failed |-> sink.failed, tex |-> sink.tex]
  <1>1. ASSUME Draws
        PROVE  sink' = [last |-> sink.last, settings |-> sink.settings, mode |-> sink.mode,
                        holder |-> "none", failed |-> FALSE,
                        tex |-> [f |-> sink.last, s |-> sink.settings, m |-> sink.mode]]
    BY <1>1 DEF Draws, SinkShape
  <1>2. ASSUME FailsToDraw
        PROVE  sink' = [last |-> sink.last, settings |-> sink.settings, mode |-> sink.mode,
                        holder |-> "none", failed |-> TRUE, tex |-> sink.tex]
    BY <1>2 DEF FailsToDraw, SinkShape
  <1>3. ASSUME NEW who, Lock(who)
        PROVE  /\ sink.holder = "none"
               /\ sink' = [last |-> sink.last, settings |-> sink.settings, mode |-> sink.mode,
                           holder |-> who, failed |-> sink.failed, tex |-> sink.tex]
    BY <1>3 DEF Lock, SinkShape
  <1> QED  BY <1>1, <1>2, <1>3

LEMMA FrameInv ==
  ASSUME PreviewInv, Frame
  PROVE  PreviewInv'
  <1>1. UNCHANGED <<pipe, settings, mode, audio, call>> /\ pipe # NoPipe
    BY DEF Frame, ShowFrame, StreamUpdate
  <1>2. SinkShape' /\ Holders' /\ DrawnInTime' /\ sink'.settings = sink.settings /\ sink'.mode = sink.mode
    <2>1. CASE \E f : ShowFrame(f)
      BY <1>1, <2>1 DEF ShowFrame, PreviewInv, SinkShape, Holders, DrawnInTime, Current
    <2>2. CASE stream = "update" /\ Lock("stream") /\ stream' = "draw"
      BY <1>1, <2>2, SinkFields DEF PreviewInv, SinkShape, Holders, DrawnInTime
    <2>3. CASE stream = "draw" /\ Draws /\ stream' = "idle"
      BY <1>1, <2>3, SinkFields DEF PreviewInv, SinkShape, Holders, DrawnInTime, Current
    <2>4. CASE stream = "draw" /\ FailsToDraw /\ stream' = "idle"
      BY <1>1, <2>4, SinkFields DEF PreviewInv, SinkShape, Holders, DrawnInTime
    <2> QED  BY <2>1, <2>2, <2>3, <2>4 DEF Frame, StreamUpdate
  <1>3. PipeShape' /\ Brought'
    BY <1>1, <1>2 DEF PreviewInv, PipeShape, Brought, Writes
  <1> QED  BY <1>2, <1>3 DEF PreviewInv

LEMMA CallInv ==
  ASSUME PreviewInv, UiCall
  PROVE  PreviewInv'
  <1>1. UNCHANGED <<pipe, settings, mode, audio, stream>>
    BY DEF UiCall, previewVars, SetSettings, SetPreviewMode, UiUpdate
  <1>2. pipe # NoPipe /\ call # NoCall
    BY DEF UiCall, SetSettings, SetPreviewMode, UiUpdate, PreviewInv, Holders, NoCall
  <1>3. NoCall.pc = "nocall" /\ NoCall.k = "nocall"
    BY DEF NoCall
  <1>4. SinkShape' /\ Holders' /\ DrawnInTime' /\ Brought'
    <2>1. CASE SetSettings
      <3>1. /\ call = [k |-> "settings", settings |-> call.settings, pc |-> "write"]
            /\ call' = [k |-> "settings", settings |-> call.settings, pc |-> "update"]
            /\ sink' = [last |-> sink.last, settings |-> call.settings, mode |-> sink.mode,
                        holder |-> sink.holder, failed |-> sink.failed, tex |-> sink.tex]
        BY <1>2, <2>1 DEF SetSettings, PreviewInv, SinkShape
      <3> QED  BY <1>1, <1>2, <3>1 DEF PreviewInv, SinkShape, Holders, DrawnInTime, Brought, Writes
    <2>2. CASE SetPreviewMode
      <3>1. /\ call = [k |-> "mode", mode |-> call.mode, pc |-> "write"]
            /\ call' = [k |-> "mode", mode |-> call.mode, pc |-> "update"]
            /\ sink' = [last |-> sink.last, settings |-> sink.settings, mode |-> call.mode,
                        holder |-> sink.holder, failed |-> sink.failed, tex |-> sink.tex]
        BY <1>2, <2>2 DEF SetPreviewMode, PreviewInv, SinkShape
      <3> QED  BY <1>1, <1>2, <3>1 DEF PreviewInv, SinkShape, Holders, DrawnInTime, Brought, Writes
    <2>3. CASE call.pc = "update" /\ Lock("ui") /\ call' = [call EXCEPT !.pc = "draw"]
      <3>1. call' \in {[k |-> "settings", settings |-> call'.settings, pc |-> "draw"],
                       [k |-> "mode", mode |-> call'.mode, pc |-> "draw"]}
        BY <1>2, <2>3 DEF PreviewInv, SinkShape
      <3>2. call'.pc = "draw"  BY <3>1
      <3> QED  BY <1>1, <1>2, <2>3, <3>1, <3>2, SinkFields
               DEF PreviewInv, SinkShape, Holders, DrawnInTime, Brought, Writes
    <2>4. CASE call.pc = "update" /\ Nothing /\ call' = NoCall
      BY <1>1, <1>2, <1>3, <2>4 DEF Nothing, PreviewInv, SinkShape, Holders, DrawnInTime, Brought, Writes
    <2>5. CASE call.pc = "draw" /\ Draws /\ call' = NoCall
      BY <1>1, <1>2, <1>3, <2>5, SinkFields
      DEF PreviewInv, SinkShape, Holders, DrawnInTime, Current, Brought, Writes
    <2> QED  BY <2>1, <2>2, <2>3, <2>4, <2>5 DEF UiCall, UiUpdate
  <1>5. PipeShape'
    BY <1>1 DEF PreviewInv, PipeShape
  <1> QED  BY <1>4, <1>5 DEF PreviewInv

LEMMA StaysInv ==
  ASSUME PreviewInv, Stays
  PROVE  PreviewInv'
  <1>1. UNCHANGED <<pipe, settings, mode, audio, sink, stream, call>>
    BY DEF Stays, sinkVars
  <1> QED  BY <1>1 DEF PreviewInv, SinkShape, PipeShape, Holders, DrawnInTime, Current,
                      Brought, Writes

LEMMA NextPreview ==
  ASSUME PreviewInv, [Next]_vars
  PROVE  PreviewInv'
  <1>1. PreviewStep  BY StepPreview DEF PreviewInv
  <1> QED  BY <1>1, StaysInv, MovesInv, ReplacesInv, SetsInv, VolumeInv, FrameInv, CallInv DEF PreviewStep

LEMMA PreviewInvHolds == Spec => []PreviewInv
  <1>1. PreviewInv /\ [Next]_vars => PreviewInv'  BY NextPreview
  <1> QED  BY InitPreview, <1>1, PTL DEF Spec

-----------------------------------------------------------------------------
\* What the preview's texture shows once nobody is drawing it is the last frame,
\* in the mode and with the settings that were set last, whichever thread drew
\* it: the streaming thread's frame and the interface's change never cancel
\* each other.
THEOREM TextureCurrentHolds == Spec => []TextureCurrent
  <1>1. PreviewInv => TextureCurrent
    BY DEF PreviewInv, DrawnInTime, Current, TextureCurrent, NoCall
  <1> QED  BY PreviewInvHolds, <1>1, PTL

\* The preview never shows other settings, another mode or another volume than
\* the application does, however they were changed and whenever the media was
\* loaded.
THEOREM SinkFollowsAppHolds == Spec => []SinkFollowsApp
  <1>1. PreviewInv => SinkFollowsApp
    BY DEF PreviewInv, Brought, Writes, SinkFollowsApp, NoCall
  <1> QED  BY PreviewInvHolds, <1>1, PTL

-----------------------------------------------------------------------------
(* The recent files. *)

Once(s) == \A i, j \in DOMAIN s : s[i] = s[j] => i = j
Listed(s) == (\E S : s \in Seq(S)) /\ Len(s) <= RecentLimit /\ Once(s)
RecentInv == Listed(recent) /\ (pipe # NoPipe => Len(recent) > 0 /\ recent[1] = pipe.path)

\* A file in front of others that do not name it.
LEMMA InFront ==
  ASSUME NEW S, NEW s \in Seq(S), NEW path, NEW t, \E T : t \in Seq(T),
         Len(t) <= RecentLimit, Len(t) > 0, t[1] = path,
         \A i \in 2 .. Len(t) : t[i] # path,
         \A i, j \in 2 .. Len(t) : t[i] = t[j] => i = j
  PROVE  Listed(t) /\ Len(t) > 0 /\ t[1] = path
  <1>1. Len(t) \in Nat /\ DOMAIN t = 1 .. Len(t)  BY LenProperties
  <1>2. \A i \in DOMAIN t : i = 1 \/ i \in 2 .. Len(t)  BY <1>1
  <1>3. Once(t)  BY <1>1, <1>2 DEF Once
  <1> QED  BY <1>3 DEF Listed

LEMMA RememberedListed ==
  ASSUME NEW path, Listed(recent)
  PROVE  Listed(Remembered(path)) /\ Len(Remembered(path)) > 0 /\ Remembered(path)[1] = path
  <1>1. PICK S : recent \in Seq(S)  BY DEF Listed
  <1> DEFINE T == S \cup {path}
             N == Len(recent)
             one == <<path>>
  <1>2. recent \in Seq(T) /\ one \in Seq(T) /\ Len(one) = 1 /\ one[1] = path
    BY <1>1, SeqMonotonic, S \subseteq T
  <1>3. N \in Nat /\ DOMAIN recent = 1 .. N /\ N <= RecentLimit /\ RecentLimit \in Nat \ {0}
    BY <1>1, LenProperties, RecentAssumption DEF Listed
  <1> HIDE DEF T, one
  <1>4. CASE path \notin ToSet(recent)
    <2> DEFINE all == one \o recent
               L == IF N < RecentLimit THEN N + 1 ELSE RecentLimit
               t == SubSeq(all, 1, L)
    <2>1. L \in Nat \ {0} /\ L <= N + 1 /\ L <= RecentLimit  BY <1>3
    <2>2. all \in Seq(T) /\ Len(all) = 1 + N
          /\ \A i \in 1 .. 1 + N : all[i] = IF i <= 1 THEN one[i] ELSE recent[i - 1]
      <3>1. /\ all \in Seq(T)
            /\ Len(all) = Len(one) + Len(recent)
            /\ \A i \in 1 .. Len(one) + Len(recent) :
                 all[i] = IF i <= Len(one) THEN one[i] ELSE recent[i - Len(one)]
        BY <1>2, ConcatProperties
      <3> HIDE DEF all
      <3> QED  BY <1>2, <3>1
    <2> HIDE DEF L, all
    <2>3. \A i \in 1 .. L : all[i] \in T
      <3>1. 1 .. L \subseteq DOMAIN all  BY <1>3, <2>1, <2>2, LenProperties
      <3> QED  BY <2>2, <3>1, Elements
    <2>4. t \in Seq(T) /\ Len(t) = L /\ \A i \in 1 .. L : t[i] = all[i]
      BY <2>1, <2>3, SubSeqProperties
    <2> HIDE DEF t
    <2>5. t[1] = path /\ \A i \in 2 .. L : t[i] = recent[i - 1] /\ i - 1 \in DOMAIN recent
      BY <1>2, <1>3, <2>1, <2>2, <2>4
    <2>6. \A i \in 2 .. L : t[i] # path
      BY <1>4, <2>5 DEF ToSet
    <2>7. \A i, j \in 2 .. L : t[i] = t[j] => i = j
      <3> SUFFICES ASSUME NEW i \in 2 .. L, NEW j \in 2 .. L, t[i] = t[j] PROVE i = j
        OBVIOUS
      <3>1. i - 1 = j - 1  BY <2>5 DEF Listed, Once
      <3> QED  BY <2>1, <3>1
    <2>8. t = Remembered(path)  BY <1>4 DEF Remembered, t, L, all, one
    <2>9. Len(t) <= RecentLimit /\ Len(t) > 0  BY <2>1, <2>4
    <2>10. Listed(t) /\ Len(t) > 0 /\ t[1] = path
      BY <1>1, <2>4, <2>5, <2>6, <2>7, <2>9, InFront
    <2> QED  BY <2>8, <2>10
  <1>5. CASE path \in ToSet(recent)
    <2> DEFINE I == {i \in DOMAIN recent : recent[i] # path}
               K == Cardinality(I)
               k == Kept(recent, I)
               t == one \o k
    <2>1. K \in Nat /\ K < N
      <3>1. IsFiniteSet(1 .. N) /\ Cardinality(1 .. N) = N
        <4> HIDE DEF N
        <4>1. N \in Int /\ 1 \in Int  BY <1>3
        <4>2. /\ IsFiniteSet(1 .. N)
              /\ Cardinality(1 .. N) = IF 1 > N THEN 0 ELSE N - 1 + 1
          BY <4>1, FS_Interval
        <4> QED  BY <1>3, <4>2
      <3>2. I \in SUBSET (1 .. N) /\ I # 1 .. N  BY <1>3, <1>5 DEF ToSet
      <3>3. K <= N /\ K # N  BY <3>1, <3>2, FS_Subset
      <3>4. K \in Nat  BY <3>1, <3>2, FS_Subset, FS_CardinalityType
      <3> QED  BY <1>3, <3>3, <3>4
    <2>2. PICK at \in [1 .. K -> I] : /\ k = [n \in 1 .. K |-> recent[at[n]]]
                                      /\ \A m, n \in 1 .. K : at[m] = at[n] => m = n
      <3>1. I \subseteq DOMAIN recent  OBVIOUS
      <3> HIDE DEF I
      <3> QED  BY <1>1, <3>1, KeptItems
    <2>3. \A n \in 1 .. K : k[n] = recent[at[n]] /\ at[n] \in DOMAIN recent /\ recent[at[n]] # path
      BY <2>2
    <2>4. \A m, n \in 1 .. K : k[m] = k[n] => m = n
      BY <2>2, <2>3 DEF Listed, Once
    <2>5. k \in Seq(T) /\ Len(k) = K
      <3>1. k = [n \in 1 .. K |-> recent[at[n]]]  BY <2>2
      <3>2. \A i \in DOMAIN recent : recent[i] \in T  BY <1>2, Elements
      <3>3. \A n \in 1 .. K : recent[at[n]] \in T  BY <2>3, <3>2
      <3> HIDE DEF K, k
      <3>4. k \in [1 .. K -> T]  BY <3>1, <3>3
      <3> QED  BY <2>1, <3>4, FunctionIsSeq
    <2> HIDE DEF K, k, I
    <2>6. t \in Seq(T) /\ Len(t) = 1 + K
          /\ \A i \in 1 .. 1 + K : t[i] = IF i <= 1 THEN one[i] ELSE k[i - 1]
      <3>1. /\ t \in Seq(T)
            /\ Len(t) = Len(one) + Len(k)
            /\ \A i \in 1 .. Len(one) + Len(k) :
                 t[i] = IF i <= Len(one) THEN one[i] ELSE k[i - Len(one)]
        BY <1>2, <2>5, ConcatProperties
      <3> HIDE DEF t
      <3> QED  BY <1>2, <2>5, <3>1
    <2> HIDE DEF t
    <2>7. t[1] = path /\ \A i \in 2 .. 1 + K : t[i] = k[i - 1] /\ i - 1 \in 1 .. K
      BY <1>2, <2>1, <2>6
    <2>8. \A i \in 2 .. 1 + K : t[i] # path
      BY <2>3, <2>7
    <2>9. \A i, j \in 2 .. 1 + K : t[i] = t[j] => i = j
      <3> SUFFICES ASSUME NEW i \in 2 .. 1 + K, NEW j \in 2 .. 1 + K, t[i] = t[j] PROVE i = j
        OBVIOUS
      <3>1. i - 1 \in 1 .. K /\ j - 1 \in 1 .. K /\ k[i - 1] = k[j - 1]  BY <2>7
      <3>2. i - 1 = j - 1  BY <2>4, <3>1
      <3> QED  BY <2>1, <3>2
    <2>10. t = Remembered(path)  BY <1>5 DEF Remembered, t, k, I, one
    <2>11. Len(t) <= RecentLimit /\ Len(t) > 0  BY <1>3, <2>1, <2>6
    <2>12. Listed(t) /\ Len(t) > 0 /\ t[1] = path
      BY <1>1, <2>6, <2>7, <2>8, <2>9, <2>11, InFront
    <2> QED  BY <2>10, <2>12
  <1> QED  BY <1>4, <1>5

LEMMA InitRecent == Init => RecentInv
  <1> SUFFICES ASSUME Init PROVE RecentInv  OBVIOUS
  <1> DEFINE path == CHOOSE m \in Media : TRUE
             S == {path, "older"}
  <1>1. path \in Media  BY MediaAssumption
  <1>2. recent = <<path, "older">> /\ (pipe # NoPipe => pipe.path = path)
    BY DEF Init, PreviewInit, NewPipe, PlayingPipe
  <1>3. path # "older"  BY <1>1, MediaAssumption
  <1> HIDE DEF path
  <1>4. <<path, "older">> \in Seq(S) /\ Len(<<path, "older">>) = 2
        /\ <<path, "older">>[1] = path /\ <<path, "older">>[2] = "older"
        /\ DOMAIN <<path, "older">> = {1, 2}
    OBVIOUS
  <1>5. Once(recent)  BY <1>2, <1>3, <1>4 DEF Once
  <1>6. Listed(recent)  BY <1>2, <1>4, <1>5, RecentAssumption DEF Listed
  <1> QED  BY <1>2, <1>4, <1>6 DEF RecentInv

LEMMA NextRecent ==
  ASSUME PreviewInv, RecentInv, [Next]_vars
  PROVE  RecentInv'
  <1>1. PreviewStep  BY StepPreview DEF PreviewInv
  <1>2. CASE UNCHANGED <<pipe, recent>>
    BY <1>2 DEF RecentInv, Listed, Once
  <1>3. CASE pipe # NoPipe /\ pipe' # NoPipe /\ pipe'.path = pipe.path /\ recent' = recent
    BY <1>3 DEF RecentInv, Listed, Once
  <1>4. CASE Replaces
    <2>1. CASE pipe' = NoPipe /\ recent' = recent
      BY <2>1 DEF RecentInv, Listed, Once
    <2>2. CASE \E path : pipe' = NewPipe(path) /\ recent' = Remembered(path)
      <3>1. PICK path : pipe' = NewPipe(path) /\ recent' = Remembered(path)  BY <2>2
      <3>2. pipe'.path = path  BY <3>1 DEF NewPipe
      <3>3. /\ Listed(Remembered(path)) /\ Len(Remembered(path)) > 0
            /\ Remembered(path)[1] = path
        BY RememberedListed DEF RecentInv
      <3>4. Listed(recent)'
        BY <3>1, <3>3 DEF Listed, Once
      <3> QED  BY <3>1, <3>2, <3>3, <3>4 DEF RecentInv
    <2> QED  BY <1>4, <2>1, <2>2 DEF Replaces, Drops
  <1>5. CASE Moves
    BY <1>3, <1>5, MovesInv DEF Moves
  <1>6. CASE \E gain, preMute, mute : SetVolume(gain, preMute, mute) /\ call = NoCall
    BY <1>3, <1>6, VolumeInv DEF SetVolume
  <1>7. CASE Stays \/ Sets \/ Frame \/ UiCall
    BY <1>2, <1>7 DEF Stays, Sets, SetEffectSettings, SetMode, Frame, UiCall, previewVars
  <1> QED  BY <1>1, <1>4, <1>5, <1>6, <1>7 DEF PreviewStep

\* The recent files name no file twice and stay within their limit, and the
\* media that is loaded comes first, for any limit and any media.
THEOREM RecentFilesOrderedHolds == Spec => []RecentFilesOrdered
  <1>1. RecentInv => RecentFilesOrdered
    BY DEF RecentInv, Listed, Once, RecentFilesOrdered
  <1>2. PreviewInv /\ RecentInv /\ [Next]_vars => RecentInv'  BY NextRecent
  <1> QED  BY InitRecent, PreviewInvHolds, <1>1, <1>2, PTL DEF Spec

-----------------------------------------------------------------------------
(* The futures, by the names of their tasks: a function that is waiting to be *)
(* run is still its task's.                                                  *)

Live == Ids(tasks, DOMAIN tasks) \cup Ids(fns, DOMAIN fns)

Fut == [t \in Live |->
          IF t \in Ids(tasks, DOMAIN tasks)
          THEN tasks[CHOOSE i \in DOMAIN tasks : tasks[i].id = t].fut
          ELSE fns[CHOOSE i \in DOMAIN fns : fns[i].id = t].fut]

LEMMA FutOf ==
  ASSUME ExecInv
  PROVE  /\ \A i \in DOMAIN tasks : tasks[i].id \in Live /\ Fut[tasks[i].id] = tasks[i].fut
         /\ \A i \in DOMAIN fns : fns[i].id \in Live /\ Fut[fns[i].id] = fns[i].fut
         /\ \A t \in Live : \/ \E i \in DOMAIN tasks : tasks[i].id = t
                            \/ \E i \in DOMAIN fns : fns[i].id = t
  <1>1. \A i \in DOMAIN tasks : tasks[i].id \in Live /\ Fut[tasks[i].id] = tasks[i].fut
    <2> TAKE i \in DOMAIN tasks
    <2>1. \A j \in DOMAIN tasks : tasks[j].id = tasks[i].id => j = i  BY DEF ExecInv, OnceEach
    <2>2. (CHOOSE j \in DOMAIN tasks : tasks[j].id = tasks[i].id) = i  BY <2>1
    <2> QED  BY <2>2 DEF Live, Fut, Ids
  <1>2. \A i \in DOMAIN fns : fns[i].id \in Live /\ Fut[fns[i].id] = fns[i].fut
    <2> TAKE i \in DOMAIN fns
    <2>1. \A j \in DOMAIN fns : fns[j].id = fns[i].id => j = i  BY DEF ExecInv, OnceEach
    <2>2. (CHOOSE j \in DOMAIN fns : fns[j].id = fns[i].id) = i  BY <2>1
    <2>3. fns[i].id \notin Ids(tasks, DOMAIN tasks)  BY DEF ExecInv, OnceEach, Ids
    <2> QED  BY <2>2, <2>3 DEF Live, Fut, Ids
  <1> QED  BY <1>1, <1>2 DEF Live, Ids

LEMMA FutOfNext ==
  ASSUME ExecInv'
  PROVE  /\ \A i \in DOMAIN tasks' : tasks'[i].id \in Live' /\ Fut'[tasks'[i].id] = tasks'[i].fut
         /\ \A i \in DOMAIN fns' : fns'[i].id \in Live' /\ Fut'[fns'[i].id] = fns'[i].fut
         /\ \A t \in Live' : \/ \E i \in DOMAIN tasks' : tasks'[i].id = t
                             \/ \E i \in DOMAIN fns' : fns'[i].id = t
  <1>1. \A i \in DOMAIN tasks' : tasks'[i].id \in Live' /\ Fut'[tasks'[i].id] = tasks'[i].fut
    <2> TAKE i \in DOMAIN tasks'
    <2>1. \A j \in DOMAIN tasks' : tasks'[j].id = tasks'[i].id => j = i  BY DEF ExecInv, OnceEach
    <2>2. (CHOOSE j \in DOMAIN tasks' : tasks'[j].id = tasks'[i].id) = i  BY <2>1
    <2> QED  BY <2>2 DEF Live, Fut, Ids
  <1>2. \A i \in DOMAIN fns' : fns'[i].id \in Live' /\ Fut'[fns'[i].id] = fns'[i].fut
    <2> TAKE i \in DOMAIN fns'
    <2>1. \A j \in DOMAIN fns' : fns'[j].id = fns'[i].id => j = i  BY DEF ExecInv, OnceEach
    <2>2. (CHOOSE j \in DOMAIN fns' : fns'[j].id = fns'[i].id) = i  BY <2>1
    <2>3. fns'[i].id \notin Ids(tasks', DOMAIN tasks')  BY DEF ExecInv, OnceEach, Ids
    <2> QED  BY <2>2, <2>3 DEF Live, Fut, Ids
  <1> QED  BY <1>1, <1>2 DEF Live, Ids

\* Tasks have the names of the spawns so far.
LEMMA LiveNames == ExecInv => spawned \in Nat /\ Live \subseteq 1 .. spawned
  <1> SUFFICES ASSUME ExecInv PROVE spawned \in Nat /\ Live \subseteq 1 .. spawned  OBVIOUS
  <1>1. PICK F : tasks \in Seq(Items(F, spawned)) /\ fns \in Seq(Items(F, spawned))
    BY DEF ExecInv, TaskTypes
  <1> QED  BY <1>1, ItemsOf DEF Live, Ids, ExecInv, TaskTypes

\* What a step does to the futures: task t goes on as f,
Becomes(t, f) ==
    /\ t \in Live /\ Live' = Live
    /\ Fut'[t] = f /\ \A u \in Live : u # t => Fut'[u] = Fut[u]
\* tasks in gone are over, and those of futs begin.
Turns(gone, futs) ==
    /\ gone \subseteq Live /\ Len(futs) \in Nat
    /\ Live' = (Live \ gone) \cup (spawned + 1) .. (spawned + Len(futs))
    /\ \A u \in Live \ gone : Fut'[u] = Fut[u]
    /\ \A j \in 1 .. Len(futs) : Fut'[spawned + j] = futs[j].fut

LEMMA Touched ==
  ASSUME ExecInv, ExecInv', NEW i \in DOMAIN tasks, NEW fut,
         \/ \E st \in {"blocked", "done"} : Polls(i, st, fut)
         \/ Wakes(i, fut) \/ Marks(i, fut)
  PROVE  Becomes(tasks[i].id, fut) /\ Fut[tasks[i].id] = tasks[i].fut
  <1> DEFINE t == tasks[i].id
  <1>1. /\ DOMAIN tasks' = DOMAIN tasks /\ fns' = fns
        /\ \A j \in DOMAIN tasks : /\ tasks'[j].id = tasks[j].id
                                   /\ j # i => tasks'[j] = tasks[j]
        /\ tasks'[i].fut = fut
    BY TouchFacts
  <1>2. Live' = Live  BY <1>1 DEF Live, Ids
  <1>3. t \in Live /\ Fut[t] = tasks[i].fut  BY FutOf
  <1>4. Fut'[t] = fut  BY <1>1, FutOfNext
  <1>5. \A u \in Live : u # t => Fut'[u] = Fut[u]
    <2> SUFFICES ASSUME NEW u \in Live, u # t PROVE Fut'[u] = Fut[u]  OBVIOUS
    <2>1. CASE \E j \in DOMAIN tasks : tasks[j].id = u
      BY <1>1, <2>1, FutOf, FutOfNext
    <2>2. CASE \E j \in DOMAIN fns : fns[j].id = u
      BY <1>1, <2>2, FutOf, FutOfNext
    <2> QED  BY <2>1, <2>2, FutOf
  <1> QED  BY <1>2, <1>3, <1>4, <1>5 DEF Becomes

\* What the futures spawned are.
LEMMA GrownFuts ==
  ASSUME ExecInv, NEW futs, Futs(futs), SpawnTo(tasks, futs)
  PROVE  /\ Len(futs) \in Nat /\ spawned \in Nat
         /\ DOMAIN tasks \subseteq DOMAIN tasks'
         /\ \A j \in DOMAIN tasks : tasks'[j] = tasks[j]
         /\ \A j \in 1 .. Len(futs) : \E i \in DOMAIN tasks' \ DOMAIN tasks :
                tasks'[i].id = spawned + j /\ tasks'[i].fut = futs[j].fut
         /\ \A i \in DOMAIN tasks' \ DOMAIN tasks : \E j \in 1 .. Len(futs) : tasks'[i].id = spawned + j
  <1>1. PICK F : tasks \in Seq(Items(F, spawned))  BY DEF ExecInv, TaskTypes
  <1>2. spawned \in Nat /\ tasks' = Spawned(tasks, futs)  BY DEF ExecInv, TaskTypes, SpawnTo
  <1> DEFINE N == Len(tasks)
             M == Len(futs)
  <1>3. /\ M \in Nat
        /\ DOMAIN Spawned(tasks, futs) = 1 .. (N + M) /\ DOMAIN tasks = 1 .. N
        /\ \A j \in 1 .. N : Spawned(tasks, futs)[j] = tasks[j]
        /\ \A j \in 1 .. M : /\ Spawned(tasks, futs)[N + j].id = spawned + j
                             /\ Spawned(tasks, futs)[N + j].fut = futs[j].fut
    BY <1>1, <1>2, TasksGrow
  <1>4. N \in Nat  BY <1>1, LenProperties
  <1> HIDE DEF N, M
  <1>5. \A j \in 1 .. M : N + j \in DOMAIN tasks' \ DOMAIN tasks
    BY <1>2, <1>3, <1>4
  <1>6. \A i \in DOMAIN tasks' \ DOMAIN tasks : \E j \in 1 .. M : tasks'[i].id = spawned + j
    <2> TAKE i \in DOMAIN tasks' \ DOMAIN tasks
    <2>1. i - N \in 1 .. M /\ i = N + (i - N)  BY <1>2, <1>3, <1>4
    <2> QED  BY <1>2, <1>3, <2>1
  <1> QED  BY <1>2, <1>3, <1>4, <1>5, <1>6 DEF M

LEMMA SpawnedFuts ==
  ASSUME ExecInv, ExecInv', NEW futs, Futs(futs), SpawnTo(tasks, futs), fns' = fns
  PROVE  Turns({}, futs)
  <1> DEFINE New == (spawned + 1) .. (spawned + Len(futs))
  <1>1. /\ Len(futs) \in Nat /\ spawned \in Nat
        /\ DOMAIN tasks \subseteq DOMAIN tasks'
        /\ \A j \in DOMAIN tasks : tasks'[j] = tasks[j]
        /\ \A j \in 1 .. Len(futs) : \E i \in DOMAIN tasks' \ DOMAIN tasks :
                tasks'[i].id = spawned + j /\ tasks'[i].fut = futs[j].fut
        /\ \A i \in DOMAIN tasks' \ DOMAIN tasks : \E j \in 1 .. Len(futs) : tasks'[i].id = spawned + j
    BY GrownFuts
  <1>2. \A b \in New : \E j \in 1 .. Len(futs) : b = spawned + j
    <2> TAKE b \in New
    <2>1. b - spawned \in 1 .. Len(futs) /\ b = spawned + (b - spawned)  BY <1>1
    <2> QED  BY <2>1
  <1>3. \A j \in 1 .. Len(futs) : spawned + j \in New  BY <1>1
  <1> HIDE DEF New
  <1>4. Live' \subseteq Live \cup New
    BY <1>1, <1>3, FutOfNext, FutOf
  <1>5. Live \cup New \subseteq Live'
    BY <1>1, <1>2, FutOfNext, FutOf
  <1>6. \A u \in Live : Fut'[u] = Fut[u]
    BY <1>1, FutOfNext, FutOf
  <1>7. \A j \in 1 .. Len(futs) : Fut'[spawned + j] = futs[j].fut
    BY <1>1, FutOfNext
  <1> QED  BY <1>1, <1>4, <1>5, <1>6, <1>7 DEF Turns, New

\* The function that runs is the future of a task that is over then.
LEMMA RanFuts ==
  ASSUME ExecInv, ExecInv', NEW futs, Futs(futs), RunsFn(futs)
  PROVE  \E t \in Live : Fut[t] = Head(fns).fut /\ Turns({t}, futs)
  <1> DEFINE New == (spawned + 1) .. (spawned + Len(futs))
             t == fns[1].id
  <1>1. SpawnTo(tasks, futs) /\ fns' = Tail(fns) /\ ui = "run"  BY DEF RunsFn
  <1>2. PICK F : fns \in Seq(Items(F, spawned))  BY DEF ExecInv, TaskTypes
  <1>3. /\ fns # <<>> /\ Len(fns) \in Nat \ {0} /\ DOMAIN fns = 1 .. Len(fns)
        /\ DOMAIN fns' = 1 .. (Len(fns) - 1)
        /\ \A i \in DOMAIN fns' : fns'[i] = fns[i + 1]
    BY <1>1, <1>2, TailOf DEF ExecInv, TaskTypes
  <1>4. /\ Len(futs) \in Nat /\ spawned \in Nat
        /\ DOMAIN tasks \subseteq DOMAIN tasks'
        /\ \A j \in DOMAIN tasks : tasks'[j] = tasks[j]
        /\ \A j \in 1 .. Len(futs) : \E i \in DOMAIN tasks' \ DOMAIN tasks :
                tasks'[i].id = spawned + j /\ tasks'[i].fut = futs[j].fut
        /\ \A i \in DOMAIN tasks' \ DOMAIN tasks : \E j \in 1 .. Len(futs) : tasks'[i].id = spawned + j
    BY <1>1, GrownFuts
  <1>5. \A b \in New : \E j \in 1 .. Len(futs) : b = spawned + j
    <2> TAKE b \in New
    <2>1. b - spawned \in 1 .. Len(futs) /\ b = spawned + (b - spawned)  BY <1>4
    <2> QED  BY <2>1
  <1>6. \A j \in 1 .. Len(futs) : spawned + j \in New  BY <1>4
  <1>7. 1 \in DOMAIN fns /\ \A i \in DOMAIN fns' : i + 1 \in DOMAIN fns /\ i + 1 # 1
    BY <1>3
  <1>8. \A i \in DOMAIN fns : i # 1 => i - 1 \in DOMAIN fns' /\ (i - 1) + 1 = i
    BY <1>3
  <1>9. \A i \in DOMAIN fns : i # 1 => \E j \in DOMAIN fns' : fns'[j] = fns[i]
    BY <1>3, <1>8
  <1>10. \A i \in DOMAIN fns' : \E j \in DOMAIN fns : j # 1 /\ fns'[i] = fns[j]
    BY <1>3, <1>7
  <1>11. t \in Live /\ Fut[t] = fns[1].fut  BY <1>7, FutOf
  <1>12. Head(fns) = fns[1]  BY <1>2, <1>3, HeadTailProperties
  <1>13. \A i \in DOMAIN fns : fns[i].id = t => i = 1
    BY <1>7 DEF ExecInv, OnceEach
  <1>14. \A i \in DOMAIN tasks : tasks[i].id # t
    BY <1>7 DEF ExecInv, OnceEach
  <1>15. t \in 1 .. spawned  BY <1>11, LiveNames
  <1>16. t \notin New  BY <1>4, <1>15
  <1> HIDE DEF New, t
  <1>17. Live' \subseteq (Live \ {t}) \cup New
    BY <1>4, <1>6, <1>10, <1>13, <1>14, FutOf, FutOfNext
  <1>18. \A u \in Live \ {t} : u \in Live' /\ Fut'[u] = Fut[u]
    <2> TAKE u \in Live \ {t}
    <2>1. CASE \E i \in DOMAIN tasks : tasks[i].id = u
      <3>1. PICK i \in DOMAIN tasks : tasks[i].id = u  BY <2>1
      <3>2. i \in DOMAIN tasks' /\ tasks'[i] = tasks[i]  BY <1>4
      <3>3. Fut[u] = tasks[i].fut  BY <3>1, FutOf
      <3> QED  BY <3>1, <3>2, <3>3, FutOfNext
    <2>2. CASE \E i \in DOMAIN fns : fns[i].id = u
      <3>1. PICK i \in DOMAIN fns : fns[i].id = u  BY <2>2
      <3>2. i # 1  BY <3>1 DEF t
      <3>3. PICK j \in DOMAIN fns' : fns'[j] = fns[i]  BY <1>9, <3>2
      <3>4. Fut[u] = fns[i].fut  BY <3>1, FutOf
      <3> QED  BY <3>1, <3>3, <3>4, FutOfNext
    <2> QED  BY <2>1, <2>2, FutOf
  <1>19. New \subseteq Live'
    BY <1>4, <1>5, FutOfNext
  <1>20. \A j \in 1 .. Len(futs) : Fut'[spawned + j] = futs[j].fut
    BY <1>4, FutOfNext
  <1>21. Turns({t}, futs)  BY <1>4, <1>11, <1>17, <1>18, <1>19, <1>20 DEF Turns, New
  <1> QED  BY <1>11, <1>12, <1>21

\* Only tasks without a function are over when tick collects the functions.
LEMMA CollectedFuts ==
  ASSUME ExecInv, ExecInv', Collect
  PROVE  \E gone : Turns(gone, <<>>) /\ \A t \in gone : Fut[t] = NoFn
  <1>1. PICK F : tasks \in Seq(Items(F, spawned)) /\ fns \in Seq(Items(F, spawned))
    BY DEF ExecInv, TaskTypes
  <1> DEFINE T == Items(F, spawned)
             done == {i \in DOMAIN tasks : tasks[i].st = "done"}
             found == {i \in done : tasks[i].fut # NoFn}
             left == DOMAIN tasks \ done
             gone == {t \in Live : \E i \in DOMAIN tasks : tasks[i].id = t /\ i \notin found \cup left}
  <1>2. tasks' = Kept(tasks, left) /\ fns' = Kept(tasks, found) /\ ui = "poll"
    BY DEF Collect
  <1>3. fns = <<>> /\ DOMAIN fns = {}  BY <1>2 DEF ExecInv, TaskTypes
  <1>4. found \in SUBSET DOMAIN tasks /\ left \in SUBSET DOMAIN tasks
        /\ \A i \in DOMAIN tasks : i \notin found \cup left => tasks[i].fut = NoFn
    OBVIOUS
  <1> HIDE DEF found, left, T
  <1>5. /\ \A n \in DOMAIN fns' : \E i \in found : fns'[n] = tasks[i]
        /\ \A i \in found : \E n \in DOMAIN fns' : fns'[n] = tasks[i]
    BY <1>1, <1>2, <1>4, KeptSeq DEF T
  <1>6. /\ \A n \in DOMAIN tasks' : \E i \in left : tasks'[n] = tasks[i]
        /\ \A i \in left : \E n \in DOMAIN tasks' : tasks'[n] = tasks[i]
    <2>1. tasks \in Seq(T)  BY <1>1 DEF T
    <2> QED  BY <1>2, <1>4, <2>1, KeptSeq
  <1>7. \A i, j \in DOMAIN tasks : tasks[i].id = tasks[j].id => i = j
    BY DEF ExecInv, OnceEach
  <1>8. \A t \in Live : \E i \in DOMAIN tasks : tasks[i].id = t
    BY <1>3, FutOf
  <1>9. gone \in SUBSET Live /\ \A t \in gone : Fut[t] = NoFn
    BY <1>4, FutOf
  <1>10. \A i \in found \cup left : tasks[i].id \in Live \ gone
    BY <1>4, <1>7, FutOf
  <1>11. \A t \in Live \ gone : \E i \in found \cup left : tasks[i].id = t
    BY <1>8
  <1> HIDE DEF gone
  <1>12. Live' \subseteq Live \ gone
    <2> SUFFICES ASSUME NEW t \in Live' PROVE t \in Live \ gone  OBVIOUS
    <2>1. CASE \E n \in DOMAIN tasks' : tasks'[n].id = t  BY <1>6, <1>10, <2>1
    <2>2. CASE \E n \in DOMAIN fns' : fns'[n].id = t  BY <1>5, <1>10, <2>2
    <2> QED  BY <2>1, <2>2, FutOfNext
  <1>13. \A u \in Live \ gone : u \in Live' /\ Fut'[u] = Fut[u]
    <2> TAKE u \in Live \ gone
    <2>1. PICK i \in found \cup left : tasks[i].id = u  BY <1>11
    <2>2. Fut[u] = tasks[i].fut  BY <1>4, <2>1, FutOf
    <2>3. CASE i \in left
      <3>1. PICK n \in DOMAIN tasks' : tasks'[n] = tasks[i]  BY <1>6, <2>3
      <3> QED  BY <2>1, <2>2, <3>1, FutOfNext
    <2>4. CASE i \in found
      <3>1. PICK n \in DOMAIN fns' : fns'[n] = tasks[i]  BY <1>5, <2>4
      <3> QED  BY <2>1, <2>2, <3>1, FutOfNext
    <2> QED  BY <2>1, <2>3, <2>4
  <1>14. \A u \in Live \ gone : Fut'[u] = Fut[u]  BY <1>13
  <1>15. Live' = Live \ gone  BY <1>12, <1>13
  <1>16. spawned \in Nat /\ (spawned + 1) .. (spawned + Len(<<>>)) = {} /\ 1 .. Len(<<>>) = {}
    BY LiveNames
  <1>17. Turns(gone, <<>>)  BY <1>9, <1>14, <1>15, <1>16 DEF Turns
  <1> QED  BY <1>9, <1>17

-----------------------------------------------------------------------------
(* The kinds of futures, and what they know. *)

Value == Versions \cup {NoFile}
AtType(a) == a = [dir |-> a.dir, name |-> a.name] /\ a.dir \in Dirs /\ a.name \in NamesOf(a.dir)
SelType(s) == s = [dir |-> s.dir, name |-> s.name, v |-> s.v] /\ s.dir \in Dirs /\ s.name \in NamesOf(s.dir)

Reloads(f) ==
    /\ f = [k |-> "reload", dir |-> f.dir, gen |-> f.gen, pc |-> f.pc, create |-> f.create]
    /\ f.dir \in Dirs /\ f.gen \in Nat
\* Only "Overwrite" writes outside of the directory it counts for.
Operates(f) ==
    /\ f = [k |-> "op", op |-> f.op, dir |-> f.dir, gen |-> f.gen, pc |-> f.pc,
            a |-> f.a, b |-> f.b, v |-> f.v]
    /\ f.dir \in Dirs /\ f.gen \in Nat /\ AtType(f.a) /\ AtType(f.b) /\ f.v \in Value
    /\ f.op = "overwrite" => f.dir = "root"
    /\ f.op # "overwrite" => f.a.dir = f.dir /\ f.b.dir = f.dir
HasOperated(f) ==
    /\ f = [k |-> "opend", dir |-> f.dir, gen |-> f.gen, res |-> f.res, sel |-> f.sel]
    /\ f.dir \in Dirs /\ f.gen \in Nat /\ SelType(f.sel)
Loads(f) ==
    /\ f = [k |-> f.k, pc |-> f.pc, a |-> f.a, v |-> f.v] /\ f.k \in {"load", "loaded"}
    /\ AtType(f.a) /\ f.v \in Value
ReloadsKids(f) == f = [k |-> "kids", gen |-> f.gen, dir |-> "folder"] /\ f.gen \in Nat
Picks(f) == f = [k |-> f.k, path |-> f.path] /\ f.k \in {"recent", "picked", "media"}
Requests(f) ==
    \/ f = [k |-> f.k, src |-> f.src, id |-> f.id, pc |-> f.pc] /\ f.k \in {"render", "rendered"}
    \/ f = [k |-> f.k, src |-> f.src, id |-> f.id] /\ f.k \in {"save", "saved"}
OfJob(f) == f = [k |-> "job", id |-> f.id, pc |-> f.pc] /\ f.pc \in {"start", "end"}
Plain(f) == f = [k |-> f.k] /\ f.k \in {"pick", "cancelled", "none", "fail"}

FutType(f) == \/ Reloads(f) \/ Operates(f) \/ HasOperated(f) \/ Loads(f) \/ ReloadsKids(f)
              \/ Picks(f) \/ Requests(f) \/ OfJob(f) \/ Plain(f)

LEMMA Kinds ==
  ASSUME NEW f, FutType(f)
  PROVE  /\ f.k = "reload" => Reloads(f)
         /\ f.k = "op" => Operates(f)
         /\ f.k = "opend" => HasOperated(f)
         /\ f.k \in {"load", "loaded"} => Loads(f)
         /\ f.k = "kids" => ReloadsKids(f)
         /\ f.k \in {"recent", "picked", "media"} => Picks(f)
         /\ f.k \in {"render", "rendered", "save", "saved"} => Requests(f)
         /\ f.k = "job" => OfJob(f)
BY DEF FutType, Reloads, Operates, HasOperated, Loads, ReloadsKids, Picks, Requests, OfJob, Plain

\* The presets pane, and what it shares with the rest.
PaneTypes ==
    /\ fs = [d \in Dirs |-> fs[d]] /\ \A d \in Dirs : fs[d] \in [NamesOf(d) -> Value]
    /\ listing = [d \in Dirs |-> listing[d]]
    /\ \A d \in Dirs :
          /\ listing[d] = [state |-> listing[d].state, entries |-> listing[d].entries,
                           active |-> listing[d].active, gen |-> listing[d].gen]
          /\ listing[d].state \in States /\ listing[d].entries \subseteq NamesOf(d)
          /\ listing[d].active \in Int /\ listing[d].gen \in Nat
    /\ SelType(selected)
    /\ settings \in Versions /\ mode \in Modes

FutTypes == \A t \in Live : FutType(Fut[t])
TypesInv == FutTypes /\ PaneTypes

TypedFuts(futs) == Futs(futs) /\ \A j \in 1 .. Len(futs) : FutType(futs[j].fut)

TypedStep ==
    \/ UNCHANGED <<tasks, fns>>
    \/ \E i \in DOMAIN tasks : \E st \in {"blocked", "done"} : \E fut : FutType(fut) /\ Polls(i, st, fut)
    \/ \E i \in DOMAIN tasks : \E fut : FutType(fut) /\ (Wakes(i, fut) \/ Marks(i, fut))
    \/ \E futs : TypedFuts(futs) /\ ((SpawnTo(tasks, futs) /\ fns' = fns) \/ RunsFn(futs))
    \/ Collect

LEMMA TypedOne ==
  ASSUME NEW fut, FutType(fut)
  PROVE  TypedFuts(<<>>) /\ TypedFuts(<<Ready(fut)>>) /\ TypedFuts(<<Blocked(fut)>>)
BY FutsEmpty, FutsOne DEF TypedFuts, Ready, Blocked

LEMMA TaskFut ==
  ASSUME ExecInv, FutTypes, NEW i \in DOMAIN tasks PROVE FutType(tasks[i].fut)
BY FutOf DEF FutTypes

LEMMA TypedPolls ==
  ASSUME ExecInv, TypesInv, PollTask PROVE TypedStep
  <1>1. PICK i \in DOMAIN tasks : TaskOf(i)  BY DEF PollTask
  <1> DEFINE f == tasks[i].fut
  <1>2. FutType(f)  BY TaskFut DEF TypesInv
  <1> SUFFICES \E st \in {"blocked", "done"} : \E fut : FutType(fut) /\ Polls(i, st, fut)
    BY DEF TypedStep
  <1>3. CASE PollReloadStart(i) \/ PollReloadCreated(i) \/ PollReloadFailed(i) \/ PollReloadRead(i)
    <2>1. Reloads(f)  BY <1>2, <1>3, Kinds DEF PollReloadStart, PollReloadCreated, PollReloadFailed, PollReloadRead
    <2>2. \A pc : Reloads([f EXCEPT !.pc = pc])  BY <2>1 DEF Reloads
    <2>3. Plain(Fail) /\ Plain(NoFn)  BY DEF Plain, Fail, NoFn
    <2>4. Plain(Kids(f)) \/ ReloadsKids(Kids(f))
      BY <2>3 DEF Kids, ReloadsKids, TypesInv, PaneTypes, Dirs
    <2> HIDE DEF f
    <2> QED  BY <1>3, <2>2, <2>3, <2>4 DEF PollReloadStart, PollReloadCreated, PollReloadFailed, PollReloadRead, FutType, f
  <1>4. CASE PollWrite(i) \/ PollInstall(i) \/ PollOpEnd(i)
    <2>1. Operates(f)  BY <1>2, <1>4, Kinds DEF PollWrite, PollInstall, PollOpEnd
    <2>2. \A pc : Operates([f EXCEPT !.pc = pc])  BY <2>1 DEF Operates
    <2>3. \A res : HasOperated(OpEnd(f, res))  BY <2>1 DEF Operates, HasOperated, OpEnd, AtType, SelType
    <2> HIDE DEF f
    <2> QED  BY <1>4, <2>2, <2>3 DEF PollWrite, PollInstall, PollOpEnd, FutType, f
  <1>5. CASE PollLoad(i)
    <2>1. Loads(f)  BY <1>2, <1>5, Kinds DEF PollLoad
    <2>2. (\A pc : Loads([f EXCEPT !.pc = pc])) /\ Loads([f EXCEPT !.k = "loaded"])  BY <2>1 DEF Loads
    <2> HIDE DEF f
    <2> QED  BY <1>5, <2>2 DEF PollLoad, FutType, f
  <1>6. CASE PollMedia(i)
    <2>1. Picks(f) \/ f.k = "cancelled"  BY <1>2, <1>6, Kinds DEF PollMedia
    <2>2. Picks(f) => Picks([f EXCEPT !.k = "media"])  BY DEF Picks
    <2>3. Plain(NoFn)  BY DEF Plain, NoFn
    <2> HIDE DEF f
    <2> QED  BY <1>6, <2>1, <2>2, <2>3 DEF PollMedia, FutType, f
  <1>7. CASE PollRender(i) \/ PollSave(i)
    <2>1. Requests(f)  BY <1>2, <1>7, Kinds DEF PollRender, PollSave
    <2>2. f.k = "render" => Requests([f EXCEPT !.pc = "looking"]) /\ Requests([f EXCEPT !.k = "rendered"])
      BY <2>1 DEF Requests
    <2>3. Requests([k |-> "rendered", src |-> f.src, id |-> f.id, pc |-> "empty"])  BY DEF Requests
    <2> HIDE DEF f
    <2> QED  BY <1>7, <2>2, <2>3 DEF PollRender, PollSave, FutType, f
  <1>8. CASE PollJob(i)
    <2>1. Plain(NoFn)  BY DEF Plain, NoFn
    <2> QED  BY <1>8, <2>1 DEF PollJob, FutType
  <1> QED  BY <1>1, <1>3, <1>4, <1>5, <1>6, <1>7, <1>8 DEF TaskOf

LEMMA HeadFut ==
  ASSUME ExecInv, FutTypes, ui = "run" PROVE FutType(Head(fns).fut)
  <1>1. PICK F : fns \in Seq(Items(F, spawned))  BY DEF ExecInv, TaskTypes
  <1>2. fns # <<>> /\ 1 \in DOMAIN fns  BY <1>1, TailOf DEF ExecInv, TaskTypes
  <1>3. Head(fns) = fns[1]  BY <1>1, <1>2, HeadTailProperties
  <1> QED  BY <1>2, <1>3, FutOf DEF FutTypes

LEMMA TypedRuns ==
  ASSUME ExecInv, TypesInv, RunFn PROVE TypedStep
  <1> DEFINE f == Head(fns).fut
  <1>1. FutType(f)  BY HeadFut DEF RunFn, TypesInv
  <1>2. TypedFuts(<<>>)  BY FutsEmpty DEF TypedFuts
  <1>3. CASE RunKids
    <2> DEFINE g == [k |-> "reload", dir |-> f.dir, gen |-> f.gen, pc |-> "start", create |-> FALSE]
    <2>1. ReloadsKids(f)  BY <1>1, <1>3, Kinds DEF RunKids
    <2>2. FutType(g)  BY <2>1 DEF ReloadsKids, Reloads, FutType, Dirs
    <2>3. TypedFuts(<<Ready(g)>>)  BY <2>2, TypedOne
    <2> QED  BY <1>3, <2>3 DEF RunKids, TypedStep
  <1>4. CASE RunOpEnd
    <2>1. HasOperated(f)  BY <1>1, <1>4, Kinds DEF RunOpEnd
    <2> DEFINE g == [k |-> "reload", dir |-> f.dir, gen |-> listing[f.dir].gen, pc |-> "start", create |-> FALSE]
    <2>2. FutType(g)  BY <2>1 DEF HasOperated, Reloads, FutType, TypesInv, PaneTypes
    <2>3. TypedFuts(<<Reload(f.dir, FALSE)>>)  BY <2>2, TypedOne DEF Reload
    <2> QED  BY <1>2, <1>4, <2>3 DEF RunOpEnd, TypedStep
  <1>5. CASE RunFail \/ RunLoaded \/ RunMedia \/ RunRender
    BY <1>2, <1>5 DEF RunFail, RunLoaded, RunMedia, RunRender, TypedStep
  <1> QED  BY <1>3, <1>4, <1>5 DEF RunFn

\* The listings loaded by themselves, and the one thing the user does.
LEMMA AutoReloads ==
  ASSUME NEW open
  PROVE  /\ Futs(AutoReload(open))
         /\ \A j \in 1 .. Len(AutoReload(open)) : \E d \in Dirs : AutoReload(open)[j] = Reload(d, FALSE)
  <1> DEFINE Of(d) == IF Shown(d, open) /\ listing[d].state = "NotLoaded" THEN <<Reload(d, FALSE)>> ELSE <<>>
  <1>1. AutoReload(open) = Of("root") \o Of("folder")  BY DEF AutoReload
  <1>2. Of("root") \in {<<>>, <<Reload("root", FALSE)>>} /\ Of("folder") \in {<<>>, <<Reload("folder", FALSE)>>}
    OBVIOUS
  <1> HIDE DEF Of
  <1> DEFINE T == {Reload("root", FALSE), Reload("folder", FALSE)}
  <1>3. <<>> \in Seq(T) /\ <<Reload("root", FALSE)>> \in Seq(T) /\ <<Reload("folder", FALSE)>> \in Seq(T)
    OBVIOUS
  <1>4. AutoReload(open) \in Seq(T)
    <2> HIDE DEF T
    <2> QED  BY <1>1, <1>2, <1>3, ConcatProperties
  <1>5. \A j \in 1 .. Len(AutoReload(open)) : AutoReload(open)[j] \in T
    <2> HIDE DEF T
    <2> QED  BY <1>4, ElementOfSeq
  <1> QED  BY <1>5, AutoReloadFuts DEF Dirs

LEMMA AppendFuts ==
  ASSUME NEW s, NEW t, Futs(s), Futs(<<t>>)
  PROVE  /\ Futs(Append(s, t)) /\ Len(s) \in Nat /\ Len(Append(s, t)) = Len(s) + 1
         /\ \A j \in 1 .. Len(s) : Append(s, t)[j] = s[j]
         /\ Append(s, t)[Len(s) + 1] = t
  <1>1. PICK F : s \in Seq([st : {"ready", "blocked"}, fut : F])  BY DEF Futs
  <1>2. PICK G : <<t>> \in Seq([st : {"ready", "blocked"}, fut : G])  BY DEF Futs
  <1> DEFINE T == [st : {"ready", "blocked"}, fut : F \cup G]
  <1>3. s \in Seq(T)  BY <1>1, SeqMonotonic, [st : {"ready", "blocked"}, fut : F] \subseteq T
  <1>4. t \in [st : {"ready", "blocked"}, fut : G]  BY <1>2, ElementOfSeq, Len(<<t>>) = 1, <<t>>[1] = t
  <1>5. t \in T  BY <1>4
  <1> HIDE DEF T
  <1>6. /\ Len(s) \in Nat /\ Len(Append(s, t)) = Len(s) + 1
        /\ \A j \in 1 .. Len(s) : Append(s, t)[j] = s[j]
        /\ Append(s, t)[Len(s) + 1] = t
    BY <1>3, <1>5, AppendProperties, LenProperties
  <1> QED  BY <1>6, FutsAppend

\* What a click in the pane spawns after the listings: t.
PaneTask(t) ==
    \/ \E create : t = Reload("root", create) /\ listing' = listing
    \/ \E a : t = Ready([k |-> "load", pc |-> "start", a |-> a, v |-> NoFile]) /\ AtType(a) /\ listing' = listing
    \/ \E op, d, a, b, v : t = OpTask(op, d, a, b, v) /\ Operates(Op(op, d, a, b, v)) /\ Count(d)

LEMMA PaneTasks ==
  ASSUME PaneTypes, NEW open, PaneAction(open, settings)
  PROVE  \E t : SpawnTo(tasks, Append(AutoReload(open), t)) /\ PaneTask(t)
  <1>1. \A d \in Dirs : \A n \in listing[d].entries : n \in NamesOf(d)  BY DEF PaneTypes
  <1>2. \A d \in Dirs : \A n \in NamesOf(d) : AtType(At(d, n))  BY DEF AtType, At
  <1>3. settings \in Value /\ NoFile \in Value  BY DEF PaneTypes, Value
  <1>4. \A d \in Dirs : \A op, a, b, v : AtType(a) /\ AtType(b) /\ v \in Value
           /\ (op = "overwrite" => d = "root")
           /\ (op # "overwrite" => a.dir = d /\ b.dir = d)
           => Operates(Op(op, d, a, b, v))
    BY DEF Operates, Op, PaneTypes
  <1>5. \A d, n : At(d, n).dir = d  BY DEF At
  <1>6. "root" \in Dirs /\ Files = NamesOf("root")  BY DEF Dirs, NamesOf
  <1>7. AtType(At(selected.dir, selected.name))  BY DEF PaneTypes, SelType, AtType, At
  <1> DEFINE futs == AutoReload(open)
  <1> HIDE DEF futs
  <1>8. CASE ReloadClick(futs)
    BY <1>8 DEF ReloadClick, PaneTask, futs
  <1>9. CASE LoadClick(futs, open)
    BY <1>1, <1>2, <1>9 DEF LoadClick, PaneTask, futs
  <1>10. CASE EntryClick(futs, open)
    <2>1. PICK d \in Dirs : \E n \in NamesOf(d) :
             \/ StartOp(futs, "delete", d, At(d, n), At(d, n), NoFile)
             \/ \E m \in NamesOf(d) \ {n} : StartOp(futs, "rename", d, At(d, n), At(d, m), NoFile)
      BY <1>1, <1>10 DEF EntryClick
    <2>4. PICK n \in NamesOf(d) :
             \/ StartOp(futs, "delete", d, At(d, n), At(d, n), NoFile)
             \/ \E m \in NamesOf(d) \ {n} : StartOp(futs, "rename", d, At(d, n), At(d, m), NoFile)
      BY <2>1
    <2>2. CASE StartOp(futs, "delete", d, At(d, n), At(d, n), NoFile)
      <3>1. Operates(Op("delete", d, At(d, n), At(d, n), NoFile))  BY <1>2, <1>3, <1>4, <1>5
      <3> QED  BY <2>2, <3>1 DEF StartOp, PaneTask, futs
    <2>3. CASE \E m \in NamesOf(d) \ {n} : StartOp(futs, "rename", d, At(d, n), At(d, m), NoFile)
      <3>1. PICK m \in NamesOf(d) : StartOp(futs, "rename", d, At(d, n), At(d, m), NoFile)  BY <2>3
      <3>2. Operates(Op("rename", d, At(d, n), At(d, m), NoFile))  BY <1>2, <1>3, <1>4, <1>5
      <3> QED  BY <3>1, <3>2 DEF StartOp, PaneTask, futs
    <2> QED  BY <2>2, <2>3, <2>4
  <1>11. CASE CreateClick(futs, settings) \/ InstallDrop(futs, settings)
    <2>1. PICK n \in Files, op \in {"create", "install"} :
             StartOp(futs, op, "root", At("root", n), At("root", n), settings)
      BY <1>11 DEF CreateClick, InstallDrop
    <2>2. Operates(Op(op, "root", At("root", n), At("root", n), settings))
      BY <1>2, <1>3, <1>4, <1>5, <1>6
    <2> QED  BY <2>1, <2>2 DEF StartOp, PaneTask, futs
  <1>12. CASE OverwriteClick(futs, settings)
    <2> DEFINE a == At(selected.dir, selected.name)
    <2>1. StartOp(futs, "overwrite", "root", a, a, settings)  BY <1>12 DEF OverwriteClick
    <2>2. Operates(Op("overwrite", "root", a, a, settings))
      <3> HIDE DEF a
      <3> QED  BY <1>3, <1>4, <1>6, <1>7 DEF a
    <2> QED  BY <2>1, <2>2 DEF StartOp, PaneTask, futs
  <1> QED  BY <1>8, <1>9, <1>10, <1>11, <1>12 DEF PaneAction, futs

LEMMA PaneFut ==
  ASSUME PaneTypes, NEW t, PaneTask(t)
  PROVE  FutType(t.fut) /\ Futs(<<t>>)
  <1>1. CASE \E create : t = Reload("root", create)
    <2>1. PICK create : t = Reload("root", create)  BY <1>1
    <2>2. Reloads(t.fut)  BY <2>1 DEF Reload, Ready, Reloads, PaneTypes, Dirs
    <2> QED  BY <2>1, <2>2, FutsOne DEF Reload, FutType
  <1>2. CASE \E a : t = Ready([k |-> "load", pc |-> "start", a |-> a, v |-> NoFile]) /\ AtType(a)
    <2>1. PICK a : t = Ready([k |-> "load", pc |-> "start", a |-> a, v |-> NoFile]) /\ AtType(a)
      BY <1>2
    <2>2. Loads(t.fut)  BY <2>1 DEF Ready, Loads, Value
    <2> QED  BY <2>1, <2>2, FutsOne DEF FutType
  <1>3. CASE \E op, d, a, b, v : t = OpTask(op, d, a, b, v) /\ Operates(Op(op, d, a, b, v))
    <2>1. PICK op, d, a, b, v : t = OpTask(op, d, a, b, v) /\ Operates(Op(op, d, a, b, v))
      BY <1>3
    <2>2. t = Ready(Op(op, d, a, b, v)) \/ t = Blocked(Op(op, d, a, b, v))  BY <2>1 DEF OpTask
    <2>3. Futs(<<t>>)  BY <2>2, FutsOne
    <2>4. t.fut = Op(op, d, a, b, v)  BY <2>2 DEF Ready, Blocked
    <2> QED  BY <2>1, <2>3, <2>4 DEF FutType
  <1> QED  BY <1>1, <1>2, <1>3 DEF PaneTask

LEMMA PaneFuts ==
  ASSUME PaneTypes, NEW open, NEW t, PaneTask(t)
  PROVE  TypedFuts(AutoReload(open)) /\ TypedFuts(Append(AutoReload(open), t))
  <1> DEFINE s == AutoReload(open)
             u == Append(s, t)
  <1>1. \A j \in 1 .. Len(s) : FutType(s[j].fut)
    <2>1. \A d \in Dirs : FutType(Reload(d, FALSE).fut)
      BY DEF Reload, Ready, Reloads, FutType, PaneTypes
    <2> QED  BY <2>1, AutoReloads
  <1>2. Futs(s)  BY AutoReloads
  <1>3. FutType(t.fut) /\ Futs(<<t>>)  BY PaneFut
  <1> HIDE DEF s
  <1>4. /\ Futs(u) /\ Len(s) \in Nat /\ Len(u) = Len(s) + 1
        /\ \A j \in 1 .. Len(s) : u[j] = s[j]
        /\ u[Len(s) + 1] = t
    BY <1>2, <1>3, AppendFuts
  <1> HIDE DEF u
  <1>5. \A j \in 1 .. Len(u) : FutType(u[j].fut)
    <2> TAKE j \in 1 .. Len(u)
    <2>1. j \in 1 .. Len(s) \/ j = Len(s) + 1  BY <1>4
    <2> QED  BY <1>1, <1>3, <1>4, <2>1
  <1> QED  BY <1>1, <1>2, <1>4, <1>5 DEF TypedFuts, s, u

LEMMA AutoFuts ==
  ASSUME PaneTypes, NEW open PROVE TypedFuts(AutoReload(open))
  <1>1. \A d \in Dirs : FutType(Reload(d, FALSE).fut)
    BY DEF Reload, Ready, Reloads, FutType, PaneTypes
  <1> QED  BY <1>1, AutoReloads DEF TypedFuts

LEMMA TypedShow ==
  ASSUME ExecInv, TypesInv, Show PROVE TypedStep
  <1>1. CASE ShowNothing
    <2>1. \A open : TypedFuts(AutoReload(open))  BY AutoFuts DEF TypesInv
    <2> QED  BY <1>1, <2>1 DEF ShowNothing, PaneShown, NoTask, Idle, TypedStep
  <1>2. CASE UsePresets
    <2>1. PICK open : PaneAction(open, settings)  BY <1>2 DEF UsePresets
    <2>2. PICK t : SpawnTo(tasks, Append(AutoReload(open), t)) /\ PaneTask(t)
      BY <2>1, PaneTasks DEF TypesInv
    <2>3. TypedFuts(Append(AutoReload(open), t))  BY <2>2, PaneFuts DEF TypesInv
    <2> QED  BY <1>2, <2>2, <2>3 DEF UsePresets, Idle, TypedStep
  <1>3. CASE UseMedia
    <2>1. TypedFuts(<<DialogTask>>)
      <3>1. FutType([k |-> "pick"])  BY DEF FutType, Plain
      <3> QED  BY <3>1, TypedOne DEF DialogTask
    <2>2. \A r : TypedFuts(<<MediaTask(r)>>)
      <3>1. \A r : FutType([k |-> "recent", path |-> r])  BY DEF FutType, Picks
      <3> QED  BY <3>1, TypedOne DEF MediaTask
    <2> QED  BY <1>3, <2>1, <2>2 DEF UseMedia, SpawnsOne, NoTask, Idle, TypedStep
  <1>4. CASE UseRender
    <2>1. TypedFuts(<<SaveTask>>)
      <3>1. FutType([k |-> "save", src |-> pipe.path, id |-> asked])  BY DEF FutType, Requests
      <3> QED  BY <3>1, TypedOne DEF SaveTask
    <2>2. \A q : TypedFuts(<<RenderTask(q)>>)
      <3>1. \A pc : FutType([k |-> "render", src |-> pipe.path, id |-> asked, pc |-> pc])
        BY DEF FutType, Requests
      <3> QED  BY <3>1, TypedOne DEF RenderTask
    <2> QED  BY <1>4, <2>1, <2>2 DEF UseRender, SpawnsOne, NoTask, Idle, TypedStep
  <1>5. CASE UseEffects \/ UseAudio
    BY <1>5 DEF UseEffects, UseAudio, NoTask, Idle, TypedStep
  <1> QED  BY <1>1, <1>2, <1>3, <1>4, <1>5 DEF Show

LEMMA LoadsRead ==
  ASSUME NEW f, NEW c \in Value, Loads(f)
  PROVE  LET g == [f EXCEPT !.pc = "read", !.v = c] IN FutType(g) /\ g.k = f.k
  <1> DEFINE g == [f EXCEPT !.pc = "read", !.v = c]
  <1>1. f = [k |-> f.k, pc |-> f.pc, a |-> f.a, v |-> f.v]  BY DEF Loads
  <1>2. g = [k |-> f.k, pc |-> "read", a |-> f.a, v |-> c]
    <2> SUFFICES ASSUME NEW k, NEW pc, NEW a, NEW v, f = [k |-> k, pc |-> pc, a |-> a, v |-> v]
                 PROVE  g = [k |-> k, pc |-> "read", a |-> a, v |-> c]
      BY <1>1
    <2> DEFINE h == [f EXCEPT !.pc = "read"]
    <2>1. h = [k |-> k, pc |-> "read", a |-> a, v |-> v]  OBVIOUS
    <2>2. g = [h EXCEPT !.v = c]  OBVIOUS
    <2> HIDE DEF h, g
    <2>3. [h EXCEPT !.v = c] = [k |-> k, pc |-> "read", a |-> a, v |-> c]  BY <2>1
    <2> QED  BY <2>2, <2>3
  <1> HIDE DEF g
  <1>3. g = [k |-> g.k, pc |-> g.pc, a |-> g.a, v |-> g.v] /\ g.k = f.k /\ g.a = f.a /\ g.v = c
    BY <1>2
  <1>4. Loads(g)  BY <1>3 DEF Loads
  <1> QED  BY <1>3, <1>4 DEF FutType, g

LEMMA TypedThread ==
  ASSUME ExecInv, TypesInv, PoolThread \/ Answer PROVE TypedStep
  <1> SUFFICES \E i \in DOMAIN tasks : \E fut : FutType(fut) /\ (Wakes(i, fut) \/ Marks(i, fut))
    BY DEF TypedStep
  <1>1. \A i \in DOMAIN tasks : FutType(tasks[i].fut)  BY TaskFut DEF TypesInv
  <1>2. CASE PoolThread
    <2>1. PICK i \in DOMAIN tasks : ThreadOf(i)  BY <1>2 DEF PoolThread
    <2> DEFINE f == tasks[i].fut
    <2>2. CASE ThreadRename(i) \/ ThreadOp(i)
      <3>1. Operates(f)  BY <1>1, <2>2, Kinds DEF ThreadRename, ThreadOp
      <3>2. \A pc : FutType([f EXCEPT !.pc = pc])  BY <3>1 DEF Operates, FutType
      <3> DEFINE fut == [f EXCEPT !.pc = "checked"]
      <3>3. [tasks EXCEPT ![i].fut.pc = "checked"] = [tasks EXCEPT ![i].fut = fut]
        OBVIOUS
      <3> HIDE DEF f
      <3>4. CASE ThreadOp(i)  BY <3>2, <3>4 DEF ThreadOp, f
      <3>5. CASE ThreadRename(i)
        <4> HIDE DEF fut
        <4>1. Marks(i, fut) \/ Wakes(i, [f EXCEPT !.pc = "failed"]) \/ Wakes(i, [f EXCEPT !.pc = "ok"])
          BY <3>3, <3>5 DEF ThreadRename, Marks, f
        <4> QED  BY <3>2, <4>1 DEF fut
      <3> QED  BY <2>2, <3>4, <3>5
    <2>3. CASE ThreadReload(i)
      <3>1. Reloads(f)  BY <1>1, <2>3, Kinds DEF ThreadReload
      <3>2. \A pc : FutType([f EXCEPT !.pc = pc])  BY <3>1 DEF Reloads, FutType
      <3> HIDE DEF f
      <3> QED  BY <2>3, <3>2 DEF ThreadReload, f
    <2>4. CASE ThreadLoad(i)
      <3>1. Loads(f)  BY <1>1, <2>4, Kinds DEF ThreadLoad
      <3>2. Content(f.a) \in Value  BY <3>1 DEF Loads, AtType, Content, TypesInv, PaneTypes
      <3>3. FutType([f EXCEPT !.pc = "read", !.v = Content(f.a)])
        BY <3>1, <3>2, LoadsRead
      <3> QED  BY <2>4, <3>3 DEF ThreadLoad
    <2>5. CASE ThreadRender(i)
      <3>1. Requests(f) /\ f.k = "render"  BY <1>1, <2>5, Kinds DEF ThreadRender
      <3>2. \A pc : FutType([f EXCEPT !.pc = pc])  BY <3>1 DEF Requests, FutType
      <3> HIDE DEF f
      <3> QED  BY <2>5, <3>2 DEF ThreadRender, f
    <2> QED  BY <2>1, <2>2, <2>3, <2>4, <2>5 DEF ThreadOf
  <1>3. CASE Answer
    <2>1. FutType([k |-> "cancelled"]) /\ \A path : FutType([k |-> "picked", path |-> path])
      BY DEF FutType, Plain, Picks
    <2>2. PICK i \in DOMAIN tasks : AnswerPick(i) \/ AnswerSave(i)  BY <1>3 DEF Answer
    <2>3. CASE AnswerPick(i)  BY <2>1, <2>3 DEF AnswerPick
    <2>4. CASE AnswerSave(i)
      <3> DEFINE f == tasks[i].fut
      <3>1. Requests(f) /\ f.k = "save"  BY <1>1, <2>4, Kinds DEF AnswerSave
      <3>2. FutType([f EXCEPT !.k = "saved"])  BY <3>1 DEF Requests, FutType
      <3> HIDE DEF f
      <3> QED  BY <2>1, <2>4, <3>2 DEF AnswerSave, f
    <2> QED  BY <2>2, <2>3, <2>4
  <1> QED  BY <1>2, <1>3

LEMMA StepTyped ==
  ASSUME ExecInv, TypesInv, [Next]_vars PROVE TypedStep
  <1>1. CASE Tick
    BY <1>1 DEF Tick, BeginFrame, UserEvent, TypedStep
  <1>2. CASE PollTask  BY <1>2, TypedPolls
  <1>3. CASE RunFn  BY <1>3, TypedRuns
  <1>4. CASE Show  BY <1>4, TypedShow
  <1>5. CASE Sink  BY <1>5 DEF Sink, UiCall, TypedStep
  <1>6. CASE PoolThread \/ Answer  BY <1>6, TypedThread
  <1>7. CASE Stream
    BY <1>7 DEF Stream, StreamEvent, Frame, TypedStep
  <1>8. CASE Jobs
    <2>1. PICK n : JobEvent(n) \/ JobSpawns(n)  BY <1>8 DEF Jobs
    <2>2. CASE JobEvent(n)  BY <2>2 DEF JobEvent, execVars, TypedStep
    <2>3. CASE JobSpawns(n)
      <3> DEFINE fut == [k |-> "job", id |-> jobs[n].id, pc |-> jobs[n].thread]
      <3>1. FutType(fut)  BY <2>3 DEF JobSpawns, FutType, OfJob
      <3>2. TypedFuts(<<Ready(fut)>>)  BY <3>1, TypedOne
      <3> QED  BY <2>3, <3>2 DEF JobSpawns, SpawnFromThread, TypedStep
    <2> QED  BY <2>1, <2>2, <2>3
  <1>9. CASE UNCHANGED vars
    BY <1>9 DEF vars, execVars, TypedStep
  <1> QED  BY <1>1, <1>2, <1>3, <1>4, <1>5, <1>6, <1>7, <1>8, <1>9 DEF Next, UiStep

-----------------------------------------------------------------------------
(* What a step does to the listings, and to the futures that are about them.  *)

\* A future that is counted by a listing, and one that will load it again.
Counts(f) == f.k \in {"op", "opend"}
Refreshes(f) == f.k \in {"reload", "kids"}
Aside(f) == ~Counts(f) /\ ~Refreshes(f)
Alike(g, f) == /\ Counts(g) <=> Counts(f)
               /\ Refreshes(g) <=> Refreshes(f)
               /\ ~Aside(g) => f.dir = g.dir /\ f.gen = g.gen

\* Only the counted futures write.
Works(t, f) ==
    /\ Becomes(t, f) /\ Alike(Fut[t], f) /\ UNCHANGED <<listing, lost>>
    /\ \A d \in Dirs : fs'[d] # fs[d] => Counts(Fut[t]) /\ Fut[t].dir \in {d, "root"}
Starts(t, f) ==
    /\ Becomes(t, f) /\ Refreshes(Fut[t]) /\ Alike(Fut[t], f) /\ fs' = fs
    /\ Enters(Fut[t], IF listing[Fut[t].dir].state = "Loaded" THEN "Reloading" ELSE "Loading")
Fails(t) == Becomes(t, Fail) /\ Refreshes(Fut[t]) /\ fs' = fs /\ Enters(Fut[t], "Error")
Reads(t) ==
    LET g == Fut[t]
    IN /\ Becomes(t, IF Alive(g) THEN Kids(g) ELSE NoFn) /\ Refreshes(g) /\ UNCHANGED <<fs, lost>>
       /\ listing' = IF Alive(g) THEN [listing EXCEPT ![g.dir].state = "Loaded",
                                                     ![g.dir].entries = Present(g.dir)]
                     ELSE listing
\* The end of tasks that are about no listing, and tasks that load one.
Sprouts(gone, futs) ==
    /\ Turns(gone, futs) /\ \A t \in gone : Aside(Fut[t])
    /\ \A j \in 1 .. Len(futs) : \/ Aside(futs[j].fut)
                                  \/ \E d \in Dirs : \E create : futs[j] = Reload(d, create)
    /\ UNCHANGED <<fs, listing, lost>>
\* An operation is counted as it is spawned, after the listings.
Begins(d, op, futs) ==
    /\ Turns({}, Append(futs, op)) /\ Futs(futs) /\ Futs(<<op>>)
    /\ \A j \in 1 .. Len(futs) : \E e \in Dirs : \E create : futs[j] = Reload(e, create)
    /\ Counts(op.fut) /\ op.fut.dir = d /\ op.fut.gen = listing[d].gen
    /\ Count(d) /\ UNCHANGED <<fs, lost>>
Passes(t, f) == /\ Turns({t}, <<Ready(f)>>) /\ Refreshes(Fut[t]) /\ Alike(Fut[t], f)
                /\ UNCHANGED <<fs, listing, lost>>
Ends(t) ==
    LET g == Fut[t]
        left == listing[g.dir].active - 1
    IN /\ Turns({t}, IF Alive(g) /\ left = 0 THEN <<Reload(g.dir, FALSE)>> ELSE <<>>)
       /\ g.k = "opend"
       /\ listing' = IF Alive(g) THEN [listing EXCEPT ![g.dir].active = left] ELSE listing
       /\ UNCHANGED <<fs, lost>>

PaneStep ==
    \/ \E t, f : Works(t, f) \/ Starts(t, f) \/ Passes(t, f)
    \/ \E t : Fails(t) \/ Reads(t) \/ Ends(t)
    \/ \E gone, futs : Sprouts(gone, futs)
    \/ \E d \in Dirs : \E op, futs : Begins(d, op, futs)

LEMMA AsideKinds ==
  \A f : Loads(f) \/ Picks(f) \/ Requests(f) \/ OfJob(f) \/ Plain(f) => Aside(f)
BY DEF Loads, Picks, Requests, OfJob, Plain, Aside, Counts, Refreshes

LEMMA AlikeKinds ==
  ASSUME NEW f
  PROVE  /\ Reloads(f) => Refreshes(f) /\ \A pc : Alike(f, [f EXCEPT !.pc = pc])
         /\ Operates(f) => /\ Counts(f) /\ \A pc : Alike(f, [f EXCEPT !.pc = pc])
                           /\ \A res : Alike(f, OpEnd(f, res))
  <1>1. Reloads(f) => Refreshes(f) /\ \A pc : Alike(f, [f EXCEPT !.pc = pc])
    BY DEF Reloads, Refreshes, Counts, Alike, Aside
  <1>2. Operates(f) => Counts(f) /\ \A pc : Alike(f, [f EXCEPT !.pc = pc])
    BY DEF Operates, Refreshes, Counts, Alike, Aside
  <1>3. Operates(f) => \A res : Alike(f, OpEnd(f, res))
    BY DEF Operates, Refreshes, Counts, Alike, Aside, OpEnd
  <1> QED  BY <1>1, <1>2, <1>3

LEMMA TouchWorks ==
  ASSUME ExecInv, ExecInv', NEW i \in DOMAIN tasks, NEW fut,
         \/ \E st \in {"blocked", "done"} : Polls(i, st, fut)
         \/ Wakes(i, fut) \/ Marks(i, fut),
         Alike(tasks[i].fut, fut), UNCHANGED <<listing, lost>>,
         \A d \in Dirs : fs'[d] # fs[d] => Counts(tasks[i].fut) /\ tasks[i].fut.dir \in {d, "root"}
  PROVE  PaneStep
  <1>1. Works(tasks[i].id, fut)  BY Touched DEF Works
  <1> QED  BY <1>1 DEF PaneStep

LEMMA AsideWorks ==
  ASSUME ExecInv, ExecInv', NEW i \in DOMAIN tasks, NEW fut,
         \/ \E st \in {"blocked", "done"} : Polls(i, st, fut)
         \/ Wakes(i, fut) \/ Marks(i, fut),
         Aside(tasks[i].fut), Aside(fut), UNCHANGED presetVars
  PROVE  PaneStep
  <1>1. Alike(tasks[i].fut, fut)  BY DEF Alike, Aside
  <1> QED  BY <1>1, TouchWorks DEF presetVars

\* Operations write where they say.
LEMMA OpWrites ==
  ASSUME PaneTypes, NEW f, Operates(f),
         fs' = fs \/ (\E v : Put(f.a, v))
         \/ (f.op = "rename" /\ fs' = [fs EXCEPT ![f.b.dir][f.b.name] = Content(f.a), ![f.a.dir][f.a.name] = NoFile])
  PROVE  \A d \in Dirs : fs'[d] # fs[d] => Counts(f) /\ f.dir \in {d, "root"}
  <1>1. Counts(f) /\ f.dir \in Dirs /\ f.a.dir \in Dirs /\ f.b.dir \in Dirs
        /\ (f.op = "overwrite" => f.dir = "root")
        /\ (f.op # "overwrite" => f.a.dir = f.dir /\ f.b.dir = f.dir)
    BY AlikeKinds DEF Operates, AtType
  <1>2. DOMAIN fs = Dirs  BY DEF PaneTypes
  <1>3. CASE \E v : Put(f.a, v)
    <2>1. PICK v : Put(f.a, v)  BY <1>3
    <2>2. \A d \in Dirs : d # f.a.dir => fs'[d] = fs[d]  BY <1>2, <2>1 DEF Put
    <2> QED  BY <1>1, <2>2
  <1>4. CASE f.op = "rename" /\ fs' = [fs EXCEPT ![f.b.dir][f.b.name] = Content(f.a), ![f.a.dir][f.a.name] = NoFile]
    <2>1. \A d \in Dirs : d # f.dir => fs'[d] = fs[d]
      <3> DEFINE c == Content(f.a)
                 e == f.dir
                 m == f.a.name
                 n == f.b.name
      <3>1. fs' = [fs EXCEPT ![e][n] = c, ![e][m] = NoFile]  BY <1>1, <1>4
      <3> HIDE DEF c, e, m, n
      <3>2. \A d \in Dirs : d # e => fs'[d] = fs[d]  BY <1>2, <3>1
      <3> QED  BY <3>2 DEF e
    <2> QED  BY <1>1, <2>1
  <1> QED  BY <1>1, <1>3, <1>4

LEMMA PollPane ==
  ASSUME ExecInv, ExecInv', TypesInv, PollTask PROVE PaneStep
  <1>1. PICK i \in DOMAIN tasks : TaskOf(i)  BY DEF PollTask
  <1> DEFINE f == tasks[i].fut
             t == tasks[i].id
  <1>2. FutType(f)  BY TaskFut DEF TypesInv
  <1>3. CASE PollReloadStart(i) \/ PollReloadCreated(i) \/ PollReloadFailed(i) \/ PollReloadRead(i)
    <2>1. Reloads(f)  BY <1>2, <1>3, Kinds DEF PollReloadStart, PollReloadCreated, PollReloadFailed, PollReloadRead
    <2>2. Refreshes(f) /\ \A pc : Alike(f, [f EXCEPT !.pc = pc])  BY <2>1, AlikeKinds
    <2>3. CASE PollReloadStart(i)
      <3> DEFINE fut == [f EXCEPT !.pc = IF f.create THEN "create" ELSE "read"]
      <3>1. /\ Polls(i, "blocked", fut) /\ fs' = fs
            /\ Enters(f, IF listing[f.dir].state = "Loaded" THEN "Reloading" ELSE "Loading")
        BY <2>3 DEF PollReloadStart
      <3>2. Becomes(t, fut) /\ Fut[t] = f  BY <3>1, Touched
      <3> HIDE DEF fut, t, f
      <3>3. Alike(f, fut)  BY <2>2 DEF fut
      <3>4. Starts(t, fut)  BY <2>2, <3>1, <3>2, <3>3 DEF Starts
      <3> QED  BY <3>4 DEF PaneStep
    <2>4. CASE PollReloadCreated(i)
      <3>1. Polls(i, "blocked", [f EXCEPT !.pc = "read"]) /\ UNCHANGED presetVars
        BY <2>4 DEF PollReloadCreated
      <3> QED  BY <2>2, <3>1, TouchWorks DEF presetVars
    <2>5. CASE PollReloadFailed(i)
      <3>1. Polls(i, "done", Fail) /\ fs' = fs /\ Enters(f, "Error")
        BY <2>5 DEF PollReloadFailed
      <3>2. Becomes(t, Fail) /\ Fut[t] = f  BY <3>1, Touched
      <3> HIDE DEF f, t
      <3>3. Fails(t)  BY <2>2, <3>1, <3>2 DEF Fails
      <3> QED  BY <3>3 DEF PaneStep
    <2>6. CASE PollReloadRead(i)
      <3> DEFINE fut == IF Alive(f) THEN Kids(f) ELSE NoFn
      <3>1. /\ Polls(i, "done", fut) /\ UNCHANGED <<fs, lost>>
            /\ listing' = IF Alive(f) THEN [listing EXCEPT ![f.dir].state = "Loaded",
                                                          ![f.dir].entries = Present(f.dir)]
                          ELSE listing
        BY <2>6 DEF PollReloadRead
      <3>2. Becomes(t, fut) /\ Fut[t] = f  BY <3>1, Touched
      <3> HIDE DEF f, t
      <3>3. Reads(t)  BY <2>2, <3>1, <3>2 DEF Reads
      <3> QED  BY <3>3 DEF PaneStep
    <2> QED  BY <1>3, <2>3, <2>4, <2>5, <2>6
  <1>4. CASE PollWrite(i) \/ PollInstall(i) \/ PollOpEnd(i)
    <2>1. Operates(f)  BY <1>2, <1>4, Kinds DEF PollWrite, PollInstall, PollOpEnd
    <2>2. \A pc : Alike(f, [f EXCEPT !.pc = pc])  BY <2>1, AlikeKinds
    <2>3. \A res : Alike(f, OpEnd(f, res))  BY <2>1, AlikeKinds
    <2>4. \E fut : /\ Polls(i, "done", fut) \/ Polls(i, "blocked", fut)
                   /\ Alike(f, fut) /\ UNCHANGED <<listing, lost>>
                   /\ fs' = fs \/ \E v : Put(f.a, v)
      <3> HIDE DEF f
      <3> QED  BY <1>4, <2>2, <2>3 DEF PollWrite, PollInstall, PollOpEnd, f, presetVars
    <2>5. \A d \in Dirs : fs'[d] # fs[d] => Counts(f) /\ f.dir \in {d, "root"}
      BY <2>1, <2>4, OpWrites DEF TypesInv
    <2> QED  BY <2>4, <2>5, TouchWorks
  <1>5. CASE /\ PollLoad(i) \/ PollMedia(i) \/ PollRender(i) \/ PollSave(i) \/ PollJob(i)
             /\ UNCHANGED presetVars
    <2>1. UNCHANGED presetVars  BY <1>5
    <2>2. Aside(f)  BY <1>5 DEF PollLoad, PollMedia, PollRender, PollSave, PollJob, Aside, Counts, Refreshes
    <2>3. \E fut : (Polls(i, "done", fut) \/ Polls(i, "blocked", fut)) /\ Aside(fut)
      <3>1. Loads(f) => Aside([f EXCEPT !.k = "loaded"]) /\ \A pc : Aside([f EXCEPT !.pc = pc])
        BY DEF Loads, Aside, Counts, Refreshes
      <3>2. Picks(f) => Aside([f EXCEPT !.k = "media"])
        BY DEF Picks, Aside, Counts, Refreshes
      <3>3. /\ Requests(f) => Aside([f EXCEPT !.k = "rendered"])
            /\ Requests(f) /\ f.k = "render" => Aside([f EXCEPT !.pc = "looking"])
        BY DEF Requests, Aside, Counts, Refreshes
      <3>4. Aside(NoFn) /\ Aside([k |-> "rendered", src |-> f.src, id |-> f.id, pc |-> "empty"])
        BY DEF NoFn, Aside, Counts, Refreshes
      <3>5. /\ f.k \in {"load", "loaded"} => Loads(f)
            /\ f.k \in {"recent", "picked", "media"} => Picks(f)
            /\ f.k \in {"render", "rendered", "save", "saved"} => Requests(f)
        BY <1>2, Kinds
      <3> HIDE DEF f
      <3> QED  BY <1>5, <3>1, <3>2, <3>3, <3>4, <3>5 DEF PollLoad, PollMedia, PollRender, PollSave, PollJob, f
    <2> QED  BY <2>1, <2>2, <2>3, AsideWorks
  <1>6. PollLoad(i) => UNCHANGED presetVars  BY DEF PollLoad
  <1> QED  BY <1>1, <1>3, <1>4, <1>5, <1>6 DEF TaskOf

LEMMA RunPane ==
  ASSUME ExecInv, ExecInv', TypesInv, RunFn PROVE PaneStep
  <1> DEFINE f == Head(fns).fut
  <1>1. FutType(f)  BY HeadFut DEF RunFn, TypesInv
  <1>2. CASE RunKids
    <2> DEFINE g == [k |-> "reload", dir |-> f.dir, gen |-> f.gen, pc |-> "start", create |-> FALSE]
    <2>1. ReloadsKids(f)  BY <1>1, <1>2, Kinds DEF RunKids
    <2>2. Refreshes(f) /\ Alike(f, g)  BY <2>1 DEF ReloadsKids, Alike, Refreshes, Counts, Aside
    <2>3. RunsFn(<<Ready(g)>>) /\ UNCHANGED presetVars  BY <1>2 DEF RunKids
    <2>4. PICK t \in Live : Fut[t] = f /\ Turns({t}, <<Ready(g)>>)
      <3> HIDE DEF g
      <3> QED  BY <2>3, FutsOne, RanFuts
    <2> HIDE DEF g, f
    <2>5. Passes(t, g)  BY <2>2, <2>3, <2>4 DEF Passes, presetVars
    <2> QED  BY <2>5 DEF PaneStep
  <1>3. CASE RunOpEnd
    <2> DEFINE left == listing[f.dir].active - 1
               futs == IF Alive(f) /\ left = 0 THEN <<Reload(f.dir, FALSE)>> ELSE <<>>
    <2>1. /\ RunsFn(futs) /\ f.k = "opend" /\ UNCHANGED <<fs, lost>>
          /\ listing' = IF Alive(f) THEN [listing EXCEPT ![f.dir].active = left] ELSE listing
      BY <1>3 DEF RunOpEnd
    <2>2. Futs(futs)  BY FutsOne, FutsEmpty DEF Reload
    <2>3. PICK t \in Live : Fut[t] = f /\ Turns({t}, futs)
      <3> HIDE DEF futs
      <3> QED  BY <2>1, <2>2, RanFuts
    <2>4. Ends(t)
      <3> HIDE DEF f
      <3> QED  BY <2>1, <2>3 DEF Ends
    <2> QED  BY <2>4 DEF PaneStep
  <1>4. CASE RunFail \/ RunLoaded \/ RunMedia \/ RunRender
    <2>1. Aside(f)  BY <1>4 DEF RunFail, RunLoaded, RunMedia, RunRender, Aside, Counts, Refreshes
    <2>2. RunsFn(<<>>)  BY <1>4 DEF RunFail, RunLoaded, RunMedia, RunRender
    <2>3. UNCHANGED <<fs, listing, lost>>
      <3>1. CASE RunFail \/ RunLoaded  BY <3>1 DEF RunFail, RunLoaded, presetVars
      <3>2. CASE RunMedia \/ RunRender
        <4>1. ~RunFail /\ ~RunKids /\ ~RunOpEnd /\ ~RunLoaded
          BY <3>2 DEF RunMedia, RunRender, RunFail, RunKids, RunOpEnd, RunLoaded
        <4> QED  BY <4>1 DEF RunFn, presetVars
      <3> QED  BY <1>4, <3>1, <3>2
    <2>4. PICK t \in Live : Fut[t] = f /\ Turns({t}, <<>>)
      BY <2>2, FutsEmpty, RanFuts
    <2> HIDE DEF f
    <2>5. Sprouts({t}, <<>>)  BY <2>1, <2>3, <2>4 DEF Sprouts
    <2> QED  BY <2>5 DEF PaneStep
  <1> QED  BY <1>2, <1>3, <1>4 DEF RunFn

LEMMA ShowPane ==
  ASSUME ExecInv, ExecInv', TypesInv, Show PROVE PaneStep
  <1>1. fns' = fns \/ ((UNCHANGED tasks) /\ (UNCHANGED fns))
    BY DEF Show, ShowNothing, UsePresets, UseMedia, UseEffects, UseAudio, UseRender, Idle, NoTask
  <1>2. CASE UNCHANGED <<tasks, fns>> /\ UNCHANGED presetVars
    <2>1. Live' = Live /\ Fut' = Fut  BY <1>2 DEF Live, Fut, Ids
    <2>2. Sprouts({}, <<>>)  BY <1>2, <2>1, LiveNames DEF Sprouts, Turns, presetVars
    <2> QED  BY <2>2 DEF PaneStep
  <1>3. CASE \E fut : /\ SpawnTo(tasks, <<Ready(fut)>>) \/ SpawnTo(tasks, <<Blocked(fut)>>)
                      /\ Aside(fut) /\ UNCHANGED presetVars
    <2>1. PICK fut : /\ SpawnTo(tasks, <<Ready(fut)>>) \/ SpawnTo(tasks, <<Blocked(fut)>>)
                     /\ Aside(fut) /\ UNCHANGED presetVars
      BY <1>3
    <2>2. PICK futs \in {<<Ready(fut)>>, <<Blocked(fut)>>} : SpawnTo(tasks, futs)  BY <2>1
    <2>3. Futs(futs) /\ \A j \in 1 .. Len(futs) : futs[j].fut = fut
      <3>1. Futs(<<Ready(fut)>>) /\ Futs(<<Blocked(fut)>>)  BY FutsOne
      <3>2. \A j \in 1 .. Len(<<Ready(fut)>>) : <<Ready(fut)>>[j].fut = fut  BY DEF Ready
      <3>3. \A j \in 1 .. Len(<<Blocked(fut)>>) : <<Blocked(fut)>>[j].fut = fut  BY DEF Blocked
      <3> QED  BY <2>2, <3>1, <3>2, <3>3
    <2>4. Turns({}, futs)  BY <1>1, <2>2, <2>3, SpawnedFuts
    <2>5. Sprouts({}, futs)  BY <2>1, <2>3, <2>4 DEF Sprouts, presetVars
    <2> QED  BY <2>5 DEF PaneStep
  <1>4. CASE \E open : SpawnTo(tasks, AutoReload(open)) /\ UNCHANGED presetVars
    <2>1. PICK open : SpawnTo(tasks, AutoReload(open)) /\ UNCHANGED presetVars  BY <1>4
    <2>2. /\ Futs(AutoReload(open))
          /\ \A j \in 1 .. Len(AutoReload(open)) : \E d \in Dirs : AutoReload(open)[j] = Reload(d, FALSE)
      BY AutoReloads
    <2>3. Turns({}, AutoReload(open))  BY <1>1, <2>1, <2>2, SpawnedFuts
    <2>4. Sprouts({}, AutoReload(open))  BY <2>1, <2>2, <2>3 DEF Sprouts, presetVars
    <2> QED  BY <2>4 DEF PaneStep
  <1>5. CASE UsePresets
    <2>1. PICK open : PaneAction(open, settings)  BY <1>5 DEF UsePresets
    <2> DEFINE s == AutoReload(open)
    <2>2. PICK t : SpawnTo(tasks, Append(s, t)) /\ PaneTask(t)
      BY <2>1, PaneTasks DEF TypesInv
    <2>3. /\ Futs(s)
          /\ \A j \in 1 .. Len(s) : \E d \in Dirs : s[j] = Reload(d, FALSE)
      BY AutoReloads
    <2>4. UNCHANGED <<fs, lost>>  BY <2>1 DEF PaneAction
    <2>5. Futs(<<t>>)  BY <2>2, PaneFut DEF TypesInv
    <2> HIDE DEF s
    <2>6. /\ Futs(Append(s, t)) /\ Len(s) \in Nat /\ Len(Append(s, t)) = Len(s) + 1
          /\ \A j \in 1 .. Len(s) : Append(s, t)[j] = s[j]
          /\ Append(s, t)[Len(s) + 1] = t
      BY <2>3, <2>5, AppendFuts
    <2>7. Turns({}, Append(s, t))  BY <1>1, <2>2, <2>6, SpawnedFuts
    <2>8. CASE \E op, d, a, b, v : t = OpTask(op, d, a, b, v) /\ Operates(Op(op, d, a, b, v)) /\ Count(d)
      <3>1. PICK op, d, a, b, v : t = OpTask(op, d, a, b, v) /\ Operates(Op(op, d, a, b, v)) /\ Count(d)
        BY <2>8
      <3>2. t.fut = Op(op, d, a, b, v)  BY <3>1 DEF OpTask, Ready, Blocked
      <3>3. t.fut.k = "op" /\ t.fut.dir = d /\ t.fut.gen = listing[d].gen  BY <3>2 DEF Op
      <3>4. d \in Dirs  BY <3>1, <3>2, <3>3 DEF Operates
      <3>5. Begins(d, t, s)  BY <2>3, <2>4, <2>5, <2>7, <3>1, <3>3 DEF Begins, Counts
      <3> QED  BY <3>4, <3>5 DEF PaneStep
    <2>9. CASE /\ listing' = listing
               /\ \/ \E create : t = Reload("root", create)
                  \/ \E a : t = Ready([k |-> "load", pc |-> "start", a |-> a, v |-> NoFile])
      <3>1. Aside(t.fut) \/ \E d \in Dirs : \E create : t = Reload(d, create)
        BY <2>9 DEF Dirs, Ready, Aside, Counts, Refreshes
      <3> DEFINE u == Append(s, t)
      <3>2. \A j \in 1 .. Len(u) : \/ Aside(u[j].fut)
                                    \/ \E d \in Dirs : \E create : u[j] = Reload(d, create)
        <4> TAKE j \in 1 .. Len(u)
        <4>1. j \in 1 .. Len(s) \/ j = Len(s) + 1  BY <2>6
        <4> QED  BY <2>3, <2>6, <3>1, <4>1
      <3>3. Sprouts({}, u)  BY <2>4, <2>7, <2>9, <3>2 DEF Sprouts
      <3> QED  BY <3>3 DEF PaneStep
    <2> QED  BY <2>2, <2>8, <2>9 DEF PaneTask
  <1>6. \A fut : fut.k \in {"pick", "recent", "save", "render"} => Aside(fut)
    BY DEF Aside, Counts, Refreshes
  <1>7. CASE ShowNothing
    BY <1>2, <1>4, <1>7 DEF ShowNothing, PaneShown, NoTask, Idle
  <1>8. CASE UseMedia
    <2>1. UNCHANGED presetVars  BY <1>8 DEF UseMedia
    <2>2. CASE NoTask /\ UNCHANGED fns  BY <1>2, <2>1, <2>2 DEF NoTask
    <2>3. CASE SpawnsOne(DialogTask)
      <3>1. SpawnTo(tasks, <<Blocked([k |-> "pick"])>>)  BY <2>3 DEF SpawnsOne, DialogTask
      <3> QED  BY <1>3, <1>6, <2>1, <3>1
    <2>4. CASE \E r \in ToSet(recent) : SpawnsOne(MediaTask(r))
      <3>1. PICK r : SpawnTo(tasks, <<Ready([k |-> "recent", path |-> r])>>)
        BY <2>4 DEF SpawnsOne, MediaTask
      <3> QED  BY <1>3, <1>6, <2>1, <3>1
    <2> QED  BY <1>8, <2>2, <2>3, <2>4 DEF UseMedia, Idle
  <1>9. CASE UseEffects \/ UseAudio
    BY <1>2, <1>9 DEF UseEffects, UseAudio, NoTask, Idle
  <1>10. CASE UseRender
    <2>1. UNCHANGED presetVars /\ UNCHANGED fns  BY <1>10 DEF UseRender, Idle
    <2>2. CASE NoTask  BY <1>2, <2>1, <2>2 DEF NoTask
    <2>3. CASE SpawnsOne(SaveTask)
      <3>1. SpawnTo(tasks, <<Blocked([k |-> "save", src |-> pipe.path, id |-> asked])>>)
        BY <2>3 DEF SpawnsOne, SaveTask
      <3> QED  BY <1>3, <1>6, <2>1, <3>1
    <2>4. CASE \E sequence \in BOOLEAN : SpawnsOne(RenderTask(sequence))
      <3>1. PICK pc : SpawnTo(tasks, <<Ready([k |-> "render", src |-> pipe.path, id |-> asked, pc |-> pc])>>)
        BY <2>4 DEF SpawnsOne, RenderTask
      <3> QED  BY <1>3, <1>6, <2>1, <3>1
    <2> QED  BY <1>10, <2>2, <2>3, <2>4 DEF UseRender
  <1> QED  BY <1>5, <1>7, <1>8, <1>9, <1>10 DEF Show

LEMMA ThreadPane ==
  ASSUME ExecInv, ExecInv', TypesInv, PoolThread \/ Answer PROVE PaneStep
  <1>1. \A i \in DOMAIN tasks : FutType(tasks[i].fut)  BY TaskFut DEF TypesInv
  <1>2. CASE PoolThread
    <2>1. PICK i \in DOMAIN tasks : ThreadOf(i)  BY <1>2 DEF PoolThread
    <2> DEFINE f == tasks[i].fut
    <2>2. CASE ThreadRename(i) \/ ThreadOp(i)
      <3>1. Operates(f)  BY <1>1, <2>2, Kinds DEF ThreadRename, ThreadOp
      <3>2. UNCHANGED <<listing, lost>>  BY <2>2 DEF ThreadRename, ThreadOp
      <3>3. \A d \in Dirs : fs'[d] # fs[d] => Counts(f) /\ f.dir \in {d, "root"}
        <4>1. \/ fs' = fs \/ (\E v : Put(f.a, v))
              \/ (f.op = "rename" /\ fs' = [fs EXCEPT ![f.b.dir][f.b.name] = Content(f.a), ![f.a.dir][f.a.name] = NoFile])
          <5> HIDE DEF f
          <5> QED  BY <2>2 DEF ThreadRename, ThreadOp, f
        <4> QED  BY <3>1, <4>1, OpWrites DEF TypesInv
      <3>4. \A pc : Alike(f, [f EXCEPT !.pc = pc])  BY <3>1, AlikeKinds
      <3> DEFINE fut == [f EXCEPT !.pc = "checked"]
      <3>5. [tasks EXCEPT ![i].fut.pc = "checked"] = [tasks EXCEPT ![i].fut = fut]
        OBVIOUS
      <3>6. CASE ThreadOp(i)
        <4>1. \E pc : Wakes(i, [f EXCEPT !.pc = pc])
          <5> HIDE DEF f
          <5> QED  BY <3>6 DEF ThreadOp, f
        <4> QED  BY <3>2, <3>3, <3>4, <4>1, TouchWorks
      <3>7. CASE ThreadRename(i)
        <4>1. Marks(i, fut) \/ \E pc : Wakes(i, [f EXCEPT !.pc = pc])
          <5> HIDE DEF f, fut
          <5> QED  BY <3>5, <3>7 DEF ThreadRename, Marks, f
        <4>2. CASE Marks(i, fut)
          <5>1. Alike(f, fut)  BY <3>4
          <5> HIDE DEF fut
          <5> QED  BY <3>2, <3>3, <4>2, <5>1, TouchWorks
        <4>3. CASE \E pc : Wakes(i, [f EXCEPT !.pc = pc])
          BY <3>2, <3>3, <3>4, <4>3, TouchWorks
        <4> QED  BY <4>1, <4>2, <4>3
      <3> QED  BY <2>2, <3>6, <3>7
    <2>3. CASE ThreadReload(i)
      <3>1. Reloads(f)  BY <1>1, <2>3, Kinds DEF ThreadReload
      <3>2. \A pc : Alike(f, [f EXCEPT !.pc = pc])  BY <3>1, AlikeKinds
      <3>3. \E pc : Wakes(i, [f EXCEPT !.pc = pc])
        <4> HIDE DEF f
        <4> QED  BY <2>3 DEF ThreadReload, f
      <3>4. UNCHANGED <<fs, listing, lost>>  BY <2>3 DEF ThreadReload
      <3> QED  BY <3>2, <3>3, <3>4, TouchWorks
    <2>4. CASE ThreadLoad(i)
      <3>1. Loads(f) /\ f.k = "load"  BY <1>1, <2>4, Kinds DEF ThreadLoad
      <3> DEFINE fut == [f EXCEPT !.pc = "read", !.v = Content(f.a)]
      <3>2. fut.k = "load"
        <4>1. Content(f.a) \in Value  BY <3>1 DEF Loads, AtType, Content, TypesInv, PaneTypes
        <4> QED  BY <3>1, <4>1, LoadsRead
      <3>3. Wakes(i, fut) /\ UNCHANGED presetVars  BY <2>4 DEF ThreadLoad
      <3>4. Aside(f) /\ Aside(fut)  BY <3>1, <3>2 DEF Aside, Counts, Refreshes
      <3> HIDE DEF fut
      <3> QED  BY <3>3, <3>4, AsideWorks
    <2>5. CASE ThreadRender(i) /\ UNCHANGED presetVars
      <3>1. Requests(f) /\ f.k = "render"  BY <1>1, <2>5, Kinds DEF ThreadRender
      <3>2. Aside(f) /\ \A pc : Aside([f EXCEPT !.pc = pc])
        BY <3>1 DEF Requests, Aside, Counts, Refreshes
      <3>3. \E pc : Wakes(i, [f EXCEPT !.pc = pc])
        <4> HIDE DEF f
        <4> QED  BY <2>5 DEF ThreadRender, f
      <3> QED  BY <2>5, <3>2, <3>3, AsideWorks
    <2> QED  BY <2>1, <2>2, <2>3, <2>4, <2>5 DEF ThreadOf
  <1>3. CASE Answer
    <2>1. Aside([k |-> "cancelled"]) /\ \A path : Aside([k |-> "picked", path |-> path])
      BY DEF Aside, Counts, Refreshes
    <2>2. PICK i \in DOMAIN tasks : AnswerPick(i) \/ AnswerSave(i)  BY <1>3 DEF Answer
    <2>3. UNCHANGED presetVars  BY <1>3 DEF Answer
    <2> DEFINE f == tasks[i].fut
    <2>4. Aside(f)  BY <2>2 DEF AnswerPick, AnswerSave, Aside, Counts, Refreshes
    <2>5. CASE AnswerPick(i)  BY <2>1, <2>3, <2>4, <2>5, AsideWorks DEF AnswerPick
    <2>6. CASE AnswerSave(i)
      <3>1. Requests(f) /\ f.k = "save"  BY <1>1, <2>6, Kinds DEF AnswerSave
      <3>2. Aside([f EXCEPT !.k = "saved"])  BY <3>1 DEF Requests, Aside, Counts, Refreshes
      <3>3. \E fut : Wakes(i, fut) /\ Aside(fut)
        <4> HIDE DEF f
        <4> QED  BY <2>1, <2>6, <3>2 DEF AnswerSave, f
      <3> QED  BY <2>3, <2>4, <3>3, AsideWorks
    <2> QED  BY <2>2, <2>5, <2>6
  <1> QED  BY <1>2, <1>3

LEMMA CalmPane ==
  ASSUME ExecInv, UNCHANGED <<tasks, fns, fs, listing, lost>> PROVE PaneStep
  <1>1. Live' = Live /\ Fut' = Fut  BY DEF Live, Fut, Ids
  <1>2. Sprouts({}, <<>>)  BY <1>1, LiveNames DEF Sprouts, Turns
  <1> QED  BY <1>2 DEF PaneStep

LEMMA StepPane ==
  ASSUME ExecInv, ExecInv', TypesInv, [Next]_vars PROVE PaneStep
  <1>1. CASE Tick
    <2>1. UNCHANGED presetVars  BY <1>1 DEF Tick, Others
    <2>2. CASE BeginFrame \/ UserEvent
      BY <2>1, <2>2, CalmPane DEF BeginFrame, UserEvent, presetVars
    <2>3. CASE Collect
      <3>1. PICK gone : Turns(gone, <<>>) /\ \A t \in gone : Fut[t] = NoFn
        BY <2>3, CollectedFuts
      <3>2. \A t \in gone : Aside(Fut[t])  BY <3>1 DEF NoFn, Aside, Counts, Refreshes
      <3>3. UNCHANGED <<fs, listing, lost>>  BY <2>1 DEF presetVars
      <3>4. Sprouts(gone, <<>>)  BY <3>1, <3>2, <3>3 DEF Sprouts
      <3> QED  BY <3>4 DEF PaneStep
    <2> QED  BY <1>1, <2>2, <2>3 DEF Tick
  <1>2. CASE PollTask  BY <1>2, PollPane
  <1>3. CASE RunFn  BY <1>3, RunPane
  <1>4. CASE Show  BY <1>4, ShowPane
  <1>5. CASE Sink  BY <1>5, CalmPane DEF Sink, UiCall, presetVars
  <1>6. CASE PoolThread \/ Answer  BY <1>6, ThreadPane
  <1>7. CASE Stream
    BY <1>7, CalmPane DEF Stream, StreamEvent, Frame, presetVars
  <1>8. CASE Jobs
    <2>1. PICK n : JobEvent(n) \/ JobSpawns(n)  BY <1>8 DEF Jobs
    <2>2. UNCHANGED presetVars  BY <1>8 DEF Jobs
    <2>3. CASE JobEvent(n)  BY <2>2, <2>3, CalmPane DEF JobEvent, execVars, presetVars
    <2>4. CASE JobSpawns(n)
      <3> DEFINE fut == [k |-> "job", id |-> jobs[n].id, pc |-> jobs[n].thread]
      <3>1. SpawnTo(tasks, <<Ready(fut)>>) /\ fns' = fns  BY <2>4 DEF JobSpawns, SpawnFromThread
      <3>2. Futs(<<Ready(fut)>>)  BY FutsOne
      <3>3. Turns({}, <<Ready(fut)>>)
        <4> HIDE DEF fut
        <4> QED  BY <3>1, <3>2, SpawnedFuts
      <3>4. \A j \in 1 .. Len(<<Ready(fut)>>) : Aside(<<Ready(fut)>>[j].fut)
        BY DEF Ready, Aside, Counts, Refreshes
      <3>5. Sprouts({}, <<Ready(fut)>>)  BY <2>2, <3>3, <3>4 DEF Sprouts, presetVars
      <3> QED  BY <3>5 DEF PaneStep
    <2> QED  BY <2>1, <2>3, <2>4
  <1>9. CASE UNCHANGED vars
    BY <1>9, CalmPane DEF vars, execVars, presetVars
  <1> QED  BY <1>1, <1>2, <1>3, <1>4, <1>5, <1>6, <1>7, <1>8, <1>9 DEF Next, UiStep

-----------------------------------------------------------------------------
(* The types hold. *)

FsTypes(F) == F = [d \in Dirs |-> F[d]] /\ \A d \in Dirs : F[d] \in [NamesOf(d) -> Value]
ListingTypes(L) ==
    /\ L = [d \in Dirs |-> L[d]]
    /\ \A d \in Dirs :
          /\ L[d] = [state |-> L[d].state, entries |-> L[d].entries,
                     active |-> L[d].active, gen |-> L[d].gen]
          /\ L[d].state \in States /\ L[d].entries \subseteq NamesOf(d)
          /\ L[d].active \in Int /\ L[d].gen \in Nat

LEMMA PaneParts ==
  PaneTypes <=> /\ FsTypes(fs) /\ ListingTypes(listing) /\ SelType(selected)
                /\ settings \in Versions /\ mode \in Modes
BY DEF PaneTypes, FsTypes, ListingTypes
LEMMA PanePartsNext ==
  PaneTypes' <=> /\ FsTypes(fs') /\ ListingTypes(listing') /\ SelType(selected')
                 /\ settings' \in Versions /\ mode' \in Modes
BY DEF PaneTypes, FsTypes, ListingTypes

LEMMA PutTypes ==
  ASSUME NEW F, NEW G, FsTypes(F), NEW d \in Dirs, NEW n \in NamesOf(d), NEW v \in Value,
         G = [F EXCEPT ![d][n] = v]
  PROVE  FsTypes(G)
  <1>1. DOMAIN F = Dirs /\ F[d] \in [NamesOf(d) -> Value]  BY DEF FsTypes
  <1>2. G[d] = [F[d] EXCEPT ![n] = v] /\ \A e \in Dirs \ {d} : G[e] = F[e]  BY <1>1
  <1>3. G[d] \in [NamesOf(d) -> Value]  BY <1>1, <1>2
  <1>4. G = [e \in Dirs |-> G[e]]  BY <1>1
  <1> QED  BY <1>2, <1>3, <1>4 DEF FsTypes

LEMMA ContentType ==
  ASSUME FsTypes(fs), NEW a, AtType(a) PROVE Content(a) \in Value
BY DEF FsTypes, AtType, Content

LEMMA NextFs ==
  ASSUME ExecInv, TypesInv, [Next]_vars PROVE FsTypes(fs')
  <1>1. FsTypes(fs)  BY PaneParts DEF TypesInv
  <1>2. \A i \in DOMAIN tasks : FutType(tasks[i].fut)  BY TaskFut DEF TypesInv
  <1>3. NoFile \in Value  BY DEF Value
  <1>4. CASE PollTask
    <2>1. PICK i \in DOMAIN tasks : TaskOf(i)  BY <1>4 DEF PollTask
    <2>2. CASE PollWrite(i)
      <3> DEFINE f == tasks[i].fut
      <3>1. Operates(f)  BY <1>2, <2>2, Kinds DEF PollWrite
      <3>2. AtType(f.a) /\ f.v \in Value  BY <3>1 DEF Operates
      <3>3. fs' = fs \/ Put(f.a, f.v)  BY <2>2 DEF PollWrite
      <3> QED  BY <1>1, <3>2, <3>3, PutTypes DEF Put, AtType
    <2>3. CASE fs' = fs  BY <1>1, <2>3
    <2> QED  BY <2>1, <2>2, <2>3 DEF TaskOf, PollReloadStart, PollReloadCreated, PollReloadFailed,
          PollReloadRead, PollInstall, PollOpEnd, PollLoad, presetVars
  <1>5. CASE PoolThread
    <2>1. PICK i \in DOMAIN tasks : ThreadOf(i)  BY <1>5 DEF PoolThread
    <2> DEFINE f == tasks[i].fut
    <2>2. CASE ThreadOp(i)
      <3>1. Operates(f)  BY <1>2, <2>2, Kinds DEF ThreadOp
      <3>2. AtType(f.a) /\ f.v \in Value  BY <3>1 DEF Operates
      <3>3. fs' = fs \/ Put(f.a, f.v) \/ Put(f.a, NoFile)  BY <2>2 DEF ThreadOp
      <3> QED  BY <1>1, <1>3, <3>2, <3>3, PutTypes DEF Put, AtType
    <2>3. CASE ThreadRename(i)
      <3>1. Operates(f)  BY <1>2, <2>3, Kinds DEF ThreadRename
      <3>2. AtType(f.a) /\ AtType(f.b)  BY <3>1 DEF Operates
      <3> DEFINE c == Content(f.a)
                 d == f.a.dir
                 e == f.b.dir
                 m == f.a.name
                 n == f.b.name
      <3>3. c \in Value  BY <1>1, <3>2, ContentType
      <3>4. d \in Dirs /\ m \in NamesOf(d) /\ e \in Dirs /\ n \in NamesOf(e)  BY <3>2 DEF AtType
      <3>5. fs' = fs \/ fs' = [fs EXCEPT ![e][n] = c, ![d][m] = NoFile]  BY <2>3 DEF ThreadRename
      <3> DEFINE F == [fs EXCEPT ![e][n] = c]
      <3>6. fs' = fs \/ fs' = [F EXCEPT ![d][m] = NoFile]  BY <3>5
      <3> HIDE DEF c, d, e, m, n
      <3>7. FsTypes(F)  BY <1>1, <3>3, <3>4, PutTypes
      <3> HIDE DEF F
      <3> QED  BY <1>1, <1>3, <3>4, <3>6, <3>7, PutTypes
    <2>4. CASE fs' = fs  BY <1>1, <2>4
    <2> QED  BY <2>1, <2>2, <2>3, <2>4 DEF ThreadOf, ThreadReload, ThreadLoad, presetVars
  <1>6. CASE fs' = fs  BY <1>1, <1>6
  <1>7. RunFn => fs' = fs
    BY DEF RunFn, RunFail, RunKids, RunOpEnd, RunLoaded, presetVars
  <1>8. Show => fs' = fs
    BY DEF Show, ShowNothing, UsePresets, UseMedia, UseEffects, UseAudio, UseRender, PaneShown,
       PaneAction, presetVars
  <1>9. Tick \/ Sink \/ Answer \/ Stream \/ Jobs \/ UNCHANGED vars => fs' = fs
    BY DEF Tick, Others, Sink, Answer, Stream, Jobs, vars, presetVars
  <1> QED  BY <1>4, <1>5, <1>6, <1>7, <1>8, <1>9 DEF Next, UiStep

LEMMA NextSelected ==
  ASSUME ExecInv, TypesInv, [Next]_vars PROVE SelType(selected')
  <1>1. SelType(selected)  BY PaneParts DEF TypesInv
  <1>2. CASE selected' = selected  BY <1>1, <1>2
  <1>3. CASE RunFn
    <2> DEFINE f == Head(fns).fut
    <2>1. FutType(f)  BY <1>3, HeadFut DEF RunFn, TypesInv
    <2>2. CASE RunOpEnd
      <3>1. HasOperated(f)  BY <2>1, <2>2, Kinds DEF RunOpEnd
      <3>2. SelType(f.sel)  BY <3>1 DEF HasOperated
      <3>3. selected' \in {f.sel, selected}  BY <2>2 DEF RunOpEnd
      <3> QED  BY <1>1, <3>2, <3>3
    <2>3. CASE RunLoaded
      <3>1. Loads(f)  BY <2>1, <2>3, Kinds DEF RunLoaded
      <3>2. selected' \in {[dir |-> f.a.dir, name |-> f.a.name, v |-> f.v], selected}
        BY <2>3 DEF RunLoaded
      <3>3. SelType([dir |-> f.a.dir, name |-> f.a.name, v |-> f.v])
        BY <3>1 DEF Loads, AtType, SelType
      <3> QED  BY <1>1, <3>2, <3>3
    <2> QED  BY <1>2, <1>3, <2>2, <2>3 DEF RunFn, RunFail, RunKids, presetVars
  <1>4. PollTask => selected' = selected
    BY DEF PollTask, TaskOf, PollReloadStart, PollReloadCreated, PollReloadFailed,
          PollReloadRead, PollWrite, PollInstall, PollOpEnd, PollLoad, presetVars
  <1>5. PoolThread => selected' = selected
    BY DEF PoolThread, ThreadOf, ThreadReload, ThreadRename, ThreadOp, ThreadLoad, presetVars
  <1>6. Show => selected' = selected
    BY DEF Show, ShowNothing, UsePresets, UseMedia, UseEffects, UseAudio, UseRender, PaneShown,
       PaneAction, presetVars
  <1>7. Tick \/ Sink \/ Answer \/ Stream \/ Jobs \/ UNCHANGED vars => selected' = selected
    BY DEF Tick, Others, Sink, Answer, Stream, Jobs, vars, presetVars
  <1> QED  BY <1>2, <1>3, <1>4, <1>5, <1>6, <1>7 DEF Next, UiStep

LEMMA NextLooks ==
  ASSUME ExecInv, TypesInv, PipeShape, [Next]_vars
  PROVE  settings' \in Versions /\ mode' \in Modes
  <1>1. settings \in Versions /\ mode \in Modes  BY PaneParts DEF TypesInv
  <1>2. CASE UNCHANGED <<settings, mode>>  BY <1>1, <1>2
  <1>3. CASE RunFn
    <2>1. CASE Loaded /\ RunLoaded /\ SetEffectSettings(Head(fns).fut.v)
      <3>1. Loads(Head(fns).fut)  BY <1>3, <2>1, HeadFut, Kinds DEF RunFn, TypesInv, RunLoaded
      <3>2. Head(fns).fut.v \in Versions  BY <2>1, <3>1 DEF Loads, Loaded, Value
      <3> QED  BY <1>1, <2>1, <3>2 DEF SetEffectSettings
    <2>2. CASE UNCHANGED previewVars  BY <1>2, <2>2 DEF previewVars
    <2>3. RunRender \/ RunMedia => UNCHANGED <<settings, mode>>
      BY DEF RunRender, PushJob, RunMedia, LoadVideo, previewVars
    <2> QED  BY <1>2, <1>3, <2>1, <2>2, <2>3 DEF RunFn
  <1>4. CASE Show
    <2>1. CASE UseEffects
      BY <1>1, <2>1 DEF UseEffects, SetEffectSettings, SetMode
    <2>2. ShowNothing \/ UsePresets \/ UseRender => UNCHANGED previewVars
      BY DEF ShowNothing, UsePresets, UseRender, Confirm, Refuse, PushJob, CloseJob, JobKeeps
    <2>3. UseMedia => UNCHANGED <<settings, mode>>
      BY DEF UseMedia, LoadVideo, CloseVideo, TogglePlaying, RescaleVideo, previewVars
    <2>4. UseAudio => UNCHANGED <<settings, mode>>
      BY DEF UseAudio, DragVolume, ToggleMute, Released, SetVolume
    <2> QED  BY <1>2, <1>4, <2>1, <2>2, <2>3, <2>4 DEF Show, previewVars
  <1>5. Tick => UNCHANGED <<settings, mode>>
    BY DEF Tick, Others, CheckStatus, previewVars
  <1>6. PollTask => UNCHANGED <<settings, mode>>  BY PollKeeps DEF Stays
  <1>7. Sink => UNCHANGED <<settings, mode>>  BY DEF Sink, UiCall, previewVars
  <1>8. PoolThread => UNCHANGED <<settings, mode>>
    BY DEF PoolThread, ThreadOf, ThreadRender, previewVars
  <1>9. Answer => UNCHANGED <<settings, mode>>  BY DEF Answer, AnswerPick, AnswerSave, previewVars
  <1>10. Stream => UNCHANGED <<settings, mode>>
    BY DEF Stream, StreamEvent, PadAdded, StateChanged, AsyncDone, ErrorMessage, Eos, Frame
  <1>11. Jobs => UNCHANGED <<settings, mode>>
    BY DEF Jobs, JobEvent, JobSpawns, JobKeeps, previewVars
  <1>12. UNCHANGED vars => UNCHANGED <<settings, mode>>  BY DEF vars, previewVars
  <1> QED  BY <1>2, <1>3, <1>4, <1>5, <1>6, <1>7, <1>8, <1>9, <1>10, <1>11, <1>12 DEF Next, UiStep

\* What an update makes of the listings.
Row(state, entries, active, gen) ==
    [state |-> state, entries |-> entries, active |-> active, gen |-> gen]

Reset(L, d, state, entries, active, gen) == [L EXCEPT ![d] = Row(state, entries, active, gen)]

EntriesOf(d) == SUBSET NamesOf(d)

LEMMA OneRow ==
  ASSUME NEW L, ListingTypes(L), NEW d \in Dirs, NEW state \in States,
         NEW E \in EntriesOf(d), NEW n \in Int, NEW g \in Nat
  PROVE  LET M == Reset(L, d, state, E, n, g)
         IN /\ ListingTypes(M)
            /\ M[d].state = state /\ M[d].entries = E /\ M[d].active = n /\ M[d].gen = g
            /\ \A e \in Dirs : e # d => M[e] = L[e]
  <1> DEFINE r == Row(state, E, n, g)
             M == Reset(L, d, state, E, n, g)
  <1>1. /\ r = [state |-> r.state, entries |-> r.entries, active |-> r.active, gen |-> r.gen]
        /\ r.state = state /\ r.entries = E /\ r.active = n /\ r.gen = g
    BY DEF Row
  <1>2. M = [L EXCEPT ![d] = r]  BY DEF Reset
  <1> HIDE DEF r, M
  <1>3. M[d] = r /\ \A e \in Dirs : e # d => M[e] = L[e]  BY <1>2 DEF ListingTypes
  <1>4. M = [e \in Dirs |-> M[e]]  BY <1>2 DEF ListingTypes
  <1>5. ListingTypes(M)  BY <1>1, <1>3, <1>4 DEF ListingTypes, EntriesOf
  <1> QED  BY <1>1, <1>3, <1>5 DEF M

WithActive(L, d, n) == [L EXCEPT ![d].active = n]
WithState(L, d, state) == [L EXCEPT ![d].state = state]
WithBoth(L, d, state, E) == [L EXCEPT ![d].state = state, ![d].entries = E]

LEMMA RowFields ==
  ASSUME NEW L, ListingTypes(L), NEW d \in Dirs
  PROVE  /\ \A n : WithActive(L, d, n) = Reset(L, d, L[d].state, L[d].entries, n, L[d].gen)
         /\ \A st : WithState(L, d, st) = Reset(L, d, st, L[d].entries, L[d].active, L[d].gen)
         /\ \A st, E : WithBoth(L, d, st, E) = Reset(L, d, st, E, L[d].active, L[d].gen)
  <1> DEFINE r == L[d]
  <1>1. r = [state |-> r.state, entries |-> r.entries, active |-> r.active, gen |-> r.gen]
    BY DEF ListingTypes
  <1>2. DOMAIN L = Dirs  BY DEF ListingTypes
  <1> HIDE DEF r
  <1>3. \A n : [r EXCEPT !.active = n] = Row(r.state, r.entries, n, r.gen)
    BY <1>1 DEF Row
  <1>4. \A st : [r EXCEPT !.state = st] = Row(st, r.entries, r.active, r.gen)
    BY <1>1 DEF Row
  <1>5. \A st, E : [Row(st, r.entries, r.active, r.gen) EXCEPT !.entries = E] = Row(st, E, r.active, r.gen)
    BY DEF Row
  <1>6. \A n : [L EXCEPT ![d].active = n] = [L EXCEPT ![d] = [r EXCEPT !.active = n]]  BY DEF r
  <1>7. \A st : [L EXCEPT ![d].state = st] = [L EXCEPT ![d] = [r EXCEPT !.state = st]]  BY DEF r
  <1>8. \A st, E : [L EXCEPT ![d].state = st, ![d].entries = E]
                   = [L EXCEPT ![d] = Row(st, E, r.active, r.gen)]
    <2> TAKE st, E
    <2> DEFINE K == [L EXCEPT ![d].state = st]
               x == [[r EXCEPT !.state = st] EXCEPT !.entries = E]
    <2>1. [L EXCEPT ![d].state = st, ![d].entries = E] = [K EXCEPT ![d].entries = E]  OBVIOUS
    <2>2. K = [L EXCEPT ![d] = [r EXCEPT !.state = st]]  BY <1>7
    <2>3. K[d] = [r EXCEPT !.state = st] /\ DOMAIN K = Dirs  BY <1>2, <2>2
    <2> HIDE DEF K
    <2>4. [K EXCEPT ![d].entries = E] = [K EXCEPT ![d] = [K[d] EXCEPT !.entries = E]]  OBVIOUS
    <2>5. [K EXCEPT ![d].entries = E] = [K EXCEPT ![d] = x]  BY <2>3, <2>4
    <2>6. x = Row(st, E, r.active, r.gen)  BY <1>4, <1>5
    <2> HIDE DEF x
    <2>7. [K EXCEPT ![d] = x] = [L EXCEPT ![d] = x]  BY <1>2, <2>2, <2>3
    <2> QED  BY <2>1, <2>5, <2>6, <2>7
  <1>9. \A n : [L EXCEPT ![d].active = n] = Reset(L, d, r.state, r.entries, n, r.gen)
    BY <1>3, <1>6 DEF Reset
  <1>10. \A st : [L EXCEPT ![d].state = st] = Reset(L, d, st, r.entries, r.active, r.gen)
    BY <1>4, <1>7 DEF Reset
  <1>11. \A st, E : [L EXCEPT ![d].state = st, ![d].entries = E] = Reset(L, d, st, E, r.active, r.gen)
    BY <1>8 DEF Reset
  <1> QED  BY <1>9, <1>10, <1>11 DEF r, WithActive, WithState, WithBoth

Entering == {"Reloading", "Loading", "Error"}

LEMMA EnterRows ==
  ASSUME NEW L, ListingTypes(L), NEW d \in Dirs, NEW state \in Entering
  PROVE  LET M == Enter(L, d, state)
         IN /\ ListingTypes(M)
            /\ M[d].state = state /\ M[d].active = L[d].active /\ M[d].gen = L[d].gen
            /\ d = "root" /\ state # "Reloading" => M["folder"].state = "NotLoaded"
            /\ \A e \in Dirs : \/ e = d \/ M[e] = L[e]
                             \/ /\ e = "folder" /\ d = "root" /\ state # "Reloading"
                                /\ M[e].state = "NotLoaded" /\ M[e].active = 0 /\ M[e].gen = L[e].gen + 1
  <1> DEFINE M == Enter(L, d, state)
  <1>1. \A e \in Dirs : L[e].entries \subseteq NamesOf(e) /\ L[e].active \in Int /\ L[e].gen \in Nat
    BY DEF ListingTypes
  <1>2. state \in States /\ "NotLoaded" \in States  BY DEF States, Entering
  <1> HIDE DEF M
  <1>3. CASE state = "Reloading"
    <2>1. M = [L EXCEPT ![d].state = state]  BY <1>3 DEF Enter, M
    <2> DEFINE E == L[d].entries
               n == L[d].active
               g == L[d].gen
    <2>2. M = Reset(L, d, state, E, n, g)
      <3>1. M = WithState(L, d, state)  BY <2>1 DEF WithState
      <3> QED  BY <3>1, RowFields
    <2>3. E \in EntriesOf(d) /\ n \in Int /\ g \in Nat  BY <1>1 DEF EntriesOf
    <2> HIDE DEF E, n, g
    <2>4. /\ ListingTypes(M) /\ M[d].state = state /\ M[d].active = n /\ M[d].gen = g
          /\ \A e \in Dirs : e # d => M[e] = L[e]
      BY <1>2, <2>2, <2>3, OneRow
    <2> QED  BY <1>3, <2>4 DEF n, g, M
  <1>4. CASE state # "Reloading"
    <2> DEFINE F == Forget(L, d)
    <2>1. /\ ListingTypes(F) /\ F[d] = L[d]
          /\ d = "root" => F["folder"].state = "NotLoaded"
          /\ \A e \in Dirs : \/ F[e] = L[e]
                            \/ /\ e = "folder" /\ d = "root"
                               /\ F[e].state = "NotLoaded" /\ F[e].active = 0 /\ F[e].gen = L[e].gen + 1
      <3>1. CASE d # "root"  BY <3>1 DEF Forget
      <3>2. CASE d = "root"
        <4> DEFINE g == L["folder"].gen + 1
        <4>1. F = Reset(L, "folder", "NotLoaded", {}, 0, g)
          <5>1. F = [L EXCEPT !["folder"] = NewListing(L["folder"].gen + 1)]  BY <3>2 DEF Forget
          <5> HIDE DEF F, g
          <5> QED  BY <5>1 DEF NewListing, Row, Reset, g
        <4>2. "folder" \in Dirs /\ {} \in EntriesOf("folder") /\ g \in Nat /\ 0 \in Int
          BY <1>1 DEF Dirs, EntriesOf
        <4> HIDE DEF F, g
        <4>3. /\ ListingTypes(F)
              /\ F["folder"].state = "NotLoaded" /\ F["folder"].active = 0 /\ F["folder"].gen = g
              /\ \A e \in Dirs : e # "folder" => F[e] = L[e]
          BY <1>2, <4>1, <4>2, OneRow
        <4> QED  BY <3>2, <4>3 DEF g
      <3> QED  BY <3>1, <3>2
    <2>2. M = [F EXCEPT ![d].state = state, ![d].entries = {}]  BY <1>4 DEF Enter, Entering, M
    <2> HIDE DEF F
    <2> DEFINE n == L[d].active
               g == L[d].gen
    <2>3. M = Reset(F, d, state, {}, n, g)
      <3>1. M = WithBoth(F, d, state, {})  BY <2>2 DEF WithBoth
      <3> QED  BY <2>1, <3>1, RowFields
    <2>4. n \in Int /\ g \in Nat /\ {} \in EntriesOf(d)  BY <1>1 DEF EntriesOf
    <2> HIDE DEF n, g
    <2>5. /\ ListingTypes(M)
          /\ M[d].state = state /\ M[d].active = n /\ M[d].gen = g
          /\ \A e \in Dirs : e # d => M[e] = F[e]
      BY <1>2, <2>1, <2>3, <2>4, OneRow
    <2>6. d = "root" => M["folder"].state = "NotLoaded"
      <3>1. "folder" \in Dirs  BY DEF Dirs
      <3> QED  BY <2>1, <2>5, <3>1
    <2> QED  BY <1>4, <2>1, <2>5, <2>6 DEF n, g, M
  <1> QED  BY <1>3, <1>4

\* What a step of a reload may do to a listing: the folder's may be replaced,
\* and if operations were counted on it, that is remembered.
Relists ==
    /\ ListingTypes(listing')
    /\ lost => lost'
    /\ \A d \in Dirs :
          \/ listing'[d].gen = listing[d].gen /\ listing'[d].active = listing[d].active
          \/ /\ d = "folder" /\ listing'[d].gen = listing[d].gen + 1 /\ listing'[d].active = 0
             /\ listing[d].active > 0 => lost'

LEMMA EntersRows ==
  ASSUME ListingTypes(listing), NEW f, f.dir \in Dirs, NEW state \in Entering,
         Enters(f, state)
  PROVE  /\ Relists
         /\ ~Alive(f) => listing' = listing
         /\ Alive(f) =>
              /\ listing'[f.dir].state = state
              /\ f.dir = "root" /\ state # "Reloading" => listing'["folder"].state = "NotLoaded"
              /\ \A e \in Dirs : \/ e = f.dir \/ listing'[e] = listing[e]
                               \/ /\ e = "folder" /\ f.dir = "root" /\ state # "Reloading"
                                  /\ listing'[e].state = "NotLoaded"
  <1>1. CASE ~Alive(f)
    <2>1. listing' = listing /\ (lost => lost')  BY <1>1 DEF Enters
    <2> QED  BY <1>1, <2>1 DEF Relists
  <1>2. CASE Alive(f)
    <2> DEFINE d == f.dir
    <2>1. listing' = Enter(listing, d, state)  BY <1>2 DEF Enters
    <2>2. /\ ListingTypes(listing')
          /\ listing'[d].state = state /\ listing'[d].active = listing[d].active
          /\ listing'[d].gen = listing[d].gen
          /\ d = "root" /\ state # "Reloading" => listing'["folder"].state = "NotLoaded"
          /\ \A e \in Dirs : \/ e = d \/ listing'[e] = listing[e]
                           \/ /\ e = "folder" /\ d = "root" /\ state # "Reloading"
                              /\ listing'[e].state = "NotLoaded" /\ listing'[e].active = 0
                              /\ listing'[e].gen = listing[e].gen + 1
      <3> d \in Dirs  OBVIOUS
      <3> HIDE DEF d
      <3> DEFINE M == Enter(listing, d, state)
      <3>1. /\ ListingTypes(M)
            /\ M[d].state = state /\ M[d].active = listing[d].active /\ M[d].gen = listing[d].gen
            /\ d = "root" /\ state # "Reloading" => M["folder"].state = "NotLoaded"
            /\ \A e \in Dirs : \/ e = d \/ M[e] = listing[e]
                             \/ /\ e = "folder" /\ d = "root" /\ state # "Reloading"
                                /\ M[e].state = "NotLoaded" /\ M[e].active = 0
                                /\ M[e].gen = listing[e].gen + 1
        BY EnterRows
      <3>2. listing' = M  BY <2>1
      <3> HIDE DEF M
      <3> QED  BY <3>1, <3>2
    <2>3. (lost => lost') /\ (d = "root" /\ state # "Reloading" /\ listing["folder"].active > 0 => lost')
      BY <1>2 DEF Enters, Entering
    <2> QED  BY <1>2, <2>2, <2>3 DEF Relists
  <1> QED  BY <1>1, <1>2

-----------------------------------------------------------------------------
(* Listings, their generations and their counts. *)

Generations ==
    /\ listing["root"].gen = 0
    /\ \A t \in Live : ~Aside(Fut[t]) => Fut[t].gen <= listing[Fut[t].dir].gen

Counted(d) == {t \in Live : Counts(Fut[t]) /\ Fut[t].dir = d /\ Fut[t].gen = listing[d].gen}
Counting == \A d \in Dirs : listing[d].active = Cardinality(Counted(d))

\* Operations that were counted on a listing of the folder that is gone.
LostOnes ==
    \A t \in Live : Counts(Fut[t]) /\ Fut[t].dir = "folder" /\ Fut[t].gen # listing["folder"].gen => lost

LEMMA AboutTypes ==
  ASSUME NEW f, FutType(f), ~Aside(f) PROVE f.dir \in Dirs /\ f.gen \in Nat
BY AsideKinds DEF FutType, Reloads, Operates, HasOperated, ReloadsKids, Dirs

\* The steps after which the same operations are counted.
SameCounts ==
    /\ \A t \in Live : Counts(Fut[t]) => /\ t \in Live' /\ Counts(Fut'[t])
                                        /\ Fut'[t].dir = Fut[t].dir /\ Fut'[t].gen = Fut[t].gen
    /\ \A t \in Live' : Counts(Fut'[t]) => t \in Live /\ Counts(Fut[t])

LEMMA AlikeSame ==
  ASSUME NEW t, NEW f, Becomes(t, f), Alike(Fut[t], f) PROVE SameCounts
  <1>1. Counts(Fut[t]) => ~Aside(Fut[t])  BY DEF Aside
  <1> QED  BY <1>1 DEF Becomes, Alike, SameCounts

LEMMA RefreshSame ==
  ASSUME NEW t, NEW f, Becomes(t, f), Refreshes(Fut[t]), ~Counts(f) PROVE SameCounts
  <1>1. ~Counts(Fut[t])  BY DEF Refreshes, Counts
  <1> QED  BY <1>1 DEF Becomes, SameCounts

\* The tasks that begin are none that live.
LEMMA NewNames ==
  ASSUME ExecInv, NEW gone, NEW futs, Turns(gone, futs)
  PROVE  \A t \in Live' : \/ t \in Live \ gone /\ Fut'[t] = Fut[t]
                         \/ /\ t \notin Live
                            /\ \E j \in 1 .. Len(futs) : t = spawned + j /\ Fut'[t] = futs[j].fut
  <1>1. spawned \in Nat /\ Live \subseteq 1 .. spawned  BY LiveNames
  <1> SUFFICES ASSUME NEW t \in Live', t \notin Live \ gone
               PROVE  /\ t \notin Live
                      /\ \E j \in 1 .. Len(futs) : t = spawned + j /\ Fut'[t] = futs[j].fut
    BY DEF Turns
  <1>2. t \in (spawned + 1) .. (spawned + Len(futs))  BY DEF Turns
  <1>3. t - spawned \in 1 .. Len(futs) /\ t = spawned + (t - spawned) /\ t \notin 1 .. spawned
    BY <1>1, <1>2
  <1> QED  BY <1>1, <1>3 DEF Turns

LEMMA TurnSame ==
  ASSUME ExecInv, NEW gone, NEW futs, Turns(gone, futs),
         \A t \in gone : ~Counts(Fut[t]), \A j \in 1 .. Len(futs) : ~Counts(futs[j].fut)
  PROVE  SameCounts
  <1>1. \A t \in Live' : Counts(Fut'[t]) => t \in Live \ gone /\ Fut'[t] = Fut[t]
    BY NewNames
  <1>2. \A t \in Live \ gone : t \in Live' /\ Fut'[t] = Fut[t]  BY DEF Turns
  <1> QED  BY <1>1, <1>2 DEF SameCounts

\* Steps that leave the counts alone keep them right.
LEMMA KeepCounts ==
  ASSUME ExecInv, FutTypes, PaneTypes, Generations, Counting, LostOnes, SameCounts, Relists
  PROVE  Counting' /\ LostOnes'
  <1>1. \A t \in Live : Counts(Fut[t]) => /\ Fut[t].dir \in Dirs /\ Fut[t].gen \in Nat
                                        /\ Fut[t].gen <= listing[Fut[t].dir].gen
    BY AboutTypes DEF FutTypes, Generations, Aside
  <1>2. \A d \in Dirs : listing[d].gen \in Nat /\ listing[d].active \in Int  BY DEF PaneTypes
  <1>3. \A d \in Dirs : IsFiniteSet(Counted(d))
    <2>1. spawned \in Nat /\ Live \subseteq 1 .. spawned  BY LiveNames
    <2>2. IsFiniteSet(1 .. spawned)  BY <2>1, FS_Interval
    <2>3. \A d \in Dirs : Counted(d) \subseteq 1 .. spawned  BY <2>1 DEF Counted
    <2> QED  BY <2>2, <2>3, FS_Subset
  <1>4. Counting'
    <2> SUFFICES ASSUME NEW d \in Dirs PROVE listing'[d].active = Cardinality((Counted(d))')
      BY DEF Counting
    <2>1. CASE listing'[d].gen = listing[d].gen /\ listing'[d].active = listing[d].active
      <3>1. (Counted(d))' = Counted(d)  BY <2>1 DEF Counted, SameCounts
      <3> QED  BY <2>1, <3>1 DEF Counting
    <2>2. CASE listing'[d].gen = listing[d].gen + 1 /\ listing'[d].active = 0
      <3>1. (Counted(d))' = {}
        <4> SUFFICES ASSUME NEW t \in Live', Counts(Fut'[t]), Fut'[t].dir = d, Fut'[t].gen = listing'[d].gen
                     PROVE  FALSE
          BY DEF Counted
        <4>1. t \in Live /\ Counts(Fut[t]) /\ Fut[t].dir = d /\ Fut[t].gen = listing'[d].gen
          BY DEF SameCounts
        <4> QED  BY <1>1, <1>2, <2>2, <4>1
      <3>2. Cardinality({}) = 0  BY FS_EmptySet
      <3> QED  BY <2>2, <3>1, <3>2
    <2> QED  BY <2>1, <2>2 DEF Relists
  <1>5. LostOnes'
    <2> SUFFICES ASSUME NEW t \in Live', Counts(Fut'[t]), Fut'[t].dir = "folder",
                        Fut'[t].gen # listing'["folder"].gen
                 PROVE  lost'
      BY DEF LostOnes
    <2>1. t \in Live /\ Counts(Fut[t]) /\ Fut[t].dir = "folder" /\ Fut[t].gen = Fut'[t].gen
      BY DEF SameCounts
    <2>2. CASE Fut[t].gen # listing["folder"].gen  BY <2>1, <2>2 DEF LostOnes, Relists
    <2>3. CASE Fut[t].gen = listing["folder"].gen
      <3>1. "folder" \in Dirs  BY DEF Dirs
      <3>2. t \in Counted("folder")  BY <2>1, <2>3 DEF Counted
      <3>3. Cardinality(Counted("folder")) \in Nat /\ Cardinality(Counted("folder")) # 0
        BY <1>3, <3>1, <3>2, FS_CardinalityType, FS_EmptySet
      <3>4. listing["folder"].active > 0  BY <3>1, <3>3 DEF Counting
      <3> QED  BY <2>1, <2>3, <3>1, <3>4 DEF Relists
    <2> QED  BY <2>2, <2>3
  <1> QED  BY <1>4, <1>5

\* What is about a listing was before, or is about the present one.
Descends ==
    \A u \in Live' : ~Aside(Fut'[u]) =>
        \/ \E w \in Live : ~Aside(Fut[w]) /\ Fut'[u].dir = Fut[w].dir /\ Fut'[u].gen = Fut[w].gen
        \/ Fut'[u].dir \in Dirs /\ Fut'[u].gen = listing[Fut'[u].dir].gen

LEMMA GenerationsKept ==
  ASSUME FutTypes, PaneTypes, Generations, Descends,
         \A d \in Dirs : listing'[d].gen = listing[d].gen
                      \/ (d # "root" /\ listing'[d].gen = listing[d].gen + 1)
  PROVE  Generations'
  <1>1. "root" \in Dirs /\ \A d \in Dirs : listing[d].gen \in Nat  BY DEF PaneTypes, Dirs
  <1>2. \A w \in Live : ~Aside(Fut[w]) => /\ Fut[w].dir \in Dirs /\ Fut[w].gen \in Nat
                                       /\ Fut[w].gen <= listing[Fut[w].dir].gen
    BY AboutTypes DEF FutTypes, Generations
  <1>3. \A d \in Dirs : \A g \in Nat : g <= listing[d].gen => g <= listing'[d].gen  BY <1>1
  <1>4. \A u \in Live' : ~Aside(Fut'[u]) => Fut'[u].gen <= listing'[Fut'[u].dir].gen
    <2> SUFFICES ASSUME NEW u \in Live', ~Aside(Fut'[u]) PROVE Fut'[u].gen <= listing'[Fut'[u].dir].gen
      OBVIOUS
    <2>1. CASE \E w \in Live : ~Aside(Fut[w]) /\ Fut'[u].dir = Fut[w].dir /\ Fut'[u].gen = Fut[w].gen
      BY <1>2, <1>3, <2>1
    <2>2. CASE Fut'[u].dir \in Dirs /\ Fut'[u].gen = listing[Fut'[u].dir].gen
      BY <1>1, <1>3, <2>2
    <2> QED  BY <2>1, <2>2 DEF Descends
  <1>5. listing'["root"].gen = 0  BY <1>1 DEF Generations
  <1> QED  BY <1>4, <1>5 DEF Generations

LEMMA AlikeDescends ==
  ASSUME NEW t, NEW f, Becomes(t, f), Alike(Fut[t], f) PROVE Descends
BY DEF Becomes, Alike, Descends, Aside

LEMMA ReloadIs ==
  \A d, create : /\ Refreshes(Reload(d, create).fut) /\ Reload(d, create).fut.dir = d
                 /\ Reload(d, create).fut.gen = listing[d].gen
BY DEF Reload, Ready, Refreshes

LEMMA RefreshKind == \A f : Refreshes(f) => ~Counts(f) /\ ~Aside(f)
BY DEF Refreshes, Counts, Aside
LEMMA SameListing ==
  ASSUME PaneTypes, UNCHANGED <<listing, lost>> PROVE Relists
BY PaneParts DEF Relists

LEMMA WorksStep ==
  ASSUME PaneTypes, NEW t, NEW f, Works(t, f) PROVE Relists /\ SameCounts /\ Descends
BY AlikeSame, AlikeDescends, SameListing DEF Works

LEMMA StartsStep ==
  ASSUME PaneTypes, FutTypes, NEW t, NEW f, Starts(t, f) PROVE Relists /\ SameCounts /\ Descends
  <1>1. SameCounts /\ Descends  BY AlikeSame, AlikeDescends DEF Starts
  <1>2. t \in Live /\ ~Aside(Fut[t])  BY RefreshKind DEF Starts, Becomes
  <1>3. Fut[t].dir \in Dirs  BY <1>2, AboutTypes DEF FutTypes
  <1>4. \E state \in Entering : Enters(Fut[t], state)  BY DEF Starts, Entering
  <1> QED  BY <1>1, <1>3, <1>4, EntersRows, PaneParts

LEMMA FailsStep ==
  ASSUME PaneTypes, FutTypes, NEW t, Fails(t) PROVE Relists /\ SameCounts /\ Descends
  <1>1. t \in Live /\ ~Aside(Fut[t])  BY RefreshKind DEF Fails, Becomes
  <1>2. Fut[t].dir \in Dirs  BY <1>1, AboutTypes DEF FutTypes
  <1>3. Enters(Fut[t], "Error") /\ "Error" \in Entering  BY DEF Fails, Entering
  <1>4. Aside(Fail) /\ ~Counts(Fail)  BY DEF Fail, Aside, Counts, Refreshes
  <1>5. SameCounts  BY <1>4, RefreshSame DEF Fails
  <1>6. Descends  BY <1>4 DEF Fails, Becomes, Descends
  <1> QED  BY <1>2, <1>3, <1>5, <1>6, EntersRows, PaneParts

LEMMA ReadRow ==
  ASSUME PaneTypes, NEW d \in Dirs, listing' = WithBoth(listing, d, "Loaded", Present(d))
  PROVE  /\ ListingTypes(listing')
         /\ listing'[d].state = "Loaded" /\ listing'[d].entries = Present(d)
         /\ listing'[d].active = listing[d].active /\ listing'[d].gen = listing[d].gen
         /\ \A e \in Dirs : e # d => listing'[e] = listing[e]
  <1> DEFINE E == Present(d)
             n == listing[d].active
             h == listing[d].gen
             st == "Loaded"
             M == Reset(listing, d, st, E, n, h)
  <1>1. E \in EntriesOf(d) /\ n \in Int /\ h \in Nat /\ st \in States
    BY DEF Present, EntriesOf, PaneTypes, States
  <1>2. ListingTypes(listing)  BY PaneParts
  <1>3. listing' = M  BY <1>2, RowFields
  <1> HIDE DEF E, n, h, st
  <1>4. ListingTypes(M)  BY <1>1, <1>2, OneRow
  <1>5. M[d].state = st /\ M[d].entries = E /\ M[d].active = n /\ M[d].gen = h
    BY <1>1, <1>2, OneRow
  <1>6. \A e \in Dirs : e # d => M[e] = listing[e]  BY <1>1, <1>2, OneRow
  <1> HIDE DEF M
  <1> QED  BY <1>3, <1>4, <1>5, <1>6 DEF E, n, h, st

LEMMA ReadsStep ==
  ASSUME PaneTypes, FutTypes, NEW t, Reads(t) PROVE Relists /\ SameCounts /\ Descends
  <1> DEFINE g == Fut[t]
             d == g.dir
             f == IF Alive(g) THEN Kids(g) ELSE NoFn
  <1>1. t \in Live /\ ~Aside(g)  BY RefreshKind DEF Reads, Becomes
  <1>2. d \in Dirs  BY <1>1, AboutTypes DEF FutTypes
  <1>3. Becomes(t, f) /\ Refreshes(g) /\ UNCHANGED <<fs, lost>>
        /\ listing' = IF Alive(g) THEN WithBoth(listing, d, "Loaded", Present(d)) ELSE listing
    BY DEF Reads, WithBoth
  <1>4. f = NoFn \/ f = [k |-> "kids", gen |-> listing["folder"].gen, dir |-> "folder"]
    BY DEF Kids
  <1>5. ~Counts(f)
    BY <1>4 DEF NoFn, Counts
  <1>6. Aside(f) \/ (f.dir \in Dirs /\ f.gen = listing[f.dir].gen)
    BY <1>4 DEF NoFn, Aside, Counts, Refreshes, Dirs
  <1> HIDE DEF f
  <1>7. SameCounts  BY <1>3, <1>5, RefreshSame
  <1>8. Descends  BY <1>3, <1>6 DEF Becomes, Descends
  <1>9. Relists
    <2>1. CASE ~Alive(g)  BY <1>3, <2>1, SameListing
    <2>2. CASE Alive(g)
      <3>1. listing' = WithBoth(listing, d, "Loaded", Present(d))  BY <1>3, <2>2
      <3> HIDE DEF d
      <3>2. /\ ListingTypes(listing')
            /\ listing'[d].active = listing[d].active /\ listing'[d].gen = listing[d].gen
            /\ \A e \in Dirs : e # d => listing'[e] = listing[e]
        BY <1>2, <3>1, ReadRow
      <3> QED  BY <1>2, <1>3, <3>2 DEF Relists
    <2> QED  BY <2>1, <2>2
  <1> QED  BY <1>7, <1>8, <1>9

LEMMA SproutsStep ==
  ASSUME ExecInv, PaneTypes, NEW gone, NEW futs, Sprouts(gone, futs)
  PROVE  Relists /\ SameCounts /\ Descends
  <1>1. \A j \in 1 .. Len(futs) :
           /\ ~Counts(futs[j].fut)
           /\ \/ Aside(futs[j].fut)
              \/ futs[j].fut.dir \in Dirs /\ futs[j].fut.gen = listing[futs[j].fut.dir].gen
    BY ReloadIs, RefreshKind DEF Sprouts, Aside
  <1>2. \A t \in gone : ~Counts(Fut[t])  BY DEF Sprouts, Aside
  <1>3. SameCounts  BY <1>1, <1>2, TurnSame DEF Sprouts
  <1>4. Descends
    <2>1. \A u \in Live' : \/ u \in Live /\ Fut'[u] = Fut[u]
                          \/ \E j \in 1 .. Len(futs) : Fut'[u] = futs[j].fut
      BY NewNames DEF Sprouts
    <2> QED  BY <1>1, <2>1 DEF Descends
  <1> QED  BY <1>3, <1>4, SameListing DEF Sprouts

LEMMA PassesStep ==
  ASSUME ExecInv, PaneTypes, NEW t, NEW f, Passes(t, f) PROVE Relists /\ SameCounts /\ Descends
  <1> DEFINE futs == <<Ready(f)>>
  <1>1. Turns({t}, futs) /\ Refreshes(Fut[t]) /\ Alike(Fut[t], f) /\ t \in Live
    BY DEF Passes, Turns
  <1>2. Len(futs) \in Nat /\ 1 .. Len(futs) = {1} /\ futs[1].fut = f  BY DEF Ready
  <1>3. ~Counts(f) /\ ~Counts(Fut[t]) /\ ~Aside(Fut[t])  BY <1>1, RefreshKind DEF Alike
  <1> HIDE DEF futs
  <1>4. SameCounts  BY <1>1, <1>2, <1>3, TurnSame
  <1>5. \A u \in Live' : (u \in Live /\ Fut'[u] = Fut[u]) \/ Fut'[u] = f
    BY <1>1, <1>2, NewNames
  <1>6. Descends  BY <1>1, <1>3, <1>5 DEF Descends, Alike
  <1> QED  BY <1>4, <1>6, SameListing DEF Passes

\* A count changes, and nothing else of the listings.
Recounts(d, n) ==
    /\ ListingTypes(listing') /\ listing'[d].active = n /\ listing'[d].gen = listing[d].gen
    /\ listing'[d].state = listing[d].state /\ listing'[d].entries = listing[d].entries
    /\ \A e \in Dirs : e # d => listing'[e] = listing[e]

LEMMA ActiveRow ==
  ASSUME ListingTypes(listing), NEW d \in Dirs, NEW n \in Int, listing' = WithActive(listing, d, n)
  PROVE  Recounts(d, n)
  <1> DEFINE st == listing[d].state
             E == listing[d].entries
             g == listing[d].gen
  <1>1. st \in States /\ E \in EntriesOf(d) /\ g \in Nat  BY DEF ListingTypes, EntriesOf
  <1> DEFINE M == Reset(listing, d, st, E, n, g)
  <1>2. listing' = M  BY RowFields
  <1> HIDE DEF st, E, g
  <1>3. /\ ListingTypes(M)
        /\ M[d].state = st /\ M[d].entries = E /\ M[d].active = n /\ M[d].gen = g
        /\ \A e \in Dirs : e # d => M[e] = listing[e]
    BY <1>1, OneRow
  <1> HIDE DEF M
  <1>4. /\ ListingTypes(listing')
        /\ listing'[d].state = st /\ listing'[d].entries = E /\ listing'[d].active = n /\ listing'[d].gen = g
        /\ \A e \in Dirs : e # d => listing'[e] = listing[e]
    BY <1>2, <1>3
  <1> QED  BY <1>4 DEF Recounts, st, E, g

LEMMA CountedFinite ==
  ASSUME ExecInv, NEW d \in Dirs PROVE IsFiniteSet(Counted(d))
  <1>1. spawned \in Nat /\ Live \subseteq 1 .. spawned  BY LiveNames
  <1>2. IsFiniteSet(1 .. spawned)  BY <1>1, FS_Interval
  <1>3. Counted(d) \subseteq 1 .. spawned  BY <1>1 DEF Counted
  <1> QED  BY <1>2, <1>3, FS_Subset

\* The operation that begins is one more.
LEMMA BeginsStep ==
  ASSUME ExecInv, PaneTypes, Counting, LostOnes, NEW d \in Dirs, NEW op, NEW futs, Begins(d, op, futs)
  PROVE  Recounts(d, listing[d].active + 1) /\ Counting' /\ LostOnes' /\ Descends
  <1> DEFINE all == Append(futs, op)
             N == Len(futs)
  <1>1. /\ N \in Nat /\ Len(all) = N + 1 /\ all[N + 1] = op
        /\ \A j \in 1 .. N : all[j] = futs[j]
    BY AppendFuts DEF Begins
  <1>2. /\ Turns({}, all) /\ lost' = lost
        /\ Counts(op.fut) /\ op.fut.dir = d /\ op.fut.gen = listing[d].gen
    BY DEF Begins
  <1>3. \A j \in 1 .. N : /\ ~Counts(futs[j].fut) /\ futs[j].fut.dir \in Dirs
                         /\ futs[j].fut.gen = listing[futs[j].fut.dir].gen
    BY ReloadIs, RefreshKind DEF Begins
  <1>4. ListingTypes(listing) /\ listing[d].active \in Int  BY PaneParts DEF PaneTypes
  <1>5. Recounts(d, listing[d].active + 1)
    <2> DEFINE n == listing[d].active + 1
    <2>1. listing' = WithActive(listing, d, n) /\ n \in Int  BY <1>4 DEF Begins, Count, WithActive
    <2> HIDE DEF n
    <2>2. Recounts(d, n)  BY <1>4, <2>1, ActiveRow
    <2> QED  BY <2>2 DEF n
  <1>6. \A e \in Dirs : listing'[e].gen = listing[e].gen  BY <1>5 DEF Recounts
  <1> HIDE DEF all, N
  <1> DEFINE s == spawned + (N + 1)
  <1>7. spawned \in Nat /\ Live \subseteq 1 .. spawned  BY LiveNames
  <1>8. /\ s \notin Live /\ s \in Live' /\ Fut'[s] = op.fut
        /\ \A t \in Live : t \in Live' /\ Fut'[t] = Fut[t]
    <2>1. N + 1 \in 1 .. Len(all) /\ s \notin 1 .. spawned /\ s \in (spawned + 1) .. (spawned + Len(all))
      BY <1>1, <1>7
    <2>2. \A j \in 1 .. Len(all) : Fut'[spawned + j] = all[j].fut  BY <1>2 DEF Turns
    <2>3. Fut'[s] = all[N + 1].fut  BY <2>1, <2>2
    <2> HIDE DEF s
    <2> QED  BY <1>1, <1>2, <1>7, <2>1, <2>3 DEF Turns
  <1>9. \A t \in Live' : \/ t \in Live \/ t = s
                        \/ \E j \in 1 .. N : Fut'[t] = futs[j].fut
    <2> SUFFICES ASSUME NEW t \in Live', t \notin Live
                 PROVE  t = s \/ \E j \in 1 .. N : Fut'[t] = futs[j].fut
      OBVIOUS
    <2>1. PICK j \in 1 .. Len(all) : t = spawned + j /\ Fut'[t] = all[j].fut
      BY <1>1, <1>2, NewNames
    <2>2. j \in 1 .. N \/ j = N + 1  BY <1>1
    <2> QED  BY <1>1, <2>1, <2>2
  <1> HIDE DEF s
  <1>10. Counting'
    <2> SUFFICES ASSUME NEW e \in Dirs PROVE listing'[e].active = Cardinality((Counted(e))')
      BY DEF Counting
    <2>1. \A t \in Live' : Counts(Fut'[t]) => t \in Live \/ t = s  BY <1>3, <1>9
    <2>2. CASE e # d
      <3>1. (Counted(e))' = Counted(e)
        <4>1. \A t \in Live' : Counts(Fut'[t]) /\ Fut'[t].dir = e => t \in Live
          BY <1>2, <1>8, <2>1, <2>2
        <4> QED  BY <1>6, <1>8, <4>1 DEF Counted
      <3> QED  BY <1>5, <2>2, <3>1 DEF Counting, Recounts
    <2>3. CASE e = d
      <3>1. (Counted(d))' = Counted(d) \cup {s} /\ s \notin Counted(d)
        BY <1>2, <1>6, <1>8, <2>1 DEF Counted
      <3>2. Cardinality(Counted(d) \cup {s}) = Cardinality(Counted(d)) + 1
        BY <3>1, CountedFinite, FS_AddElement
      <3> QED  BY <1>5, <2>3, <3>1, <3>2 DEF Counting, Recounts
    <2> QED  BY <2>2, <2>3
  <1>11. LostOnes'
    <2>1. "folder" \in Dirs  BY DEF Dirs
    <2> SUFFICES ASSUME NEW t \in Live', Counts(Fut'[t]), Fut'[t].dir = "folder",
                        Fut'[t].gen # listing'["folder"].gen
                 PROVE  lost'
      BY DEF LostOnes
    <2>2. t # s  BY <1>2, <1>6, <1>8, <2>1
    <2>3. t \in Live  BY <1>3, <1>9, <2>2
    <2> QED  BY <1>2, <1>6, <1>8, <2>1, <2>3 DEF LostOnes
  <1>12. Descends
    BY <1>2, <1>3, <1>8, <1>9 DEF Descends
  <1> QED  BY <1>5, <1>10, <1>11, <1>12

\* The operation that ends is one less.
LEMMA EndsStep ==
  ASSUME ExecInv, FutTypes, PaneTypes, Counting, LostOnes, NEW t, Ends(t)
  PROVE  /\ ListingTypes(listing') /\ Counting' /\ LostOnes' /\ Descends
         /\ \A e \in Dirs : /\ listing'[e].gen = listing[e].gen /\ listing'[e].state = listing[e].state
                           /\ listing'[e].entries = listing[e].entries
  <1> DEFINE g == Fut[t]
             d == g.dir
             left == listing[d].active - 1
             futs == IF Alive(g) /\ left = 0 THEN <<Reload(d, FALSE)>> ELSE <<>>
  <1>1. /\ Turns({t}, futs) /\ g.k = "opend" /\ UNCHANGED <<fs, lost>>
        /\ listing' = IF Alive(g) THEN [listing EXCEPT ![d].active = left] ELSE listing
    BY DEF Ends
  <1>2. t \in Live /\ Counts(g) /\ ~Aside(g)  BY <1>1 DEF Turns, Counts, Aside
  <1>3. d \in Dirs  BY <1>2, AboutTypes DEF FutTypes
  <1>4. /\ Len(futs) \in Nat
        /\ \A j \in 1 .. Len(futs) : /\ ~Counts(futs[j].fut) /\ futs[j].fut.dir = d
                                    /\ futs[j].fut.gen = listing[d].gen
    <2>1. CASE Alive(g) /\ left = 0
      <3>1. futs = <<Reload(d, FALSE)>>  BY <2>1
      <3> DEFINE r == Reload(d, FALSE)
      <3>2. futs = <<r>>  BY <3>1
      <3> HIDE DEF futs, d
      <3>3. ~Counts(r.fut) /\ r.fut.dir = d /\ r.fut.gen = listing[d].gen
        BY ReloadIs, RefreshKind
      <3> HIDE DEF r
      <3>4. Len(futs) = 1 /\ futs[1] = r  BY <3>2
      <3> QED  BY <3>3, <3>4
    <2>2. CASE ~(Alive(g) /\ left = 0)  BY <2>2
    <2> QED  BY <2>1, <2>2
  <1>5. ListingTypes(listing) /\ left \in Int  BY <1>3, PaneParts DEF PaneTypes
  <1>6. Alive(g) => Recounts(d, left)
    <2>1. Alive(g) => listing' = WithActive(listing, d, left)  BY <1>1 DEF WithActive
    <2> HIDE DEF d, left
    <2> QED  BY <1>3, <1>5, <2>1, ActiveRow
  <1>7. ~Alive(g) => listing' = listing  BY <1>1
  <1>8. Alive(g) <=> g.gen = listing[d].gen  BY DEF Alive
  <1> HIDE DEF futs, left
  <1>9. /\ \A e \in Dirs : listing'[e].gen = listing[e].gen /\ listing'[e].state = listing[e].state
        /\ \A e \in Dirs : listing'[e].entries = listing[e].entries
    BY <1>6, <1>7 DEF Recounts
  <1>17. \A e \in Dirs : (Alive(g) /\ e = d) \/ listing'[e].active = listing[e].active
    BY <1>6, <1>7 DEF Recounts
  <1>10. \A u \in Live \ {t} : u \in Live' /\ Fut'[u] = Fut[u]  BY <1>1 DEF Turns
  <1>11. \A u \in Live' : (u \in Live \ {t} /\ Fut'[u] = Fut[u])
                        \/ (u \notin Live /\ \E j \in 1 .. Len(futs) : Fut'[u] = futs[j].fut)
    BY <1>1, <1>4, NewNames
  <1>12. \A u \in Live' : Counts(Fut'[u]) => u \in Live \ {t}  BY <1>4, <1>11
  <1> HIDE DEF d, g
  <1>13. Counting'
    <2> SUFFICES ASSUME NEW e \in Dirs PROVE listing'[e].active = Cardinality((Counted(e))')
      BY DEF Counting
    <2>1. (Counted(e))' = Counted(e) \ {t}
      BY <1>9, <1>10, <1>12 DEF Counted
    <2>2. t \in Counted(e) <=> (e = d /\ Alive(g))
      BY <1>2, <1>8 DEF Counted, d, g
    <2>3. Cardinality(Counted(e) \ {t}) = IF t \in Counted(e) THEN Cardinality(Counted(e)) - 1
                                         ELSE Cardinality(Counted(e))
      BY CountedFinite, FS_RemoveElement
    <2>4. CASE e = d /\ Alive(g)
      <3>1. listing'[e].active = left  BY <1>6, <2>4 DEF Recounts
      <3> QED  BY <2>1, <2>2, <2>3, <2>4, <3>1 DEF Counting, left
    <2>5. CASE ~(e = d /\ Alive(g))
      BY <1>17, <2>1, <2>2, <2>3, <2>5 DEF Counting
    <2> QED  BY <2>4, <2>5
  <1>14. LostOnes'
    <2>1. "folder" \in Dirs /\ lost' = lost  BY <1>1 DEF Dirs
    <2> QED  BY <1>9, <1>10, <1>12, <2>1 DEF LostOnes
  <1>15. Descends
    BY <1>3, <1>4, <1>11 DEF Descends
  <1>16. ListingTypes(listing')  BY <1>5, <1>6, <1>7 DEF Recounts
  <1> QED  BY <1>9, <1>13, <1>14, <1>15, <1>16

-----------------------------------------------------------------------------
(* Generations and counts stay right. *)

CountsInv == Generations /\ Counting /\ LostOnes

LEMMA RelistsCounts ==
  ASSUME ExecInv, TypesInv, CountsInv, Relists, SameCounts, Descends
  PROVE  CountsInv' /\ ListingTypes(listing')
  <1>1. FutTypes /\ PaneTypes /\ Generations /\ Counting /\ LostOnes  BY DEF TypesInv, CountsInv
  <1>2. Counting' /\ LostOnes'  BY <1>1, KeepCounts
  <1>3. \A d \in Dirs : listing'[d].gen = listing[d].gen
                     \/ (d # "root" /\ listing'[d].gen = listing[d].gen + 1)
    BY DEF Relists
  <1>4. Generations'  BY <1>1, <1>3, GenerationsKept
  <1> QED  BY <1>2, <1>4 DEF CountsInv, Relists

LEMMA CountsKept ==
  ASSUME ExecInv, TypesInv, CountsInv, PaneStep
  PROVE  CountsInv' /\ ListingTypes(listing')
  <1>1. FutTypes /\ PaneTypes /\ Generations /\ Counting /\ LostOnes  BY DEF TypesInv, CountsInv
  <1>2. CASE \E t, f : Works(t, f) \/ Starts(t, f) \/ Passes(t, f)
    <2>1. PICK t, f : Works(t, f) \/ Starts(t, f) \/ Passes(t, f)  BY <1>2
    <2>2. Relists /\ SameCounts /\ Descends
      BY <1>1, <2>1, WorksStep, StartsStep, PassesStep
    <2> QED  BY <2>2, RelistsCounts
  <1>3. CASE \E t : Fails(t) \/ Reads(t)
    <2>1. PICK t : Fails(t) \/ Reads(t)  BY <1>3
    <2>2. Relists /\ SameCounts /\ Descends  BY <1>1, <2>1, FailsStep, ReadsStep
    <2> QED  BY <2>2, RelistsCounts
  <1>4. CASE \E t : Ends(t)
    <2>1. PICK t : Ends(t)  BY <1>4
    <2>2. /\ ListingTypes(listing') /\ Counting' /\ LostOnes' /\ Descends
          /\ \A e \in Dirs : listing'[e].gen = listing[e].gen
      BY <1>1, <2>1, EndsStep
    <2>3. Generations'  BY <1>1, <2>2, GenerationsKept
    <2> QED  BY <2>2, <2>3 DEF CountsInv
  <1>5. CASE \E gone, futs : Sprouts(gone, futs)
    <2>1. PICK gone, futs : Sprouts(gone, futs)  BY <1>5
    <2>2. Relists /\ SameCounts /\ Descends  BY <1>1, <2>1, SproutsStep
    <2> QED  BY <2>2, RelistsCounts
  <1>6. CASE \E d \in Dirs : \E op, futs : Begins(d, op, futs)
    <2>1. PICK d \in Dirs : \E op, futs : Begins(d, op, futs)  BY <1>6
    <2>2. PICK op, futs : Begins(d, op, futs)  BY <2>1
    <2>3. Recounts(d, listing[d].active + 1) /\ Counting' /\ LostOnes' /\ Descends
      BY <1>1, <2>2, BeginsStep
    <2>4. ListingTypes(listing') /\ \A e \in Dirs : listing'[e].gen = listing[e].gen
      BY <2>3 DEF Recounts
    <2>5. Generations'  BY <1>1, <2>3, <2>4, GenerationsKept
    <2> QED  BY <2>3, <2>4, <2>5 DEF CountsInv
  <1> QED  BY <1>2, <1>3, <1>4, <1>5, <1>6 DEF PaneStep

LEMMA NextFutTypes ==
  ASSUME ExecInv, ExecInv', TypesInv, [Next]_vars PROVE FutTypes'
  <1>1. \A t \in Live : FutType(Fut[t])  BY DEF TypesInv, FutTypes
  <1>2. TypedStep  BY StepTyped
  <1>3. CASE UNCHANGED <<tasks, fns>>
    <2>1. Live' = Live /\ Fut' = Fut  BY <1>3 DEF Live, Fut, Ids
    <2> QED  BY <1>1, <2>1 DEF FutTypes
  <1>4. CASE \/ \E i \in DOMAIN tasks : \E st \in {"blocked", "done"} : \E fut : FutType(fut) /\ Polls(i, st, fut)
             \/ \E i \in DOMAIN tasks : \E fut : FutType(fut) /\ (Wakes(i, fut) \/ Marks(i, fut))
    <2>3. PICK i \in DOMAIN tasks :
             \/ \E st \in {"blocked", "done"} : \E fut : FutType(fut) /\ Polls(i, st, fut)
             \/ \E fut : FutType(fut) /\ (Wakes(i, fut) \/ Marks(i, fut))
      BY <1>4
    <2>1. PICK fut : /\ FutType(fut)
                     /\ \/ \E st \in {"blocked", "done"} : Polls(i, st, fut)
                        \/ Wakes(i, fut) \/ Marks(i, fut)
      BY <2>3
    <2>2. Becomes(tasks[i].id, fut)  BY <2>1, Touched
    <2> QED  BY <1>1, <2>1, <2>2 DEF FutTypes, Becomes
  <1>5. \A gone, futs : Turns(gone, futs) /\ (\A j \in 1 .. Len(futs) : FutType(futs[j].fut)) => FutTypes'
    <2> SUFFICES ASSUME NEW gone, NEW futs, Turns(gone, futs), \A j \in 1 .. Len(futs) : FutType(futs[j].fut)
                 PROVE  FutTypes'
      OBVIOUS
    <2>1. \A u \in Live' : (u \in Live /\ Fut'[u] = Fut[u]) \/ \E j \in 1 .. Len(futs) : Fut'[u] = futs[j].fut
      BY NewNames
    <2> QED  BY <1>1, <2>1 DEF FutTypes
  <1>6. CASE \E futs : TypedFuts(futs) /\ ((SpawnTo(tasks, futs) /\ fns' = fns) \/ RunsFn(futs))
    <2>1. PICK futs : TypedFuts(futs) /\ ((SpawnTo(tasks, futs) /\ fns' = fns) \/ RunsFn(futs))  BY <1>6
    <2>2. Futs(futs) /\ \A j \in 1 .. Len(futs) : FutType(futs[j].fut)  BY <2>1 DEF TypedFuts
    <2>3. \E gone : Turns(gone, futs)
      <3>1. (SpawnTo(tasks, futs) /\ fns' = fns) => Turns({}, futs)  BY <2>2, SpawnedFuts
      <3>2. RunsFn(futs) => \E t : Turns({t}, futs)  BY <2>2, RanFuts
      <3> QED  BY <2>1, <3>1, <3>2
    <2> QED  BY <1>5, <2>2, <2>3
  <1>7. CASE Collect
    <2>1. \E gone : Turns(gone, <<>>)  BY <1>7, CollectedFuts
    <2>2. \A j \in 1 .. Len(<<>>) : FutType(<<>>[j].fut)  OBVIOUS
    <2> QED  BY <1>5, <2>1, <2>2
  <1> QED  BY <1>2, <1>3, <1>4, <1>6, <1>7 DEF TypedStep

LEMMA NextTypes ==
  ASSUME ExecInv, ExecInv', TypesInv, CountsInv, PipeShape, [Next]_vars
  PROVE  TypesInv' /\ CountsInv'
  <1>1. CountsInv' /\ ListingTypes(listing')  BY StepPane, CountsKept
  <1>2. FutTypes'  BY NextFutTypes
  <1>3. PaneTypes'  BY <1>1, NextFs, NextSelected, NextLooks, PanePartsNext
  <1> QED  BY <1>1, <1>2, <1>3 DEF TypesInv

LEMMA InitTypes ==
  ASSUME Init PROVE TypesInv /\ CountsInv
  <1>1. tasks = <<>> /\ fns = <<>>  BY DEF Init, ExecInit
  <1>2. Live = {}  BY <1>1 DEF Live, Ids
  <1>3. FutTypes  BY <1>2 DEF FutTypes
  <1>4. PICK failed : PresetInit(failed)  BY DEF Init
  <1> DEFINE R == Row("Loaded", Present("root"), 0, 0)
             F == Row("NotLoaded", {}, 0, 0)
  <1>5. listing = [root |-> R, folder |-> F]  BY <1>4 DEF PresetInit, NewListing, Row
  <1>6. /\ R = [state |-> R.state, entries |-> R.entries, active |-> R.active, gen |-> R.gen]
        /\ R.state \in States /\ R.entries \subseteq NamesOf("root") /\ R.active = 0 /\ R.gen = 0
    BY DEF Row, States, Present
  <1>7. /\ F = [state |-> F.state, entries |-> F.entries, active |-> F.active, gen |-> F.gen]
        /\ F.state \in States /\ F.entries \subseteq NamesOf("folder") /\ F.active = 0 /\ F.gen = 0
    BY DEF Row, States
  <1> HIDE DEF R, F
  <1>8. Dirs = {"root", "folder"} /\ DOMAIN listing = Dirs /\ listing["root"] = R /\ listing["folder"] = F
    BY <1>5 DEF Dirs
  <1>9. ListingTypes(listing)
    <2>1. listing = [d \in Dirs |-> listing[d]]  BY <1>5 DEF Dirs
    <2> QED  BY <1>6, <1>7, <1>8, <2>1 DEF ListingTypes
  <1>10. FsTypes(fs)
    <2>1. 1 \in Value /\ NoFile \in Value  BY PresetsAssumption DEF Value
    <2> QED  BY <1>4, <2>1 DEF PresetInit, FsTypes
  <1>11. SelType(selected)
    <2>1. FirstOf("root") \in NamesOf("root")  BY PresetsAssumption DEF FirstOf, NamesOf
    <2>2. selected = [dir |-> "root", name |-> FirstOf("root"), v |-> 1]  BY <1>4 DEF PresetInit
    <2> HIDE DEF FirstOf
    <2> QED  BY <2>1, <2>2 DEF SelType, Dirs
  <1>12. settings \in Versions /\ mode \in Modes
    BY VersionsAssumption DEF Init, PreviewInit, Modes
  <1>13. PaneTypes  BY <1>9, <1>10, <1>11, <1>12, PaneParts
  <1>14. Generations  BY <1>2, <1>6, <1>8 DEF Generations
  <1>15. Counting
    <2>1. \A d \in Dirs : Counted(d) = {}  BY <1>2 DEF Counted
    <2> QED  BY <1>6, <1>7, <1>8, <2>1, FS_EmptySet DEF Counting
  <1>16. LostOnes  BY <1>2 DEF LostOnes
  <1> QED  BY <1>3, <1>13, <1>14, <1>15, <1>16 DEF TypesInv, CountsInv

LEMMA StateInvHolds == Spec => [](ExecInv /\ PreviewInv /\ TypesInv /\ CountsInv)
  <1>1. ExecInv /\ ExecInv' /\ PreviewInv /\ TypesInv /\ CountsInv /\ [Next]_vars
        => TypesInv' /\ CountsInv'
    BY NextTypes DEF PreviewInv
  <1> QED  BY InitTypes, ExecInvHolds, PreviewInvHolds, <1>1, PTL DEF Spec

\* Across the executor, the presets pane, the preview and the render queue, the
\* state has its types; what a listing shows are names of its directory, and an
\* operation is never counted down twice: the counts stay above zero, which the
\* code's usize needs.
THEOREM TypeOKHolds == Spec => []TypeOK
  <1>1. ExecInv /\ PreviewInv /\ TypesInv /\ CountsInv => TypeOK
    <2> SUFFICES ASSUME ExecInv, PreviewInv, TypesInv, CountsInv PROVE TypeOK  OBVIOUS
    <2>1. /\ ui \in Phases \cup {"panic"} /\ repaint \in BOOLEAN /\ spawned \in 0 .. MaxTasks
          /\ fns # <<>> <=> ui = "run"
      BY DEF ExecInv, TaskTypes
    <2>2. \A i \in DOMAIN tasks : tasks[i].st \in {"ready", "blocked", "done"} /\ tasks[i].id \in 1 .. spawned
      <3>1. PICK F : tasks \in Seq(Items(F, spawned))  BY DEF ExecInv, TaskTypes
      <3> QED  BY <2>1, <3>1, ItemsOf
    <2>3. \A d \in Dirs : /\ listing[d].state \in States
                          /\ listing[d].entries \subseteq NamesOf(d)
                          /\ listing[d].active \in Nat
      <3>1. \A d \in Dirs : listing[d].active = Cardinality(Counted(d)) /\ IsFiniteSet(Counted(d))
        BY CountedFinite DEF CountsInv, Counting
      <3>2. \A d \in Dirs : listing[d].active \in Nat  BY <3>1, FS_CardinalityType
      <3> QED  BY <3>2 DEF TypesInv, PaneTypes
    <2>4. settings \in Versions /\ mode \in Modes  BY DEF TypesInv, PaneTypes
    <2>5. /\ pipe # NoPipe => pipe.status \in {"Loading", "Loaded", "Error"}
          /\ sink.holder = "ui" <=> call.pc = "draw"
          /\ sink.holder = "stream" <=> stream = "draw"
          /\ pipe = NoPipe => call = NoCall /\ stream = "idle"
      BY DEF PreviewInv, PipeShape, Holders
    <2> QED  BY <2>1, <2>2, <2>3, <2>4, <2>5 DEF TypeOK
  <1> QED  BY StateInvHolds, <1>1, PTL

-----------------------------------------------------------------------------
(* A listing that is not what its directory holds will be loaded again: some *)
(* task will do it, or the last of the operations in flight.                 *)

Pending(d) == \E t \in Live : ~Aside(Fut[t]) /\ Alive(Fut[t]) /\ Fut[t].dir \in {d, "root"}
FreshAt(d) == /\ listing[d].state = "Loaded" /\ (d = "folder" => ~lost)
              => listing[d].entries = Present(d) \/ Pending(d)
FreshInv == \A d \in Dirs : FreshAt(d)

\* What is about the root is about the present root.
LEMMA RootAlive ==
  ASSUME FutTypes, Generations, NEW t \in Live, ~Aside(Fut[t])
  PROVE  Alive(Fut[t]) \/ Fut[t].dir = "folder"
  <1>1. Fut[t].dir \in Dirs /\ Fut[t].gen \in Nat  BY AboutTypes DEF FutTypes
  <1>2. Fut[t].gen <= listing[Fut[t].dir].gen /\ listing["root"].gen = 0  BY DEF Generations
  <1> QED  BY <1>1, <1>2 DEF Alive, Dirs

LEMMA StillFresh ==
  ASSUME NEW d \in Dirs, FreshAt(d), Pending(d) => Pending(d)',
         listing'[d].state = listing[d].state, listing'[d].entries = listing[d].entries,
         fs'[d] = fs[d], lost => lost'
  PROVE  FreshAt(d)'
BY DEF FreshAt, Present

\* Who is pending goes on, with the same listing.
LEMMA Carries ==
  ASSUME NEW d \in Dirs, listing'[d].gen = listing[d].gen, listing'["root"].gen = listing["root"].gen,
         \A u \in Live : ~Aside(Fut[u]) /\ Alive(Fut[u]) /\ Fut[u].dir \in {d, "root"} =>
            \E w \in Live' : ~Aside(Fut'[w]) /\ Fut'[w].dir = Fut[u].dir /\ Fut'[w].gen = Fut[u].gen
  PROVE  Pending(d) => Pending(d)'
BY DEF Pending, Alive

LEMMA AlikeCarries ==
  ASSUME NEW t, NEW f, Becomes(t, f), Alike(Fut[t], f)
  PROVE  \A u \in Live : ~Aside(Fut[u]) =>
            \E w \in Live' : ~Aside(Fut'[w]) /\ Fut'[w].dir = Fut[u].dir /\ Fut'[w].gen = Fut[u].gen
BY DEF Becomes, Alike, Aside

LEMMA WorksFresh ==
  ASSUME TypesInv, CountsInv, FreshInv, NEW t, NEW f, Works(t, f) PROVE FreshInv'
  <1> SUFFICES ASSUME NEW d \in Dirs PROVE FreshAt(d)'  BY DEF FreshInv
  <1>1. FreshAt(d)  BY DEF FreshInv
  <1>2. Becomes(t, f) /\ Alike(Fut[t], f) /\ listing' = listing /\ lost' = lost  BY DEF Works
  <1>3. Pending(d) => Pending(d)'  BY <1>2, AlikeCarries, Carries
  <1>4. CASE fs'[d] = fs[d]  BY <1>1, <1>2, <1>3, <1>4, StillFresh
  <1>5. CASE fs'[d] # fs[d]
    <2>1. t \in Live /\ Counts(Fut[t]) /\ ~Aside(Fut[t]) /\ Fut[t].dir \in {d, "root"}
      BY <1>2, <1>5 DEF Works, Becomes, Aside
    <2>2. CASE Alive(Fut[t])
      <3>1. t \in Live' /\ ~Aside(Fut'[t]) /\ Fut'[t].dir = Fut[t].dir /\ Fut'[t].gen = Fut[t].gen
        BY <1>2, <2>1 DEF Becomes, Alike, Aside
      <3>2. Pending(d)'  BY <1>2, <2>1, <2>2, <3>1 DEF Pending, Alive
      <3> QED  BY <3>2 DEF FreshAt
    <2>3. CASE ~Alive(Fut[t])
      <3>1. Fut[t].dir = "folder"  BY <2>1, <2>3, RootAlive DEF TypesInv, CountsInv
      <3>2. lost  BY <2>1, <2>3, <3>1 DEF CountsInv, LostOnes, Alive
      <3> QED  BY <1>2, <2>1, <3>1, <3>2 DEF FreshAt
    <2> QED  BY <2>2, <2>3
  <1> QED  BY <1>4, <1>5

\* A reload that starts, and one that fails.
LEMMA StartsFresh ==
  ASSUME TypesInv, CountsInv, FreshInv, NEW t, NEW f, Starts(t, f) PROVE FreshInv'
  <1> SUFFICES ASSUME NEW d \in Dirs PROVE FreshAt(d)'  BY DEF FreshInv
  <1> DEFINE g == Fut[t]
  <1>1. FreshAt(d)  BY DEF FreshInv
  <1>2. Becomes(t, f) /\ Alike(g, f) /\ fs' = fs  BY DEF Starts
  <1>3. t \in Live /\ ~Aside(g) /\ g.dir \in Dirs
    <2>1. t \in Live /\ ~Aside(g)  BY RefreshKind DEF Starts, Becomes
    <2> QED  BY <2>1, AboutTypes DEF TypesInv, FutTypes
  <1>4. PICK state \in {"Loading", "Reloading"} : Enters(g, state)  BY DEF Starts
  <1>5. /\ Relists
        /\ ~Alive(g) => listing' = listing
        /\ Alive(g) => /\ listing'[g.dir].state = state
                       /\ \A e \in Dirs : \/ e = g.dir \/ listing'[e] = listing[e]
                                        \/ listing'[e].state = "NotLoaded"
    <2>1. ListingTypes(listing) /\ state \in Entering  BY PaneParts DEF TypesInv, Entering
    <2> HIDE DEF g
    <2> QED  BY <1>3, <1>4, <2>1, EntersRows
  <1>6. lost => lost'  BY <1>5 DEF Relists
  <1>7. CASE listing'[d] = listing[d]
    <2>1. listing'["root"].gen = listing["root"].gen  BY <1>5 DEF Relists, Dirs
    <2>2. Pending(d) => Pending(d)'  BY <1>2, <1>7, <2>1, AlikeCarries, Carries
    <2> QED  BY <1>1, <1>2, <1>6, <1>7, <2>2, StillFresh
  <1>8. CASE listing'[d].state # "Loaded"  BY <1>8 DEF FreshAt
  <1> QED  BY <1>5, <1>7, <1>8

LEMMA FailsFresh ==
  ASSUME TypesInv, CountsInv, FreshInv, NEW t, Fails(t) PROVE FreshInv'
  <1> SUFFICES ASSUME NEW d \in Dirs PROVE FreshAt(d)'  BY DEF FreshInv
  <1> DEFINE g == Fut[t]
  <1>1. FreshAt(d)  BY DEF FreshInv
  <1>2. Becomes(t, Fail) /\ fs' = fs /\ Enters(g, "Error")  BY DEF Fails
  <1>3. t \in Live /\ ~Aside(g) /\ g.dir \in Dirs
    <2>1. t \in Live /\ ~Aside(g)  BY RefreshKind DEF Fails, Becomes
    <2> QED  BY <2>1, AboutTypes DEF TypesInv, FutTypes
  <1>4. /\ Relists
        /\ ~Alive(g) => listing' = listing
        /\ Alive(g) => /\ listing'[g.dir].state = "Error"
                       /\ g.dir = "root" => listing'["folder"].state = "NotLoaded"
                       /\ \A e \in Dirs : \/ e = g.dir \/ listing'[e] = listing[e]
                                        \/ listing'[e].state = "NotLoaded"
    <2>1. ListingTypes(listing) /\ "Error" \in Entering  BY PaneParts DEF TypesInv, Entering
    <2> HIDE DEF g
    <2> QED  BY <1>2, <1>3, <2>1, EntersRows
  <1>6. lost => lost'  BY <1>4 DEF Relists
  <1>7. CASE listing'[d] = listing[d] /\ listing'[d].state = "Loaded"
    <2>1. listing'["root"].gen = listing["root"].gen  BY <1>4 DEF Relists, Dirs
    <2>2. \A u \in Live : ~Aside(Fut[u]) /\ Alive(Fut[u]) /\ Fut[u].dir \in {d, "root"} => u # t
      <3>1. Alive(g) => g.dir # d /\ g.dir # "root"  BY <1>4, <1>7 DEF Dirs
      <3> QED  BY <3>1
    <2>3. Pending(d) => Pending(d)'
      <3>1. \A u \in Live : u # t => u \in Live' /\ Fut'[u] = Fut[u]  BY <1>2 DEF Becomes
      <3> QED  BY <1>7, <2>1, <2>2, <3>1, Carries
    <2> QED  BY <1>1, <1>2, <1>6, <1>7, <2>3, StillFresh
  <1>8. CASE listing'[d].state # "Loaded"  BY <1>8 DEF FreshAt
  <1> QED  BY <1>4, <1>7, <1>8

\* A reload that has read the directory.
LEMMA ReadsFresh ==
  ASSUME TypesInv, CountsInv, FreshInv, NEW t, Reads(t) PROVE FreshInv'
  <1> SUFFICES ASSUME NEW d \in Dirs PROVE FreshAt(d)'  BY DEF FreshInv
  <1> DEFINE g == Fut[t]
             f == IF Alive(g) THEN Kids(g) ELSE NoFn
  <1>1. FreshAt(d)  BY DEF FreshInv
  <1>2. /\ Becomes(t, f) /\ fs' = fs /\ lost' = lost
        /\ ~Alive(g) => listing' = listing
        /\ Alive(g) => listing' = WithBoth(listing, g.dir, "Loaded", Present(g.dir))
    BY DEF Reads, WithBoth
  <1>3. t \in Live /\ ~Aside(g) /\ g.dir \in Dirs
    <2>1. t \in Live /\ ~Aside(g)  BY RefreshKind DEF Reads, Becomes
    <2> QED  BY <2>1, AboutTypes DEF TypesInv, FutTypes
  <1>4. Alive(g) => /\ listing'[g.dir].state = "Loaded" /\ listing'[g.dir].entries = Present(g.dir)
                    /\ listing'[g.dir].gen = listing[g.dir].gen
                    /\ \A e \in Dirs : e # g.dir => listing'[e] = listing[e]
    <2> HIDE DEF g
    <2> QED  BY <1>2, <1>3, ReadRow DEF TypesInv
  <1>5. \A u \in Live : u # t => u \in Live' /\ Fut'[u] = Fut[u]  BY <1>2 DEF Becomes
  <1>6. \A e \in Dirs : listing'[e].gen = listing[e].gen  BY <1>2, <1>4
  <1>7. "root" \in Dirs /\ (d = "root" \/ d = "folder")  BY DEF Dirs
  <1>8. CASE Alive(g) /\ g.dir = d
    <2>1. listing'[d].entries = Present(d)  BY <1>4, <1>8
    <2>2. Present(d)' = Present(d)  BY <1>2 DEF Present
    <2> QED  BY <2>1, <2>2 DEF FreshAt
  <1>9. CASE listing'[d] = listing[d] /\ ~(Alive(g) /\ g.dir \in {d, "root"})
    <2>1. Pending(d) => Pending(d)'
      <3>1. \A u \in Live : ~Aside(Fut[u]) /\ Alive(Fut[u]) /\ Fut[u].dir \in {d, "root"} => u # t
        BY <1>9
      <3> QED  BY <1>5, <1>6, <1>7, <3>1, Carries
    <2> QED  BY <1>1, <1>2, <1>9, <2>1, StillFresh
  <1>10. CASE Alive(g) /\ g.dir = "root" /\ d = "folder"
    <2>1. listing'["folder"] = listing["folder"]  BY <1>4, <1>10
    <2>2. CASE listing["folder"].state = "Loaded"
      <3>1. f = [k |-> "kids", gen |-> listing["folder"].gen, dir |-> "folder"]
        BY <1>10, <2>2 DEF Kids
      <3>2. Fut'[t] = f /\ t \in Live'  BY <1>2, <1>3 DEF Becomes
      <3> HIDE DEF g, f
      <3>3. f.k = "kids" /\ f.gen = listing["folder"].gen /\ f.dir = "folder"  BY <3>1
      <3>4. ~Aside(f)  BY <3>3 DEF Aside, Refreshes
      <3>5. Pending(d)'  BY <1>10, <2>1, <3>2, <3>3, <3>4 DEF Pending, Alive
      <3> QED  BY <3>5 DEF FreshAt
    <2>3. CASE listing["folder"].state # "Loaded"  BY <1>10, <2>1, <2>3 DEF FreshAt
    <2> QED  BY <2>2, <2>3
  <1> QED  BY <1>2, <1>3, <1>4, <1>7, <1>8, <1>9, <1>10

\* Tasks that are over, and tasks that begin, without a change of the rows.
LEMMA TurnsFresh ==
  ASSUME ExecInv, TypesInv, CountsInv, FreshInv, NEW gone, NEW futs, Turns(gone, futs), fs' = fs, lost' = lost,
         \A e \in Dirs : listing'[e].gen = listing[e].gen /\ listing'[e].state = listing[e].state,
         \A e \in Dirs : listing'[e].entries = listing[e].entries,
         \A u \in gone : ~Aside(Fut[u]) /\ Alive(Fut[u]) =>
            \E w \in Live' : ~Aside(Fut'[w]) /\ Fut'[w].dir = Fut[u].dir /\ Fut'[w].gen = Fut[u].gen
  PROVE  FreshInv'
  <1> SUFFICES ASSUME NEW d \in Dirs PROVE FreshAt(d)'  BY DEF FreshInv
  <1>1. FreshAt(d)  BY DEF FreshInv
  <1>2. \A u \in Live \ gone : u \in Live' /\ Fut'[u] = Fut[u]  BY DEF Turns
  <1>3. \A u \in Live : ~Aside(Fut[u]) /\ Alive(Fut[u]) /\ Fut[u].dir \in {d, "root"} =>
            \E w \in Live' : ~Aside(Fut'[w]) /\ Fut'[w].dir = Fut[u].dir /\ Fut'[w].gen = Fut[u].gen
    BY <1>2
  <1>4. "root" \in Dirs  BY DEF Dirs
  <1>5. Pending(d) => Pending(d)'  BY <1>3, <1>4, Carries
  <1> QED  BY <1>1, <1>5, StillFresh

LEMMA SproutsFresh ==
  ASSUME ExecInv, TypesInv, CountsInv, FreshInv, NEW gone, NEW futs, Sprouts(gone, futs) PROVE FreshInv'
BY TurnsFresh DEF Sprouts

LEMMA PassesFresh ==
  ASSUME ExecInv, TypesInv, CountsInv, FreshInv, NEW t, NEW f, Passes(t, f) PROVE FreshInv'
  <1> DEFINE futs == <<Ready(f)>>
             s == spawned + 1
  <1>1. Turns({t}, futs) /\ Refreshes(Fut[t]) /\ Alike(Fut[t], f) /\ UNCHANGED <<fs, listing, lost>>
    BY DEF Passes
  <1>2. 1 \in 1 .. Len(futs) /\ Len(futs) = 1 /\ futs[1].fut = f  BY DEF Ready
  <1>3. spawned \in Nat  BY LiveNames
  <1> HIDE DEF futs
  <1>4. s \in (spawned + 1) .. (spawned + Len(futs)) /\ Fut'[s] = f
    BY <1>1, <1>2, <1>3 DEF Turns
  <1> HIDE DEF s
  <1>5. s \in Live'  BY <1>1, <1>4 DEF Turns
  <1>6. ~Aside(Fut'[s]) /\ Fut'[s].dir = Fut[t].dir /\ Fut'[s].gen = Fut[t].gen
    BY <1>1, <1>4, RefreshKind DEF Alike, Aside
  <1> QED  BY <1>1, <1>5, <1>6, TurnsFresh

LEMMA BeginsFresh ==
  ASSUME ExecInv, TypesInv, CountsInv, FreshInv, NEW d \in Dirs, NEW op, NEW futs, Begins(d, op, futs)
  PROVE  FreshInv'
  <1>1. Recounts(d, listing[d].active + 1)  BY BeginsStep DEF TypesInv, CountsInv
  <1>2. /\ \A e \in Dirs : listing'[e].gen = listing[e].gen /\ listing'[e].state = listing[e].state
        /\ \A e \in Dirs : listing'[e].entries = listing[e].entries
    BY <1>1 DEF Recounts
  <1>3. Turns({}, Append(futs, op)) /\ fs' = fs /\ lost' = lost  BY DEF Begins
  <1> QED  BY <1>2, <1>3, TurnsFresh

\* The last operation on a listing loads it again; before, another one is left.
LEMMA EndsFresh ==
  ASSUME ExecInv, TypesInv, CountsInv, FreshInv, NEW t, Ends(t) PROVE FreshInv'
  <1> DEFINE g == Fut[t]
             d == g.dir
             left == listing[d].active - 1
             futs == IF Alive(g) /\ left = 0 THEN <<Reload(d, FALSE)>> ELSE <<>>
  <1>1. Turns({t}, futs) /\ g.k = "opend" /\ UNCHANGED <<fs, lost>>  BY DEF Ends
  <1>2. t \in Live /\ Counts(g) /\ ~Aside(g)  BY <1>1 DEF Turns, Counts, Aside
  <1>3. d \in Dirs  BY <1>2, AboutTypes DEF TypesInv, FutTypes
  <1>4. /\ \A e \in Dirs : listing'[e].gen = listing[e].gen /\ listing'[e].state = listing[e].state
        /\ \A e \in Dirs : listing'[e].entries = listing[e].entries
    BY EndsStep DEF TypesInv, CountsInv
  <1>5. Alive(g) => \E w \in Live' : ~Aside(Fut'[w]) /\ Fut'[w].dir = g.dir /\ Fut'[w].gen = g.gen
    <2> SUFFICES ASSUME Alive(g)
                 PROVE  \E w \in Live' : ~Aside(Fut'[w]) /\ Fut'[w].dir = g.dir /\ Fut'[w].gen = g.gen
      OBVIOUS
    <2>1. CASE left = 0
      <3> DEFINE r == Reload(d, FALSE)
                 s == spawned + 1
      <3>1. futs = <<r>>  BY <2>1
      <3> HIDE DEF futs, d
      <3>2. ~Aside(r.fut) /\ r.fut.dir = d /\ r.fut.gen = listing[d].gen
        BY ReloadIs, RefreshKind
      <3> HIDE DEF r
      <3>3. 1 \in 1 .. Len(futs) /\ Len(futs) = 1 /\ futs[1] = r  BY <3>1
      <3>4. spawned \in Nat  BY LiveNames
      <3>5. s \in (spawned + 1) .. (spawned + Len(futs)) /\ Fut'[s] = r.fut
        BY <1>1, <3>3, <3>4 DEF Turns
      <3> HIDE DEF s
      <3>6. s \in Live'  BY <1>1, <3>5 DEF Turns
      <3>7. g.gen = listing[d].gen  BY DEF Alive, d
      <3> QED  BY <3>2, <3>5, <3>6, <3>7 DEF d
    <2>2. CASE left # 0
      <3>1. t \in Counted(d)  BY <1>2 DEF Counted, Alive
      <3>2. listing[d].active = Cardinality(Counted(d)) /\ IsFiniteSet(Counted(d))
        BY <1>3, CountedFinite DEF CountsInv, Counting
      <3>3. Counted(d) # {t}
        <4>1. Cardinality({t}) = 1  BY FS_Singleton
        <4> QED  BY <2>2, <3>2, <4>1
      <3>4. PICK u \in Counted(d) : u # t  BY <3>1, <3>3
      <3>5. u \in Live' /\ Fut'[u] = Fut[u]  BY <1>1, <3>4 DEF Turns, Counted
      <3>6. Counts(Fut[u]) /\ Fut[u].dir = d /\ Fut[u].gen = g.gen  BY <3>4 DEF Counted, Alive
      <3> QED  BY <3>5, <3>6 DEF Aside
    <2> QED  BY <2>1, <2>2
  <1> HIDE DEF futs
  <1> QED  BY <1>1, <1>4, <1>5, TurnsFresh

LEMMA NextFresh ==
  ASSUME ExecInv, ExecInv', TypesInv, CountsInv, FreshInv, [Next]_vars PROVE FreshInv'
  <1>1. PaneStep  BY StepPane
  <1>2. (\E t, f : Works(t, f) \/ Starts(t, f) \/ Passes(t, f)) => FreshInv'
    BY WorksFresh, StartsFresh, PassesFresh
  <1>3. (\E t : Fails(t) \/ Reads(t) \/ Ends(t)) => FreshInv'
    BY FailsFresh, ReadsFresh, EndsFresh
  <1>4. (\E gone, futs : Sprouts(gone, futs)) => FreshInv'  BY SproutsFresh
  <1>5. (\E d \in Dirs : \E op, futs : Begins(d, op, futs)) => FreshInv'  BY BeginsFresh
  <1> QED  BY <1>1, <1>2, <1>3, <1>4, <1>5 DEF PaneStep

LEMMA InitFresh ==
  ASSUME Init PROVE FreshInv
  <1>1. PICK failed : PresetInit(failed)  BY DEF Init
  <1>2. listing["root"].entries = Present("root")
    <2> DEFINE R == [NewListing(0) EXCEPT !.state = "Loaded", !.entries = Present("root")]
    <2>1. listing["root"] = R  BY <1>1 DEF PresetInit
    <2>2. R.entries = Present("root")  BY DEF NewListing
    <2> HIDE DEF R
    <2> QED  BY <2>1, <2>2
  <1>3. listing["folder"].state = "NotLoaded"  BY <1>1 DEF PresetInit, NewListing
  <1> QED  BY <1>2, <1>3 DEF FreshInv, FreshAt, Dirs

\* Once no reload and no operation is in flight, the names a loaded listing
\* shows are those of the files in its directory, whatever order the reads and
\* the operations of its tasks ended in: every operation is counted until its
\* last effect, and the last of them loads the listing again.
THEOREM ListingFreshHolds == Spec => []ListingFresh
  <1>1. ExecInv /\ FreshInv => ListingFresh
    <2> SUFFICES ASSUME ExecInv, FreshInv, tasks = <<>>, fns = <<>>,
                        NEW d \in Dirs, listing[d].state = "Loaded", d = "folder" => ~lost
                 PROVE  listing[d].entries = Present(d)
      BY DEF ListingFresh
    <2>1. Live = {}  BY DEF Live, Ids
    <2> QED  BY <2>1 DEF FreshInv, FreshAt, Pending
  <1>2. ExecInv /\ ExecInv' /\ TypesInv /\ CountsInv /\ FreshInv /\ [Next]_vars => FreshInv'
    BY NextFresh
  <1> QED  BY InitFresh, StateInvHolds, <1>1, <1>2, PTL DEF Spec

-----------------------------------------------------------------------------
(* The render queue: a request is a task's, then the question's or a job's,  *)
(* and a job has at most one task for the start of its stream.               *)

Asks(f) == f.k \in {"render", "rendered", "save", "saved"}
Neutral(f) == ~Asks(f) /\ f.k # "job"

Threads == {"loading", "start", "started", "playing", "end", "ended"}
JobRec(S, n) == [id : 0 .. n - 1, src : S, thread : Threads, state : {"waiting", "rendering", "complete"}]

QueueTypes == asked \in Nat /\ \E S : jobs \in Seq(JobRec(S, asked))
OneJobEach == \A m, n \in DOMAIN jobs : jobs[m].id = jobs[n].id => m = n

\* No job and no task of a job has the name x: it is a request's, if anyone's.
Unused(x) == /\ x \in 0 .. asked - 1
             /\ \A n \in DOMAIN jobs : jobs[n].id # x
             /\ \A u \in Live : Fut[u].k = "job" => Fut[u].id # x
RequestsAsk ==
    /\ \A t \in Live : Asks(Fut[t]) => Unused(Fut[t].id)
    /\ slot # <<>> => Unused(slot[1].id)
RequestsApart ==
    /\ \A t, u \in Live : Asks(Fut[t]) /\ Asks(Fut[u]) /\ Fut[t].id = Fut[u].id => t = u
    /\ slot # <<>> => \A t \in Live : Asks(Fut[t]) => Fut[t].id # slot[1].id

\* A task of a job knows how far the job's streaming thread has come.
JobTasks ==
    \A t \in Live : Fut[t].k = "job" =>
        /\ Fut[t].id \in 0 .. asked - 1
        /\ \A n \in DOMAIN jobs : jobs[n].id = Fut[t].id =>
              /\ Fut[t].pc = "start" => jobs[n].thread = "started"
              /\ Fut[t].pc = "end" => jobs[n].thread = "ended"
        /\ Fut[t].pc = "start" =>
              \A u \in Live : Fut[u].k = "job" /\ Fut[u].pc = "start" /\ Fut[u].id = Fut[t].id => u = t

QueueInv == QueueTypes /\ OneJobEach /\ RequestsAsk /\ RequestsApart /\ JobTasks

\* What is about the queue goes on or is over, but does not begin.
Kin(g, f) == /\ Asks(g) <=> Asks(f)
             /\ g.k = "job" <=> f.k = "job"
             /\ ~Neutral(g) => f.id = g.id
             /\ g.k = "job" => f.pc = g.pc
Follows == \A u \in Live' : Neutral(Fut'[u]) \/ (u \in Live /\ Kin(Fut[u], Fut'[u]))

LEMMA FollowsQueue ==
  ASSUME QueueInv, Follows, UNCHANGED queueVars PROVE QueueInv'
  <1>1. jobs' = jobs /\ slot' = slot /\ asked' = asked  BY DEF queueVars
  <1>2. \A u \in Live' : /\ Asks(Fut'[u]) => u \in Live /\ Asks(Fut[u]) /\ Fut[u].id = Fut'[u].id
                         /\ Fut'[u].k = "job" => /\ u \in Live /\ Fut[u].k = "job"
                                                 /\ Fut[u].id = Fut'[u].id /\ Fut[u].pc = Fut'[u].pc
    BY DEF Follows, Kin, Neutral
  <1>3. QueueTypes' /\ OneJobEach'  BY <1>1 DEF QueueInv, QueueTypes, OneJobEach
  <1>4. \A x : Unused(x) => Unused(x)'  BY <1>1, <1>2 DEF Unused
  <1>5. RequestsAsk'  BY <1>1, <1>2, <1>4 DEF QueueInv, RequestsAsk
  <1>6. RequestsApart'  BY <1>1, <1>2 DEF QueueInv, RequestsApart
  <1>7. JobTasks'  BY <1>1, <1>2 DEF QueueInv, JobTasks
  <1> QED  BY <1>3, <1>5, <1>6, <1>7 DEF QueueInv

\* A task that begins alone.
LEMMA TurnsOne ==
  ASSUME ExecInv, NEW r, Turns({}, <<r>>)
  PROVE  \E s : /\ s \notin Live /\ Live' = Live \cup {s} /\ Fut'[s] = r.fut
                /\ \A u \in Live : Fut'[u] = Fut[u]
  <1> DEFINE futs == <<r>>
             s == spawned + 1
  <1>1. Len(futs) = 1 /\ futs[1] = r  OBVIOUS
  <1>2. spawned \in Nat /\ Live \subseteq 1 .. spawned  BY LiveNames
  <1>3. Turns({}, futs)  OBVIOUS
  <1> HIDE DEF futs
  <1>4. (spawned + 1) .. (spawned + Len(futs)) = {s}  BY <1>1, <1>2
  <1>5. s \notin Live  BY <1>2
  <1>6. 1 \in 1 .. Len(futs)  BY <1>1
  <1>7. Fut'[s] = r.fut  BY <1>1, <1>3, <1>6 DEF Turns
  <1> HIDE DEF s
  <1>8. Live' = Live \cup {s} /\ \A u \in Live : Fut'[u] = Fut[u]  BY <1>3, <1>4 DEF Turns
  <1> QED  BY <1>5, <1>7, <1>8

LEMMA TurnsNone ==
  ASSUME ExecInv, NEW gone, Turns(gone, <<>>)
  PROVE  Live' = Live \ gone /\ \A u \in Live \ gone : Fut'[u] = Fut[u]
  <1>1. spawned \in Nat  BY LiveNames
  <1>2. (spawned + 1) .. (spawned + Len(<<>>)) = {}  BY <1>1
  <1> QED  BY <1>2 DEF Turns

\* A click that asks for a job takes the next name.
LEMMA AskingQueue ==
  ASSUME ExecInv, QueueInv, NEW r, Turns({}, <<r>>), Asks(r.fut), r.fut.id = asked,
         asked' = asked + 1, UNCHANGED <<jobs, slot>>
  PROVE  QueueInv'
  <1>1. PICK s : /\ s \notin Live /\ Live' = Live \cup {s} /\ Fut'[s] = r.fut
                 /\ \A u \in Live : Fut'[u] = Fut[u]
    BY TurnsOne
  <1>2. r.fut.k # "job"  BY DEF Asks
  <1>3. asked \in Nat /\ 0 .. asked - 1 \subseteq 0 .. asked' - 1 /\ asked \in 0 .. asked' - 1
        /\ asked \notin 0 .. asked - 1
    BY DEF QueueInv, QueueTypes
  <1>4. PICK S : jobs \in Seq(JobRec(S, asked))  BY DEF QueueInv, QueueTypes
  <1>5. QueueTypes'
    <2>1. JobRec(S, asked) \subseteq JobRec(S, asked')  BY <1>3 DEF JobRec
    <2>2. jobs \in Seq(JobRec(S, asked'))  BY <1>4, <2>1, SeqMonotonic
    <2> QED  BY <1>3, <2>2 DEF QueueTypes
  <1>6. \A n \in DOMAIN jobs : jobs[n].id \in 0 .. asked - 1
    <2>1. \A n \in DOMAIN jobs : jobs[n] \in JobRec(S, asked)
      BY <1>4, ElementOfSeq, LenProperties
    <2> QED  BY <2>1 DEF JobRec
  <1>7. \A u \in Live : Fut[u].k = "job" => Fut[u].id \in 0 .. asked - 1
    BY DEF QueueInv, JobTasks
  <1>8. \A x : Unused(x) => Unused(x)' /\ x # r.fut.id
    BY <1>1, <1>2, <1>3 DEF Unused
  <1>9. Unused(r.fut.id)'
    BY <1>1, <1>2, <1>3, <1>6, <1>7 DEF Unused
  <1>10. OneJobEach'  BY DEF QueueInv, OneJobEach
  <1>11. RequestsAsk'  BY <1>1, <1>8, <1>9 DEF QueueInv, RequestsAsk
  <1>12. RequestsApart'
    BY <1>1, <1>8 DEF QueueInv, RequestsApart, RequestsAsk
  <1>13. JobTasks'  BY <1>1, <1>2, <1>3 DEF QueueInv, JobTasks
  <1> QED  BY <1>5, <1>10, <1>11, <1>12, <1>13 DEF QueueInv

\* A request's name becomes the name of a job.
Pushes(x) == \/ jobs' = jobs
             \/ \E S : \E job \in JobRec(S, asked) : job.id = x /\ jobs' = Append(jobs, job)

LEMMA PushPushes ==
  ASSUME NEW req, Unused(req.id), PushJob(req) PROVE Pushes(req.id) /\ asked' = asked
  <1>1. NewJob(req) \in JobRec({req.src}, asked)  BY DEF NewJob, JobRec, Threads, Unused
  <1>2. NewJob(req).id = req.id  BY DEF NewJob
  <1> QED  BY <1>1, <1>2 DEF PushJob, Pushes

LEMMA PushedJobs ==
  ASSUME QueueTypes, OneJobEach, NEW x, Unused(x), Pushes(x), asked' = asked
  PROVE  /\ QueueTypes' /\ OneJobEach'
         /\ \A n \in DOMAIN jobs' : (n \in DOMAIN jobs /\ jobs'[n] = jobs[n]) \/ jobs'[n].id = x
  <1>1. CASE jobs' = jobs  BY <1>1 DEF QueueTypes, OneJobEach
  <1>2. CASE jobs' # jobs
    <2>1. PICK S : jobs \in Seq(JobRec(S, asked))  BY DEF QueueTypes
    <2>2. PICK R : \E job \in JobRec(R, asked) : job.id = x /\ jobs' = Append(jobs, job)
      BY <1>2 DEF Pushes
    <2>3. PICK job \in JobRec(R, asked) : job.id = x /\ jobs' = Append(jobs, job)  BY <2>2
    <2> DEFINE T == JobRec(S \cup R, asked)
    <2>4. JobRec(S, asked) \subseteq T /\ job \in T  BY DEF JobRec
    <2>5. jobs \in Seq(T)  BY <2>1, <2>4, SeqMonotonic
    <2> HIDE DEF T
    <2>6. /\ jobs' \in Seq(T) /\ Len(jobs') = Len(jobs) + 1
          /\ \A n \in 1 .. Len(jobs) : jobs'[n] = jobs[n]
          /\ jobs'[Len(jobs) + 1] = job
      BY <2>3, <2>4, <2>5, AppendProperties
    <2>7. DOMAIN jobs = 1 .. Len(jobs) /\ Len(jobs) \in Nat /\ DOMAIN jobs' = 1 .. Len(jobs')
      BY <2>5, <2>6, LenProperties
    <2>8. \A n \in DOMAIN jobs' : (n \in DOMAIN jobs /\ jobs'[n] = jobs[n])
                               \/ (n = Len(jobs) + 1 /\ jobs'[n].id = x)
      BY <2>3, <2>6, <2>7
    <2>9. \A n \in DOMAIN jobs : jobs[n].id # x  BY DEF Unused
    <2>10. OneJobEach'  BY <2>8, <2>9 DEF OneJobEach
    <2>11. QueueTypes'  BY <2>6 DEF QueueTypes, T
    <2> QED  BY <2>8, <2>10, <2>11
  <1> QED  BY <1>1, <1>2

\* The function of a request, which ends its task.
LEMMA RunningQueue ==
  ASSUME ExecInv, QueueInv, NEW t, Turns({t}, <<>>), Asks(Fut[t]), asked' = asked,
         (Pushes(Fut[t].id) /\ slot' = slot) \/ (jobs' = jobs /\ slot' = <<Fut[t]>>)
  PROVE  QueueInv'
  <1> DEFINE x == Fut[t].id
  <1>1. Live' = Live \ {t} /\ \A u \in Live' : u \in Live /\ u # t /\ Fut'[u] = Fut[u]
    BY TurnsNone
  <1>2. t \in Live /\ Unused(x)  BY DEF Turns, QueueInv, RequestsAsk
  <1>3. \A u \in Live' : /\ Asks(Fut'[u]) => Unused(Fut'[u].id) /\ Fut'[u].id # x
                         /\ slot # <<>> /\ Asks(Fut'[u]) => Fut'[u].id # slot[1].id
                         /\ Fut'[u].k = "job" => Fut'[u].id # x
    BY <1>1, <1>2 DEF QueueInv, RequestsAsk, RequestsApart, Unused
  <1>4. slot # <<>> => Unused(slot[1].id) /\ slot[1].id # x
    BY <1>2 DEF QueueInv, RequestsAsk, RequestsApart
  <1>5. CASE Pushes(Fut[t].id) /\ slot' = slot
    <2>1. /\ QueueTypes' /\ OneJobEach'
          /\ \A n \in DOMAIN jobs' : (n \in DOMAIN jobs /\ jobs'[n] = jobs[n]) \/ jobs'[n].id = x
      BY <1>2, <1>5, PushedJobs DEF QueueInv
    <2> HIDE DEF x
    <2>2. \A y : Unused(y) /\ y # x => Unused(y)'
      BY <1>1, <2>1 DEF Unused
    <2>3. RequestsAsk'  BY <1>3, <1>4, <1>5, <2>2 DEF RequestsAsk
    <2>4. RequestsApart'  BY <1>1, <1>3, <1>5 DEF QueueInv, RequestsApart
    <2>5. JobTasks'  BY <1>1, <1>3, <2>1 DEF QueueInv, JobTasks
    <2> QED  BY <2>1, <2>3, <2>4, <2>5 DEF QueueInv
  <1>6. CASE jobs' = jobs /\ slot' = <<Fut[t]>>
    <2>1. QueueTypes' /\ OneJobEach'  BY <1>6 DEF QueueInv, QueueTypes, OneJobEach
    <2>2. \A y : Unused(y) => Unused(y)'  BY <1>1, <1>6 DEF Unused
    <2>3. slot'[1].id = x  BY <1>6
    <2> HIDE DEF x
    <2>4. RequestsAsk'  BY <1>2, <1>3, <2>2, <2>3 DEF RequestsAsk
    <2>5. RequestsApart'  BY <1>1, <1>3, <2>3 DEF QueueInv, RequestsApart
    <2>6. JobTasks'  BY <1>1, <1>6 DEF QueueInv, JobTasks
    <2> QED  BY <2>1, <2>4, <2>5, <2>6 DEF QueueInv
  <1> QED  BY <1>5, <1>6

\* The answer to the question.
LEMMA AnsweredQueue ==
  ASSUME QueueInv, slot # <<>>, slot' = <<>>, asked' = asked, UNCHANGED <<tasks, fns>>,
         Pushes(slot[1].id)
  PROVE  QueueInv'
  <1> DEFINE x == slot[1].id
  <1>1. Live' = Live /\ Fut' = Fut  BY DEF Live, Fut, Ids
  <1>2. Unused(x) /\ \A u \in Live : /\ Asks(Fut[u]) => Fut[u].id # x
                                     /\ Fut[u].k = "job" => Fut[u].id # x
    BY DEF QueueInv, RequestsAsk, RequestsApart, Unused
  <1>3. /\ QueueTypes' /\ OneJobEach'
        /\ \A n \in DOMAIN jobs' : (n \in DOMAIN jobs /\ jobs'[n] = jobs[n]) \/ jobs'[n].id = x
    BY <1>2, PushedJobs DEF QueueInv
  <1> HIDE DEF x
  <1>4. \A y : Unused(y) /\ y # x => Unused(y)'
    BY <1>1, <1>3 DEF Unused
  <1>5. RequestsAsk'  BY <1>1, <1>2, <1>4 DEF QueueInv, RequestsAsk
  <1>6. RequestsApart'  BY <1>1 DEF QueueInv, RequestsApart
  <1>7. JobTasks'  BY <1>1, <1>2, <1>3 DEF QueueInv, JobTasks
  <1> QED  BY <1>3, <1>5, <1>6, <1>7 DEF QueueInv

LEMMA Removed ==
  ASSUME NEW S, NEW q \in Seq(S), NEW n \in 1 .. Len(q)
  PROVE  /\ RemoveAt(q, n) \in Seq(S) /\ Len(RemoveAt(q, n)) = Len(q) - 1
         /\ \A i \in 1 .. Len(q) - 1 : RemoveAt(q, n)[i] = q[IF i < n THEN i ELSE i + 1]
  <1> DEFINE a == SubSeq(q, 1, n - 1)
             b == SubSeq(q, n + 1, Len(q))
  <1>1. Len(q) \in Nat /\ \A i \in 1 .. Len(q) : q[i] \in S  BY ElementOfSeq, LenProperties
  <1>2. a \in Seq(S) /\ Len(a) = n - 1 /\ \A i \in 1 .. n - 1 : a[i] = q[i]
    <2>1. \A i \in 1 .. n - 1 : q[i] \in S  BY <1>1
    <2>2. /\ a \in Seq(S) /\ Len(a) = (IF 1 <= n - 1 THEN n - 1 - 1 + 1 ELSE 0)
          /\ \A i \in 1 .. n - 1 - 1 + 1 : a[i] = q[1 + i - 1]
      <3> DEFINE m == n - 1
      <3>1. 1 \in Int /\ m \in Int /\ \A i \in 1 .. m : q[i] \in S  BY <1>1
      <3> HIDE DEF m
      <3>2. /\ SubSeq(q, 1, m) \in Seq(S)
            /\ Len(SubSeq(q, 1, m)) = IF 1 <= m THEN m - 1 + 1 ELSE 0
            /\ \A i \in 1 .. m - 1 + 1 : SubSeq(q, 1, m)[i] = q[1 + i - 1]
        BY <3>1, SubSeqProperties
      <3> QED  BY <3>2 DEF m
    <2> HIDE DEF a
    <2> QED  BY <1>1, <2>2
  <1>3. b \in Seq(S) /\ Len(b) = Len(q) - n /\ \A i \in 1 .. Len(q) - n : b[i] = q[n + i]
    <2> DEFINE m == n + 1
               l == Len(q)
    <2>1. m \in Int /\ l \in Int /\ \A i \in m .. l : q[i] \in S  BY <1>1
    <2> HIDE DEF m, l
    <2>2. /\ SubSeq(q, m, l) \in Seq(S)
          /\ Len(SubSeq(q, m, l)) = IF m <= l THEN l - m + 1 ELSE 0
          /\ \A i \in 1 .. l - m + 1 : SubSeq(q, m, l)[i] = q[m + i - 1]
      BY <2>1, SubSeqProperties
    <2>3. b = SubSeq(q, m, l)  BY DEF m, l
    <2> HIDE DEF b
    <2> QED  BY <1>1, <2>2, <2>3 DEF m, l
  <1>4. RemoveAt(q, n) = a \o b  BY DEF RemoveAt
  <1> HIDE DEF a, b
  <1>5. /\ a \o b \in Seq(S) /\ Len(a \o b) = Len(a) + Len(b)
        /\ \A i \in 1 .. Len(a) + Len(b) : (a \o b)[i] = IF i <= Len(a) THEN a[i] ELSE b[i - Len(a)]
    BY <1>2, <1>3, ConcatProperties
  <1> DEFINE c == a \o b
  <1>6. Len(a) + Len(b) = Len(q) - 1  BY <1>1, <1>2, <1>3
  <1>7. \A i \in 1 .. Len(q) - 1 : c[i] = q[IF i < n THEN i ELSE i + 1]
    <2> TAKE i \in 1 .. Len(q) - 1
    <2>1. c[i] = IF i <= Len(a) THEN a[i] ELSE b[i - Len(a)]  BY <1>5, <1>6
    <2> HIDE DEF c
    <2>2. CASE i < n
      <3>1. i <= Len(a) /\ i \in 1 .. n - 1  BY <1>2, <2>2
      <3> QED  BY <1>2, <2>1, <2>2, <3>1
    <2>3. CASE ~(i < n)
      <3>1. ~(i <= Len(a)) /\ i - Len(a) \in 1 .. Len(q) - n /\ n + (i - Len(a)) = i + 1
        BY <1>1, <1>2, <2>3
      <3> QED  BY <1>3, <2>1, <2>3, <3>1
    <2> QED  BY <2>2, <2>3
  <1> QED  BY <1>4, <1>5, <1>6, <1>7

\* A job that is dropped.
LEMMA ClosedQueue ==
  ASSUME QueueInv, NEW n \in DOMAIN jobs, jobs' = RemoveAt(jobs, n), UNCHANGED <<tasks, fns>>,
         UNCHANGED <<slot, asked>>
  PROVE  QueueInv'
  <1>1. Live' = Live /\ Fut' = Fut  BY DEF Live, Fut, Ids
  <1>2. PICK S : jobs \in Seq(JobRec(S, asked))  BY DEF QueueInv, QueueTypes
  <1>3. DOMAIN jobs = 1 .. Len(jobs) /\ Len(jobs) \in Nat  BY <1>2, LenProperties
  <1> DEFINE T == JobRec(S, asked)
             r == RemoveAt(jobs, n)
             N == Len(jobs)
  <1>4. r \in Seq(T) /\ Len(r) = N - 1 /\ \A i \in 1 .. N - 1 : r[i] = jobs[IF i < n THEN i ELSE i + 1]
    <2> HIDE DEF T
    <2> QED  BY <1>2, <1>3, Removed DEF T
  <1>5. jobs' = r  OBVIOUS
  <1> HIDE DEF r, N
  <1>6. DOMAIN jobs' = 1 .. N - 1  BY <1>4, <1>5, LenProperties
  <1> DEFINE at(i) == IF i < n THEN i ELSE i + 1
  <1>7. /\ \A i \in DOMAIN jobs' : at(i) \in DOMAIN jobs /\ jobs'[i] = jobs[at(i)]
        /\ \A i, j \in DOMAIN jobs' : at(i) = at(j) => i = j
    BY <1>3, <1>4, <1>5, <1>6 DEF N
  <1> HIDE DEF at, T
  <1>8. QueueTypes'
    <2>1. jobs' \in Seq(T)  BY <1>4, <1>5
    <2> QED  BY <2>1 DEF QueueInv, QueueTypes, T
  <1>9. OneJobEach'  BY <1>7 DEF QueueInv, OneJobEach
  <1>10. \A x : Unused(x) => Unused(x)'  BY <1>1, <1>7 DEF Unused
  <1>11. RequestsAsk'  BY <1>1, <1>10 DEF QueueInv, RequestsAsk
  <1>12. RequestsApart'  BY <1>1 DEF QueueInv, RequestsApart
  <1>13. JobTasks'  BY <1>1, <1>7 DEF QueueInv, JobTasks
  <1> QED  BY <1>8, <1>9, <1>11, <1>12, <1>13 DEF QueueInv

\* The streaming thread of job n comes to th.
WithThread(n, th) == [jobs EXCEPT ![n].thread = th]

LEMMA Rethreaded ==
  ASSUME QueueTypes, OneJobEach, NEW n \in DOMAIN jobs, NEW th \in Threads, jobs' = WithThread(n, th),
         asked' = asked
  PROVE  /\ QueueTypes' /\ OneJobEach' /\ DOMAIN jobs' = DOMAIN jobs
         /\ jobs'[n].id = jobs[n].id /\ jobs'[n].thread = th
         /\ \A m \in DOMAIN jobs : m # n => jobs'[m] = jobs[m]
  <1>1. PICK S : jobs \in Seq(JobRec(S, asked))  BY DEF QueueTypes
  <1> DEFINE T == JobRec(S, asked)
             job == [jobs[n] EXCEPT !.thread = th]
  <1>2. DOMAIN jobs = 1 .. Len(jobs) /\ Len(jobs) \in Nat /\ \A m \in 1 .. Len(jobs) : jobs[m] \in T
    BY <1>1, ElementOfSeq, LenProperties
  <1>3. job \in T /\ job.id = jobs[n].id /\ job.thread = th  BY <1>2 DEF JobRec
  <1>4. jobs' = [jobs EXCEPT ![n] = job]  BY DEF WithThread
  <1> HIDE DEF T, job
  <1>5. DOMAIN jobs' = DOMAIN jobs /\ jobs'[n] = job /\ \A m \in DOMAIN jobs : m # n => jobs'[m] = jobs[m]
    BY <1>4
  <1>6. jobs' \in Seq(T)
    <2>1. jobs \in [1 .. Len(jobs) -> T]  BY <1>1, LenProperties DEF T
    <2> DEFINE N == Len(jobs)
    <2>2. jobs' \in [1 .. N -> T]  BY <1>3, <1>4, <2>1
    <2> HIDE DEF N
    <2>3. N \in Nat  BY <1>2 DEF N
    <2> QED  BY <2>2, <2>3, FunctionIsSeq
  <1>7. QueueTypes'
    <2>1. asked' \in Nat  BY DEF QueueTypes
    <2> QED  BY <1>6, <2>1 DEF QueueTypes, T
  <1>8. \A m \in DOMAIN jobs : jobs'[m].id = jobs[m].id  BY <1>3, <1>5
  <1>9. OneJobEach'  BY <1>5, <1>8 DEF OneJobEach
  <1> QED  BY <1>3, <1>5, <1>7, <1>9

LEMMA EventQueue ==
  ASSUME QueueInv, NEW n \in DOMAIN jobs, JobEvent(n) PROVE QueueInv'
  <1>1. Live' = Live /\ Fut' = Fut  BY DEF JobEvent, execVars, Live, Fut, Ids
  <1>2. slot' = slot /\ asked' = asked  BY DEF JobEvent, JobKeeps
  <1>3. PICK th \in Threads : jobs' = WithThread(n, th)  BY DEF JobEvent, WithThread, Threads
  <1>4. jobs[n].thread \in {"loading", "playing"}  BY DEF JobEvent
  <1>5. /\ QueueTypes' /\ OneJobEach' /\ DOMAIN jobs' = DOMAIN jobs
        /\ jobs'[n].id = jobs[n].id /\ jobs'[n].thread = th
        /\ \A m \in DOMAIN jobs : m # n => jobs'[m] = jobs[m]
    BY <1>2, <1>3, Rethreaded DEF QueueInv
  <1>6. \A x : Unused(x) => Unused(x)'  BY <1>1, <1>2, <1>5 DEF Unused
  <1>7. RequestsAsk'  BY <1>1, <1>2, <1>6 DEF QueueInv, RequestsAsk
  <1>8. RequestsApart'  BY <1>1, <1>2 DEF QueueInv, RequestsApart
  <1>9. JobTasks'
    <2>1. \A t \in Live : Fut[t].k = "job" /\ Fut[t].id = jobs[n].id =>
             Fut[t].pc # "start" /\ Fut[t].pc # "end"
      BY <1>4 DEF QueueInv, JobTasks
    <2> QED  BY <1>1, <1>2, <1>5, <2>1 DEF QueueInv, JobTasks
  <1> QED  BY <1>5, <1>7, <1>8, <1>9 DEF QueueInv

\* The thread of job n gets the executor's mutex, and goes on.
LEMMA SpawnQueue ==
  ASSUME ExecInv, QueueInv, NEW n \in DOMAIN jobs, NEW r, Turns({}, <<r>>), JobSpawns(n),
         r.fut.k = "job", r.fut.id = jobs[n].id, r.fut.pc = jobs[n].thread
  PROVE  QueueInv'
  <1>1. PICK s : /\ s \notin Live /\ Live' = Live \cup {s} /\ Fut'[s] = r.fut
                 /\ \A u \in Live : Fut'[u] = Fut[u]
    BY TurnsOne
  <1>2. slot' = slot /\ asked' = asked  BY DEF JobSpawns, JobKeeps
  <1> DEFINE th == IF jobs[n].thread = "start" THEN "started" ELSE "ended"
  <1>3. jobs[n].thread \in {"start", "end"} /\ jobs' = WithThread(n, th)
    BY DEF JobSpawns, WithThread
  <1>4. th \in Threads /\ (jobs[n].thread = "start" => th = "started") /\ (jobs[n].thread = "end" => th = "ended")
    BY DEF Threads
  <1> HIDE DEF th
  <1>5. /\ QueueTypes' /\ OneJobEach' /\ DOMAIN jobs' = DOMAIN jobs
        /\ jobs'[n].id = jobs[n].id /\ jobs'[n].thread = th
        /\ \A m \in DOMAIN jobs : m # n => jobs'[m] = jobs[m]
    BY <1>2, <1>3, <1>4, Rethreaded DEF QueueInv
  <1>6. ~Asks(r.fut)  BY DEF Asks
  <1>7. \A x : Unused(x) => Unused(x)'  BY <1>1, <1>2, <1>5 DEF Unused
  <1>8. RequestsAsk'  BY <1>1, <1>2, <1>6, <1>7 DEF QueueInv, RequestsAsk
  <1>9. RequestsApart'  BY <1>1, <1>2, <1>6 DEF QueueInv, RequestsApart
  <1>10. r.fut.id \in 0 .. asked - 1
    <2>1. PICK S : jobs \in Seq(JobRec(S, asked))  BY DEF QueueInv, QueueTypes
    <2>2. jobs[n] \in JobRec(S, asked)  BY <2>1, ElementOfSeq, LenProperties
    <2> QED  BY <2>2 DEF JobRec
  <1>11. \A t \in Live : Fut[t].k = "job" /\ Fut[t].id = jobs[n].id =>
             Fut[t].pc # "start" /\ Fut[t].pc # "end"
    BY <1>3 DEF QueueInv, JobTasks
  <1>12. \A m \in DOMAIN jobs : m # n => jobs[m].id # jobs[n].id  BY DEF QueueInv, OneJobEach
  <1>13. JobTasks'
    <2> SUFFICES ASSUME NEW t \in Live', Fut'[t].k = "job"
                 PROVE  /\ Fut'[t].id \in 0 .. asked' - 1
                        /\ \A m \in DOMAIN jobs' : jobs'[m].id = Fut'[t].id =>
                              /\ Fut'[t].pc = "start" => jobs'[m].thread = "started"
                              /\ Fut'[t].pc = "end" => jobs'[m].thread = "ended"
                        /\ Fut'[t].pc = "start" =>
                              \A u \in Live' : Fut'[u].k = "job" /\ Fut'[u].pc = "start" /\ Fut'[u].id = Fut'[t].id => u = t
      BY DEF JobTasks
    <2>1. CASE t = s
      BY <1>1, <1>2, <1>3, <1>4, <1>5, <1>10, <1>11, <1>12, <2>1
    <2>2. CASE t \in Live
      <3>1. Fut'[t] = Fut[t] /\ Fut[t].k = "job"  BY <1>1, <2>2
      <3>2. Fut[t].pc = "start" => Fut[t].id # r.fut.id  BY <1>11, <2>2, <3>1
      <3> QED  BY <1>1, <1>2, <1>5, <1>11, <2>2, <3>1, <3>2 DEF QueueInv, JobTasks
    <2> QED  BY <1>1, <2>1, <2>2
  <1> QED  BY <1>5, <1>8, <1>9, <1>13 DEF QueueInv

\* A job's task is polled: it plays the job, or ends it.
LEMMA PollJobQueue ==
  ASSUME ExecInv, TypesInv, QueueInv, NEW i \in DOMAIN tasks, Becomes(tasks[i].id, NoFn), PollJob(i)
  PROVE  QueueInv'
  <1> DEFINE f == tasks[i].fut
             t == tasks[i].id
  <1>1. t \in Live /\ Fut[t] = f /\ f.k = "job"  BY FutOf DEF PollJob
  <1>2. OfJob(f)  BY <1>1, Kinds DEF TypesInv, FutTypes
  <1>3. slot' = slot /\ asked' = asked
        /\ jobs' = [n \in DOMAIN jobs |->
                      IF jobs[n].id # f.id THEN jobs[n]
                      ELSE IF f.pc = "start" THEN [jobs[n] EXCEPT !.thread = "playing", !.state = "rendering"]
                      ELSE [jobs[n] EXCEPT !.state = "complete"]]
    BY DEF PollJob, JobOf, JobKeeps
  <1>4. PICK S : jobs \in Seq(JobRec(S, asked))  BY DEF QueueInv, QueueTypes
  <1> DEFINE T == JobRec(S, asked)
  <1>5. DOMAIN jobs = 1 .. Len(jobs) /\ Len(jobs) \in Nat /\ \A m \in 1 .. Len(jobs) : jobs[m] \in T
    BY <1>4, ElementOfSeq, LenProperties
  <1>6. ~Asks(NoFn) /\ NoFn.k # "job"  BY DEF NoFn, Asks
  <1> HIDE DEF f, t
  <1>7. \A r \in T : /\ [r EXCEPT !.thread = "playing", !.state = "rendering"] \in T
                     /\ [r EXCEPT !.thread = "playing", !.state = "rendering"].id = r.id
                     /\ [r EXCEPT !.state = "complete"] \in T
                     /\ [r EXCEPT !.state = "complete"].id = r.id
                     /\ [r EXCEPT !.state = "complete"].thread = r.thread
    BY DEF JobRec, Threads
  <1> HIDE DEF T
  <1>8. /\ DOMAIN jobs' = DOMAIN jobs
        /\ \A n \in DOMAIN jobs : /\ jobs'[n] \in T /\ jobs'[n].id = jobs[n].id
                                  /\ jobs[n].id # f.id => jobs'[n] = jobs[n]
                                  /\ f.pc # "start" => jobs'[n].thread = jobs[n].thread
    BY <1>3, <1>5, <1>7
  <1>9. QueueTypes'
    <2> DEFINE N == Len(jobs)
    <2>1. jobs' \in [1 .. N -> T]  BY <1>3, <1>5, <1>8
    <2>2. N \in Nat  BY <1>5
    <2> HIDE DEF N
    <2>3. jobs' \in Seq(T)  BY <2>1, <2>2, FunctionIsSeq
    <2>4. asked' \in Nat  BY <1>3 DEF QueueInv, QueueTypes
    <2> QED  BY <1>3, <2>3, <2>4 DEF QueueTypes, T
  <1>10. OneJobEach'  BY <1>8 DEF QueueInv, OneJobEach
  <1>11. \A u \in Live' : u \in Live /\ (Asks(Fut'[u]) \/ Fut'[u].k = "job" => u # t /\ Fut'[u] = Fut[u])
    BY <1>6 DEF Becomes, t
  <1>12. \A x : Unused(x) => Unused(x)'  BY <1>3, <1>8, <1>11 DEF Unused
  <1>13. RequestsAsk'  BY <1>3, <1>11, <1>12 DEF QueueInv, RequestsAsk
  <1>14. RequestsApart'  BY <1>3, <1>11 DEF QueueInv, RequestsApart
  <1>15. JobTasks'
    <2> SUFFICES ASSUME NEW u \in Live', Fut'[u].k = "job"
                 PROVE  /\ Fut'[u].id \in 0 .. asked' - 1
                        /\ \A m \in DOMAIN jobs' : jobs'[m].id = Fut'[u].id =>
                              /\ Fut'[u].pc = "start" => jobs'[m].thread = "started"
                              /\ Fut'[u].pc = "end" => jobs'[m].thread = "ended"
                        /\ Fut'[u].pc = "start" =>
                              \A w \in Live' : Fut'[w].k = "job" /\ Fut'[w].pc = "start" /\ Fut'[w].id = Fut'[u].id => w = u
      BY DEF JobTasks
    <2>1. u \in Live /\ u # t /\ Fut'[u] = Fut[u]  BY <1>11
    <2>2. Fut[u].id \in 0 .. asked' - 1  BY <1>3, <2>1 DEF QueueInv, JobTasks
    <2>3. Fut[u].pc = "start" => \A w \in Live : Fut[w].k = "job" /\ Fut[w].pc = "start" /\ Fut[w].id = Fut[u].id => w = u
      BY <2>1 DEF QueueInv, JobTasks
    <2>4. \A m \in DOMAIN jobs : jobs[m].id = Fut[u].id =>
             /\ Fut[u].pc = "start" => jobs[m].thread = "started"
             /\ Fut[u].pc = "end" => jobs[m].thread = "ended"
      BY <2>1 DEF QueueInv, JobTasks
    <2>5. \A m \in DOMAIN jobs : jobs[m].id = f.id /\ f.pc = "start" => jobs[m].thread = "started"
      BY <1>1 DEF QueueInv, JobTasks
    <2>6. ASSUME NEW m \in DOMAIN jobs, jobs[m].id = Fut[u].id, jobs'[m].thread # jobs[m].thread
          PROVE  Fut[u].pc # "start" /\ Fut[u].pc # "end"
      <3>1. jobs[m].id = f.id /\ f.pc = "start" /\ jobs[m].thread = "started"  BY <1>8, <2>5, <2>6
      <3>2. Fut[u].pc # "end"  BY <2>4, <2>6, <3>1
      <3>3. Fut[u].pc # "start"  BY <1>1, <2>1, <2>3, <2>6, <3>1
      <3> QED  BY <3>2, <3>3
    <2>7. \A m \in DOMAIN jobs' : jobs'[m].id = Fut'[u].id =>
             /\ Fut'[u].pc = "start" => jobs'[m].thread = "started"
             /\ Fut'[u].pc = "end" => jobs'[m].thread = "ended"
      BY <1>8, <2>1, <2>4, <2>6
    <2> QED  BY <1>11, <2>1, <2>2, <2>3, <2>7
  <1> QED  BY <1>9, <1>10, <1>13, <1>14, <1>15 DEF QueueInv

-----------------------------------------------------------------------------
(* Every step does one of these things to the queue. *)

LEMMA TouchQueue ==
  ASSUME ExecInv, ExecInv', QueueInv, NEW i \in DOMAIN tasks, NEW fut,
         \/ \E st \in {"blocked", "done"} : Polls(i, st, fut)
         \/ Wakes(i, fut) \/ Marks(i, fut),
         Neutral(fut) \/ Kin(tasks[i].fut, fut), UNCHANGED queueVars
  PROVE  QueueInv'
  <1>1. Becomes(tasks[i].id, fut) /\ Fut[tasks[i].id] = tasks[i].fut  BY Touched
  <1>2. \A f : Neutral(f) \/ Kin(f, f)  BY DEF Kin
  <1>3. Follows  BY <1>1, <1>2 DEF Follows, Becomes
  <1> QED  BY <1>3, FollowsQueue

LEMMA TurnQueue ==
  ASSUME ExecInv, QueueInv, NEW gone, NEW futs, Turns(gone, futs),
         \A j \in 1 .. Len(futs) : Neutral(futs[j].fut), UNCHANGED queueVars
  PROVE  QueueInv'
  <1>1. \A u \in Live' : (u \in Live /\ Fut'[u] = Fut[u]) \/ \E j \in 1 .. Len(futs) : Fut'[u] = futs[j].fut
    BY NewNames
  <1>2. \A f : Kin(f, f)  BY DEF Kin
  <1>3. Follows  BY <1>1, <1>2 DEF Follows
  <1> QED  BY <1>3, FollowsQueue

LEMMA CalmQueue ==
  ASSUME QueueInv, UNCHANGED <<tasks, fns>>, UNCHANGED queueVars PROVE QueueInv'
  <1>1. Live' = Live /\ Fut' = Fut  BY DEF Live, Fut, Ids
  <1>2. \A f : Kin(f, f)  BY DEF Kin
  <1>3. Follows  BY <1>1, <1>2 DEF Follows
  <1> QED  BY <1>3, FollowsQueue

LEMMA SpawnNeutral ==
  ASSUME ExecInv, ExecInv', QueueInv, NEW futs, Futs(futs), SpawnTo(tasks, futs), fns' = fns,
         \A j \in 1 .. Len(futs) : Neutral(futs[j].fut), UNCHANGED queueVars
  PROVE  QueueInv'
BY SpawnedFuts, TurnQueue

LEMMA PollQueue ==
  ASSUME ExecInv, ExecInv', TypesInv, QueueInv, PollTask PROVE QueueInv'
  <1>1. PICK i \in DOMAIN tasks : TaskOf(i)  BY DEF PollTask
  <1> DEFINE f == tasks[i].fut
  <1>2. FutType(f)  BY TaskFut DEF TypesInv
  <1>3. CASE PollJob(i)
    <2>1. Polls(i, "done", NoFn)  BY <1>3 DEF PollJob
    <2>2. Becomes(tasks[i].id, NoFn)  BY <2>1, Touched
    <2> QED  BY <1>3, <2>2, PollJobQueue
  <1>4. CASE ~PollJob(i)
    <2>1. UNCHANGED queueVars
      BY <1>1, <1>4 DEF TaskOf, PollRender, PollSave
    <2>2. Neutral(NoFn) /\ Neutral(Fail) /\ Neutral(Kids(f)) /\ \A res : Neutral(OpEnd(f, res))
      BY DEF Neutral, Asks, NoFn, Fail, Kids, OpEnd
    <2>3. \E fut : (Polls(i, "done", fut) \/ Polls(i, "blocked", fut)) /\ (Neutral(fut) \/ Kin(f, fut))
      <3>1. CASE PollReloadStart(i) \/ PollReloadCreated(i) \/ PollReloadFailed(i) \/ PollReloadRead(i)
        <4>1. Reloads(f)  BY <1>2, <3>1, Kinds DEF PollReloadStart, PollReloadCreated, PollReloadFailed, PollReloadRead
        <4>2. \A pc : Neutral([f EXCEPT !.pc = pc])  BY <4>1 DEF Reloads, Neutral, Asks
        <4> HIDE DEF f
        <4> QED  BY <2>2, <3>1, <4>2 DEF PollReloadStart, PollReloadCreated, PollReloadFailed, PollReloadRead, f
      <3>2. CASE PollWrite(i) \/ PollInstall(i) \/ PollOpEnd(i)
        <4>1. Operates(f)  BY <1>2, <3>2, Kinds DEF PollWrite, PollInstall, PollOpEnd
        <4>2. \A pc : Neutral([f EXCEPT !.pc = pc])  BY <4>1 DEF Operates, Neutral, Asks
        <4> HIDE DEF f
        <4> QED  BY <2>2, <3>2, <4>2 DEF PollWrite, PollInstall, PollOpEnd, f
      <3>3. CASE PollLoad(i)
        <4>1. Loads(f)  BY <1>2, <3>3, Kinds DEF PollLoad
        <4>2. Neutral([f EXCEPT !.k = "loaded"])  BY <4>1 DEF Loads, Neutral, Asks
        <4>3. \A pc : Neutral([f EXCEPT !.pc = pc])  BY <4>1 DEF Loads, Neutral, Asks
        <4> HIDE DEF f
        <4> QED  BY <3>3, <4>2, <4>3 DEF PollLoad, f
      <3>4. CASE PollMedia(i)
        <4>1. Picks(f) \/ f.k = "cancelled"  BY <1>2, <3>4, Kinds DEF PollMedia
        <4>2. Picks(f) => Neutral([f EXCEPT !.k = "media"])  BY DEF Picks, Neutral, Asks
        <4> HIDE DEF f
        <4> QED  BY <2>2, <3>4, <4>1, <4>2 DEF PollMedia, f
      <3>5. CASE PollRender(i) \/ PollSave(i)
        <4>1. Requests(f)  BY <1>2, <3>5, Kinds DEF PollRender, PollSave
        <4>2. f.k = "render" => Kin(f, [f EXCEPT !.pc = "looking"]) /\ Kin(f, [f EXCEPT !.k = "rendered"])
          BY <4>1 DEF Requests, Kin, Neutral, Asks
        <4>3. f.k = "saved" => Kin(f, [k |-> "rendered", src |-> f.src, id |-> f.id, pc |-> "empty"])
          BY DEF Kin, Neutral, Asks
        <4> HIDE DEF f
        <4> QED  BY <3>5, <4>2, <4>3 DEF PollRender, PollSave, f
      <3> QED  BY <1>1, <1>4, <3>1, <3>2, <3>3, <3>4, <3>5 DEF TaskOf
    <2> QED  BY <2>1, <2>3, TouchQueue
  <1> QED  BY <1>3, <1>4

LEMMA ThreadQueue ==
  ASSUME ExecInv, ExecInv', TypesInv, QueueInv, PoolThread \/ Answer PROVE QueueInv'
  <1>1. \A i \in DOMAIN tasks : FutType(tasks[i].fut)  BY TaskFut DEF TypesInv
  <1>2. UNCHANGED queueVars  BY DEF PoolThread, ThreadOf, ThreadRender, Answer, AnswerSave
  <1>3. PICK i \in DOMAIN tasks : \/ ThreadReload(i) \/ ThreadRename(i) \/ ThreadOp(i) \/ ThreadLoad(i)
                                  \/ ThreadRender(i) \/ AnswerPick(i) \/ AnswerSave(i)
    BY DEF PoolThread, ThreadOf, Answer
  <1> DEFINE f == tasks[i].fut
  <1> SUFFICES \E fut : (Wakes(i, fut) \/ Marks(i, fut)) /\ (Neutral(fut) \/ Kin(f, fut))
    BY <1>2, TouchQueue
  <1>4. CASE ThreadReload(i)
    <2>1. Reloads(f)  BY <1>1, <1>4, Kinds DEF ThreadReload
    <2>2. \A pc : Neutral([f EXCEPT !.pc = pc])  BY <2>1 DEF Reloads, Neutral, Asks
    <2> HIDE DEF f
    <2> QED  BY <1>4, <2>2 DEF ThreadReload, f
  <1>5. CASE ThreadRename(i) \/ ThreadOp(i)
    <2>1. Operates(f)  BY <1>1, <1>5, Kinds DEF ThreadRename, ThreadOp
    <2>2. \A pc : Neutral([f EXCEPT !.pc = pc])  BY <2>1 DEF Operates, Neutral, Asks
    <2> DEFINE fut == [f EXCEPT !.pc = "checked"]
    <2>3. [tasks EXCEPT ![i].fut.pc = "checked"] = [tasks EXCEPT ![i].fut = fut]  OBVIOUS
    <2> HIDE DEF f
    <2>4. CASE ThreadOp(i)  BY <2>2, <2>4 DEF ThreadOp, f
    <2>5. CASE ThreadRename(i)
      <3> HIDE DEF fut
      <3>1. Marks(i, fut) \/ Wakes(i, [f EXCEPT !.pc = "failed"]) \/ Wakes(i, [f EXCEPT !.pc = "ok"])
        BY <2>3, <2>5 DEF ThreadRename, Marks, f
      <3> QED  BY <2>2, <3>1 DEF fut
    <2> QED  BY <1>5, <2>4, <2>5
  <1>6. CASE ThreadLoad(i)
    <2>1. Loads(f)  BY <1>1, <1>6, Kinds DEF ThreadLoad
    <2> DEFINE c == Content(f.a)
               fut == [f EXCEPT !.pc = "read", !.v = c]
    <2>2. c \in Value  BY <2>1 DEF Loads, AtType, Content, TypesInv, PaneTypes
    <2>3. fut.k = f.k  BY <2>1, <2>2, LoadsRead
    <2>4. Neutral(fut)  BY <2>1, <2>3 DEF Loads, Neutral, Asks
    <2>5. Wakes(i, fut)  BY <1>6 DEF ThreadLoad
    <2> HIDE DEF fut
    <2> QED  BY <2>4, <2>5
  <1>7. CASE ThreadRender(i)
    <2>1. Requests(f) /\ f.k = "render"  BY <1>1, <1>7, Kinds DEF ThreadRender
    <2>2. \A pc : Kin(f, [f EXCEPT !.pc = pc])  BY <2>1 DEF Requests, Kin, Neutral, Asks
    <2> HIDE DEF f
    <2> QED  BY <1>7, <2>2 DEF ThreadRender, f
  <1>8. CASE AnswerPick(i) \/ AnswerSave(i)
    <2>1. Neutral([k |-> "cancelled"]) /\ \A path : Neutral([k |-> "picked", path |-> path])
      BY DEF Neutral, Asks
    <2>2. f.k = "save" => Kin(f, [f EXCEPT !.k = "saved"])
      <3>1. f.k = "save" => Requests(f)  BY <1>1, Kinds
      <3> QED  BY <3>1 DEF Requests, Kin, Neutral, Asks
    <2> HIDE DEF f
    <2> QED  BY <1>8, <2>1, <2>2 DEF AnswerPick, AnswerSave, f
  <1> QED  BY <1>3, <1>4, <1>5, <1>6, <1>7, <1>8

LEMMA RunQueue ==
  ASSUME ExecInv, ExecInv', TypesInv, QueueInv, RunFn PROVE QueueInv'
  <1> DEFINE f == Head(fns).fut
  <1>1. CASE RunRender
    <2>1. RunsFn(<<>>) /\ Asks(f)  BY <1>1 DEF RunRender, Asks
    <2>2. PICK t \in Live : Fut[t] = f /\ Turns({t}, <<>>)  BY <2>1, FutsEmpty, RanFuts
    <2>3. Unused(f.id)  BY <2>1, <2>2 DEF QueueInv, RequestsAsk
    <2>4. \/ PushJob(f) /\ slot' = slot
          \/ slot' = <<f>> /\ jobs' = jobs /\ asked' = asked
          \/ UNCHANGED queueVars
      BY <1>1 DEF RunRender, queueVars
    <2> HIDE DEF f
    <2>5. CASE PushJob(f) /\ slot' = slot
      <3>1. Pushes(f.id) /\ asked' = asked  BY <2>3, <2>5, PushPushes
      <3> QED  BY <2>1, <2>2, <2>5, <3>1, RunningQueue
    <2>6. CASE slot' = <<f>> /\ jobs' = jobs /\ asked' = asked
      BY <2>1, <2>2, <2>6, RunningQueue
    <2>7. CASE UNCHANGED queueVars
      <3>1. \A j \in 1 .. Len(<<>>) : Neutral(<<>>[j].fut)  OBVIOUS
      <3> QED  BY <2>2, <2>7, <3>1, TurnQueue
    <2> QED  BY <2>4, <2>5, <2>6, <2>7
  <1>2. CASE ~RunRender
    <2>1. UNCHANGED queueVars  BY <1>2 DEF RunFn
    <2>2. \E futs : RunsFn(futs) /\ Futs(futs) /\ \A j \in 1 .. Len(futs) : Neutral(futs[j].fut)
      <3>1. \A fut : /\ Futs(<<Ready(fut)>>) /\ Len(<<Ready(fut)>>) = 1 /\ <<Ready(fut)>>[1].fut = fut
        BY FutsOne DEF Ready
      <3>2. \A fut : Neutral(fut) => \A j \in 1 .. Len(<<Ready(fut)>>) : Neutral(<<Ready(fut)>>[j].fut)
        BY DEF Ready
      <3>3. CASE RunKids
        <4> DEFINE g == [k |-> "reload", dir |-> f.dir, gen |-> f.gen, pc |-> "start", create |-> FALSE]
        <4>1. RunsFn(<<Ready(g)>>)  BY <3>3 DEF RunKids
        <4>2. Neutral(g)  BY DEF Neutral, Asks
        <4> HIDE DEF g
        <4> QED  BY <3>1, <3>2, <4>1, <4>2
      <3>4. Futs(<<>>) /\ \A j \in 1 .. Len(<<>>) : Neutral(<<>>[j].fut)  BY FutsEmpty
      <3>5. CASE RunOpEnd
        <4> DEFINE g == [k |-> "reload", dir |-> f.dir, gen |-> listing[f.dir].gen, pc |-> "start", create |-> FALSE]
        <4>1. RunsFn(<<Ready(g)>>) \/ RunsFn(<<>>)  BY <3>5 DEF RunOpEnd, Reload
        <4>2. Neutral(g)  BY DEF Neutral, Asks
        <4> HIDE DEF g
        <4> QED  BY <3>1, <3>2, <3>4, <4>1, <4>2
      <3>6. CASE RunFail \/ RunLoaded \/ RunMedia
        <4>1. RunsFn(<<>>)  BY <3>6 DEF RunFail, RunLoaded, RunMedia
        <4> QED  BY <3>4, <4>1
      <3> QED  BY <1>2, <3>3, <3>5, <3>6 DEF RunFn
    <2>3. PICK futs : RunsFn(futs) /\ Futs(futs) /\ \A j \in 1 .. Len(futs) : Neutral(futs[j].fut)
      BY <2>2
    <2>4. PICK t \in Live : Turns({t}, futs)  BY <2>3, RanFuts
    <2> QED  BY <2>1, <2>3, <2>4, TurnQueue
  <1> QED  BY <1>1, <1>2

LEMMA ShowQueue ==
  ASSUME ExecInv, ExecInv', TypesInv, QueueInv, Show PROVE QueueInv'
  <1>1. \A d, create : Neutral(Reload(d, create).fut)  BY DEF Reload, Ready, Neutral, Asks
  <1>2. CASE UNCHANGED <<tasks, fns>> /\ UNCHANGED queueVars  BY <1>2, CalmQueue
  <1>3. CASE \E fut : /\ SpawnTo(tasks, <<Ready(fut)>>) \/ SpawnTo(tasks, <<Blocked(fut)>>)
                      /\ Neutral(fut) /\ fns' = fns /\ UNCHANGED queueVars
    <2>1. PICK fut : /\ SpawnTo(tasks, <<Ready(fut)>>) \/ SpawnTo(tasks, <<Blocked(fut)>>)
                     /\ Neutral(fut) /\ fns' = fns /\ UNCHANGED queueVars
      BY <1>3
    <2>2. PICK futs \in {<<Ready(fut)>>, <<Blocked(fut)>>} : SpawnTo(tasks, futs)  BY <2>1
    <2>3. Futs(futs) /\ \A j \in 1 .. Len(futs) : futs[j].fut = fut
      <3>1. Futs(<<Ready(fut)>>) /\ Futs(<<Blocked(fut)>>)  BY FutsOne
      <3>2. \A j \in 1 .. Len(<<Ready(fut)>>) : <<Ready(fut)>>[j].fut = fut  BY DEF Ready
      <3>3. \A j \in 1 .. Len(<<Blocked(fut)>>) : <<Blocked(fut)>>[j].fut = fut  BY DEF Blocked
      <3> QED  BY <2>2, <3>1, <3>2, <3>3
    <2> QED  BY <2>1, <2>2, <2>3, SpawnNeutral
  <1>4. CASE ShowNothing
    <2>1. fns' = fns /\ UNCHANGED queueVars  BY <1>4 DEF ShowNothing, Idle
    <2>2. CASE NoTask  BY <1>2, <2>1, <2>2 DEF NoTask
    <2>3. CASE \E open : PaneShown(open)
      <3>1. PICK open : SpawnTo(tasks, AutoReload(open))  BY <2>3 DEF PaneShown
      <3>2. Futs(AutoReload(open)) /\ \A j \in 1 .. Len(AutoReload(open)) : Neutral(AutoReload(open)[j].fut)
        BY <1>1, AutoReloads
      <3> QED  BY <2>1, <3>1, <3>2, SpawnNeutral
    <2> QED  BY <1>4, <2>2, <2>3 DEF ShowNothing
  <1>5. CASE UsePresets
    <2>1. fns' = fns /\ UNCHANGED queueVars  BY <1>5 DEF UsePresets, Idle
    <2>2. PICK open : PaneAction(open, settings)  BY <1>5 DEF UsePresets
    <2> DEFINE s == AutoReload(open)
    <2>3. PICK t : SpawnTo(tasks, Append(s, t)) /\ PaneTask(t)
      BY <2>2, PaneTasks DEF TypesInv
    <2>4. Futs(s) /\ \A j \in 1 .. Len(s) : Neutral(s[j].fut)  BY <1>1, AutoReloads
    <2>5. Futs(<<t>>)  BY <2>3, PaneFut DEF TypesInv
    <2>6. Neutral(t.fut)
      <3>1. CASE \E create : t = Reload("root", create)  BY <1>1, <3>1
      <3>2. CASE \E a : t = Ready([k |-> "load", pc |-> "start", a |-> a, v |-> NoFile])
        BY <3>2 DEF Ready, Neutral, Asks
      <3>3. CASE \E op, d, a, b, v : t = OpTask(op, d, a, b, v)
        BY <3>3 DEF OpTask, Ready, Blocked, Op, Neutral, Asks
      <3> QED  BY <2>3, <3>1, <3>2, <3>3 DEF PaneTask
    <2> HIDE DEF s
    <2> DEFINE u == Append(s, t)
    <2>7. /\ Futs(u) /\ Len(s) \in Nat /\ Len(u) = Len(s) + 1
          /\ \A j \in 1 .. Len(s) : u[j] = s[j]
          /\ u[Len(s) + 1] = t
      BY <2>4, <2>5, AppendFuts
    <2>8. SpawnTo(tasks, u)  BY <2>3
    <2> HIDE DEF u
    <2>9. \A j \in 1 .. Len(u) : Neutral(u[j].fut)
      <3> TAKE j \in 1 .. Len(u)
      <3>1. j \in 1 .. Len(s) \/ j = Len(s) + 1  BY <2>7
      <3> QED  BY <2>4, <2>6, <2>7, <3>1
    <2> QED  BY <2>1, <2>7, <2>8, <2>9, SpawnNeutral
  <1>6. CASE UseMedia
    <2>1. UNCHANGED queueVars  BY <1>6 DEF UseMedia
    <2>2. Neutral([k |-> "pick"]) /\ \A r : Neutral([k |-> "recent", path |-> r])
      BY DEF Neutral, Asks
    <2>3. CASE NoTask /\ fns' = fns  BY <1>2, <2>1, <2>3 DEF NoTask
    <2>4. CASE fns' = fns /\ (SpawnsOne(DialogTask) \/ \E r : SpawnsOne(MediaTask(r)))
      BY <1>3, <2>1, <2>2, <2>4 DEF SpawnsOne, DialogTask, MediaTask
    <2> QED  BY <1>6, <2>3, <2>4 DEF UseMedia, Idle
  <1>7. CASE UseEffects \/ UseAudio
    BY <1>2, <1>7 DEF UseEffects, UseAudio, NoTask, Idle
  <1>8. CASE UseRender
    <2>1. fns' = fns  BY <1>8 DEF UseRender, Idle
    <2>2. CASE asked' = asked + 1 /\ (UNCHANGED <<jobs, slot>>)
               /\ (SpawnsOne(SaveTask) \/ \E sequence : SpawnsOne(RenderTask(sequence)))
      <3>1. PICK fut : /\ SpawnTo(tasks, <<Ready(fut)>>) \/ SpawnTo(tasks, <<Blocked(fut)>>)
                       /\ Asks(fut) /\ fut.id = asked
        <4>1. CASE SpawnsOne(SaveTask)
          <5> DEFINE fut == [k |-> "save", src |-> pipe.path, id |-> asked]
          <5>1. SpawnTo(tasks, <<Blocked(fut)>>)  BY <4>1 DEF SpawnsOne, SaveTask
          <5>2. Asks(fut) /\ fut.id = asked  BY DEF Asks
          <5> HIDE DEF fut
          <5> QED  BY <5>1, <5>2
        <4>2. CASE \E sequence : SpawnsOne(RenderTask(sequence))
          <5>1. PICK sequence : SpawnsOne(RenderTask(sequence))  BY <4>2
          <5> DEFINE fut == [k |-> "render", src |-> pipe.path, id |-> asked,
                             pc |-> IF sequence THEN "look" ELSE "empty"]
          <5>2. SpawnTo(tasks, <<Ready(fut)>>)  BY <5>1 DEF SpawnsOne, RenderTask
          <5>3. Asks(fut) /\ fut.id = asked  BY DEF Asks
          <5> HIDE DEF fut
          <5> QED  BY <5>2, <5>3
        <4> QED  BY <2>2, <4>1, <4>2
      <3>2. PICK r \in {Ready(fut), Blocked(fut)} : SpawnTo(tasks, <<r>>)  BY <3>1
      <3>3. r.fut = fut  BY <3>2 DEF Ready, Blocked
      <3>4. Futs(<<r>>)  BY <3>2, FutsOne
      <3>5. Turns({}, <<r>>)  BY <2>1, <3>2, <3>4, SpawnedFuts
      <3> QED  BY <2>2, <3>1, <3>3, <3>5, AskingQueue
    <2>3. CASE (Confirm \/ Refuse) /\ NoTask
      <3>1. UNCHANGED <<tasks, fns>>  BY <2>1, <2>3 DEF NoTask
      <3>2. slot # <<>> /\ slot' = <<>>  BY <2>3 DEF Confirm, Refuse
      <3>3. Pushes(slot[1].id) /\ asked' = asked
        <4>1. Unused(slot[1].id)  BY <3>2 DEF QueueInv, RequestsAsk
        <4>2. CASE Confirm  BY <4>1, <4>2, PushPushes DEF Confirm
        <4>3. CASE Refuse  BY <4>3 DEF Refuse, Pushes
        <4> QED  BY <2>3, <4>2, <4>3
      <3> QED  BY <3>1, <3>2, <3>3, AnsweredQueue
    <2>4. CASE (\E n \in DOMAIN jobs : CloseJob(n)) /\ NoTask
      BY <2>1, <2>4, ClosedQueue DEF CloseJob, JobKeeps, NoTask
    <2> QED  BY <1>8, <2>2, <2>3, <2>4 DEF UseRender
  <1> QED  BY <1>4, <1>5, <1>6, <1>7, <1>8 DEF Show

LEMMA NextQueue ==
  ASSUME ExecInv, ExecInv', TypesInv, QueueInv, [Next]_vars PROVE QueueInv'
  <1>1. CASE Tick
    <2>1. UNCHANGED queueVars  BY <1>1 DEF Tick, Others
    <2>2. CASE BeginFrame \/ UserEvent
      BY <2>1, <2>2, CalmQueue DEF BeginFrame, UserEvent
    <2>3. CASE Collect
      <3>1. PICK gone : Turns(gone, <<>>)  BY <2>3, CollectedFuts
      <3>2. \A j \in 1 .. Len(<<>>) : Neutral(<<>>[j].fut)  OBVIOUS
      <3> QED  BY <2>1, <3>1, <3>2, TurnQueue
    <2> QED  BY <1>1, <2>2, <2>3 DEF Tick
  <1>2. CASE PollTask  BY <1>2, PollQueue
  <1>3. CASE RunFn  BY <1>3, RunQueue
  <1>4. CASE Show  BY <1>4, ShowQueue
  <1>5. CASE Sink  BY <1>5, CalmQueue DEF Sink, UiCall
  <1>6. CASE PoolThread \/ Answer  BY <1>6, ThreadQueue
  <1>7. CASE Stream  BY <1>7, CalmQueue DEF Stream, StreamEvent, Frame
  <1>8. CASE Jobs
    <2>1. PICK n \in DOMAIN jobs : JobEvent(n) \/ JobSpawns(n)  BY <1>8 DEF Jobs
    <2>2. CASE JobEvent(n)  BY <2>2, EventQueue
    <2>3. CASE JobSpawns(n)
      <3> DEFINE fut == [k |-> "job", id |-> jobs[n].id, pc |-> jobs[n].thread]
                 r == Ready(fut)
      <3>1. SpawnTo(tasks, <<r>>) /\ fns' = fns  BY <2>3 DEF JobSpawns, SpawnFromThread
      <3>2. Futs(<<r>>)  BY FutsOne
      <3>3. r.fut.k = "job" /\ r.fut.id = jobs[n].id /\ r.fut.pc = jobs[n].thread  BY DEF Ready
      <3> HIDE DEF r
      <3>4. Turns({}, <<r>>)  BY <3>1, <3>2, SpawnedFuts
      <3> QED  BY <2>3, <3>3, <3>4, SpawnQueue
    <2> QED  BY <2>1, <2>2, <2>3
  <1>9. CASE UNCHANGED vars  BY <1>9, CalmQueue DEF vars, execVars
  <1> QED  BY <1>1, <1>2, <1>3, <1>4, <1>5, <1>6, <1>7, <1>8, <1>9 DEF Next, UiStep

LEMMA InitQueue ==
  ASSUME Init PROVE QueueInv
  <1>1. jobs = <<>> /\ slot = <<>> /\ asked = 0 /\ tasks = <<>> /\ fns = <<>>
    BY DEF Init, QueueInit, ExecInit
  <1>2. Live = {}  BY <1>1 DEF Live, Ids
  <1>3. <<>> \in Seq(JobRec({}, asked))  OBVIOUS
  <1>4. QueueTypes  BY <1>1, <1>3 DEF QueueTypes
  <1> QED  BY <1>1, <1>2, <1>4 DEF QueueInv, OneJobEach, RequestsAsk, RequestsApart, JobTasks

\* While the interface's thread polls, holding the executor's mutex, the task
\* that sets a finished job's pipeline to NULL waits for the job's streaming
\* thread: that thread has spawned this task, and does not wait for the mutex.
THEOREM NoExecutorDeadlockHolds == Spec => []NoExecutorDeadlock
  <1>1. ExecInv /\ QueueInv => NoExecutorDeadlock
    <2> SUFFICES ASSUME ExecInv, QueueInv, NEW i \in DOMAIN tasks, NEW n \in DOMAIN jobs,
                        tasks[i].fut.k = "job", tasks[i].fut.pc = "end",
                        tasks[i].fut.id = jobs[n].id
                 PROVE  ~WaitsForExecutor(n)
      BY DEF NoExecutorDeadlock
    <2>1. tasks[i].id \in Live /\ Fut[tasks[i].id] = tasks[i].fut  BY FutOf
    <2>2. jobs[n].thread = "ended"  BY <2>1 DEF QueueInv, JobTasks
    <2> QED  BY <2>2 DEF WaitsForExecutor
  <1>2. ExecInv /\ ExecInv' /\ TypesInv /\ QueueInv /\ [Next]_vars => QueueInv'
    BY NextQueue
  <1> QED  BY InitQueue, StateInvHolds, <1>1, <1>2, PTL DEF Spec

=============================================================================
