---------------------------- MODULE AppExecutor -----------------------------
(* The executor of the graphical application (gui/src/app/executor.rs) and   *)
(* the frame that drives it (gui/src/app/main.rs).  Futures are polled by    *)
(* the thread of the interface, with the executor's mutex held; what they    *)
(* return is run by the same thread once the mutex is released.  The thread  *)
(* sleeps between frames unless someone asks for a repaint.                  *)
EXTENDS Integers, Sequences, SequencesExt

CONSTANT MaxTasks      \* bound: the tasks spawned in a run

ASSUME TasksAssumption == MaxTasks \in Nat

VARIABLES ui,          \* what the interface's thread is doing
          tasks,       \* AppExecutorInner::tasks, in the order they were spawned
          fns,         \* the functions collected by tick and not run yet
          spawned,     \* how many tasks have been spawned
          repaint      \* whether a repaint has been requested

execVars == <<ui, tasks, fns, spawned, repaint>>

\* A frame polls the executor and runs functions until there are none, and then
\* shows the widgets.
Phases == {"idle", "poll", "run", "show"}

ExecInit == ui = "idle" /\ tasks = <<>> /\ fns = <<>> /\ spawned = 0 /\ repaint = TRUE

\* The mutex of the executor is held for the whole of tick.
ExecutorLocked == ui = "poll"

\* The tasks and the number of spawns after spawning futures, in this order.
\* A task is polled for the first time by the next tick; the operations that
\* unblock starts at once wait from the beginning.
Spawned(ts, futs) ==
    ts \o [i \in DOMAIN futs |->
              [id |-> spawned + i, st |-> futs[i].st, fut |-> futs[i].fut]]
SpawnTo(ts, futs) ==
    /\ spawned + Len(futs) <= MaxTasks
    /\ tasks' = Spawned(ts, futs)
    /\ spawned' = spawned + Len(futs)
    /\ repaint' = (repaint \/ futs # <<>>)
Ready(fut) == [st |-> "ready", fut |-> fut]
Blocked(fut) == [st |-> "blocked", fut |-> fut]

\* Spawning from a thread that is not the interface's waits for the mutex.
SpawnFromThread(fut) == ~ExecutorLocked /\ SpawnTo(tasks, <<Ready(fut)>>) /\ UNCHANGED <<ui, fns>>

\* The future of a task runs until it waits or returns the function fut.
Polls(i, st, fut) ==
    /\ ui = "poll" /\ tasks[i].st = "ready"
    /\ tasks' = [tasks EXCEPT ![i].st = st, ![i].fut = fut]
    /\ UNCHANGED <<ui, fns, spawned, repaint>>

\* Mutant of Wakes: the waker only marks the task.
WakesQuietly(i, fut) ==
    /\ tasks[i].st = "blocked"
    /\ tasks' = [tasks EXCEPT ![i].st = "ready", ![i].fut = fut]
    /\ UNCHANGED <<ui, fns, spawned, repaint>>

\* Another thread finishes what a task waits for: AppWaker asks for a repaint.
Wakes(i, fut) ==
    /\ tasks[i].st = "blocked"
    /\ tasks' = [tasks EXCEPT ![i].st = "ready", ![i].fut = fut]
    /\ repaint' = TRUE
    /\ UNCHANGED <<ui, fns, spawned>>

\* What a sequence keeps of itself: its items at the indexes in I, in their order.
Kept(s, I) ==
    [n \in 1 .. Cardinality(I) |-> s[CHOOSE i \in I : Cardinality({j \in I : j <= i}) = n]]

\* The future of a task has returned None.
NoFn == [k |-> "none"]

\* Mutant of Collect: all tasks are forgotten, whether they have finished or not.
CollectAll ==
    LET found == {i \in DOMAIN tasks : tasks[i].st = "done" /\ tasks[i].fut # NoFn}
    IN /\ ui = "poll"
       /\ \A i \in DOMAIN tasks : tasks[i].st # "ready"
       /\ tasks' = <<>> /\ fns' = Kept(tasks, found)
       /\ ui' = IF found = {} THEN "show" ELSE "run"
       /\ UNCHANGED <<spawned, repaint>>

\* The end of AppExecutor::tick: what the finished tasks returned is collected
\* and the tasks are forgotten.  Without a function, NtscApp::tick is over.
Collect ==
    LET done == {i \in DOMAIN tasks : tasks[i].st = "done"}
        found == {i \in done : tasks[i].fut # NoFn}
    IN /\ ui = "poll"
       /\ \A i \in DOMAIN tasks : tasks[i].st # "ready"
       /\ tasks' = Kept(tasks, DOMAIN tasks \ done)
       /\ fns' = Kept(tasks, found)
       /\ ui' = IF found = {} THEN "show" ELSE "run"
       /\ UNCHANGED <<spawned, repaint>>

\* A collected function runs without the mutex and may spawn; after the last
\* one the executor is polled again.
RunsFn(futs) ==
    /\ ui = "run"
    /\ fns' = Tail(fns)
    /\ ui' = IF Len(fns) = 1 THEN "poll" ELSE "run"
    /\ SpawnTo(tasks, futs)

\* The event loop calls update: for a repaint, or for the user's own events.
BeginFrame == ui = "idle" /\ repaint /\ ui' = "poll" /\ repaint' = FALSE
              /\ UNCHANGED <<tasks, fns, spawned>>
UserEvent == ui = "idle" /\ ~repaint /\ ui' = "poll" /\ UNCHANGED <<tasks, fns, spawned, repaint>>

\* The tasks as the pool promises them.
Ids(s, I) == {s[i].id : i \in I}
Asleep == {i \in DOMAIN tasks : tasks[i].st = "blocked"}
Waiting == Ids(tasks, Asleep)
Woken == Ids(tasks, DOMAIN tasks \ Asleep) \cup Ids(fns, DOMAIN fns)

Pool == INSTANCE TaskPool WITH waiting <- Waiting, woken <- Woken

\* A task that can go on, or a function that waits to be run, always has a
\* frame ahead of it: the thread is not left asleep.
NoLostWake == ui = "idle" /\ Woken # {} => repaint
=============================================================================
