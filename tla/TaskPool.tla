------------------------------ MODULE TaskPool ------------------------------
(* What the application promises of AppExecutor (gui/src/app/executor.rs):   *)
(* every task that is spawned is served once for every time it is woken, and *)
(* ends at most once, whatever the threads that wake it do.                  *)
EXTENDS Integers, FiniteSets

CONSTANT MaxTasks      \* the tasks of a run

VARIABLES spawned,     \* how many tasks have been spawned, their names being 1 .. spawned
          waiting,     \* the tasks that wait for a dialog or for another thread
          woken        \* the tasks that can go on

poolVars == <<spawned, waiting, woken>>

Init == spawned = 0 /\ waiting = {} /\ woken = {}

\* New tasks; a task is first polled without being woken.
Born == (spawned + 1) .. spawned'

Spawn == /\ spawned' \in (spawned + 1) .. MaxTasks
         /\ \E B \in SUBSET Born :
               waiting' = waiting \cup B /\ woken' = woken \cup (Born \ B)

\* Another thread, or the user, answers a waiting task.
Wake(t) == /\ t \in waiting
           /\ waiting' = waiting \ {t}
           /\ woken' = woken \cup {t}
           /\ UNCHANGED spawned

\* Tasks are served: each waits again or has ended, and what the end of one
\* does may have spawned others.  None that waited is touched.
Serve == /\ spawned' \in spawned .. MaxTasks
         /\ woken' \in SUBSET (woken \cup Born) /\ woken \ woken' # {}
         /\ waiting' \in SUBSET (waiting \cup woken \cup Born)
         /\ waiting \subseteq waiting' /\ Born \subseteq waiting' \cup woken'
         /\ waiting' \cap woken' = {}

Next == Spawn \/ Serve \/ \E t \in 1 .. MaxTasks : Wake(t)

\* Woken tasks are served, until none is left; a waiting task may never be
\* answered.
Served == (woken # {}) ~> (woken = {})

Spec == Init /\ [][Next]_poolVars /\ Served
=============================================================================
