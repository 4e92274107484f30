-------------------------- MODULE CliRenderProofs --------------------------
(***************************************************************************)
(* Proofs about CliRender, for any set of streaming threads: its types, and*)
(* that success is only reported of a pipeline that was stopped.           *)
(***************************************************************************)
EXTENDS CliRender, TLAPS

\* A thread that steps leaves every other where it is.
LEMMA StepType ==
  ASSUME ThreadsType, NEW t \in Threads, NEW p, NEW q, Step(t, p, q),
         \/ t \in Streamers /\ q \in StreamerPlaces
         \/ t = "main" /\ q \in MainPlaces
         \/ t = "display" /\ q \in DisplayPlaces
  PROVE  /\ pc[t] = p /\ pc'[t] = q
         /\ \A u \in Threads \ {t} : pc'[u] = pc[u]
         /\ pc' \in [Threads -> StreamerPlaces \cup MainPlaces \cup DisplayPlaces]
         /\ \A u \in Streamers : pc'[u] \in StreamerPlaces
         /\ pc'["main"] \in MainPlaces
         /\ pc'["display"] \in DisplayPlaces
  <1>1. pc' = [pc EXCEPT ![t] = q] /\ pc[t] = p  BY DEF Step, Goto
  <1>2. Streamers \subseteq Threads /\ "main" \in Threads /\ "display" \in Threads
    BY DEF Threads
  <1>3. "main" \notin Streamers /\ "display" \notin Streamers  BY StreamersAssumption
  <1> QED  BY <1>1, <1>2, <1>3 DEF ThreadsType

\* The streaming threads are neither of the program's two.
LEMMA ThreadFacts ==
  /\ Streamers \subseteq Threads /\ "main" \in Threads /\ "display" \in Threads
  /\ "main" \notin Streamers /\ "display" \notin Streamers
  BY StreamersAssumption DEF Threads

-----------------------------------------------------------------------------
(* Types                                                                   *)

LEMMA NextThreads ==
  ASSUME TypeOK, [Next]_vars
  PROVE  ThreadsType'
  <1> USE ThreadFacts DEF TypeOK, StreamerPlaces, MainPlaces, DisplayPlaces
  <1>1. ASSUME NEW t \in Streamers, Commit(t)  PROVE ThreadsType'
    <2>1. Step(t, "streaming", "report_state")  BY <1>1 DEF Commit
    <2>2. UNCHANGED owner  BY <1>1 DEF Commit
    <2> QED  BY <2>1, <2>2, StepType DEF ThreadsType
  <1>2. ASSUME NEW t \in Streamers, AsyncDone(t)  PROVE ThreadsType'
    BY <1>2 DEF AsyncDone, ThreadsType
  <1>3. ASSUME NEW t \in Streamers, PostError(t)  PROVE ThreadsType'
    <2>1. Step(t, "streaming", "error_state")  BY <1>3 DEF PostError
    <2>2. UNCHANGED owner  BY <1>3 DEF PostError
    <2> QED  BY <2>1, <2>2, StepType DEF ThreadsType
  <1>4. ASSUME NEW t \in Streamers, PostEos(t)  PROVE ThreadsType'
    <2>1. Step(t, "streaming", "eos_time")  BY <1>4 DEF PostEos
    <2>2. UNCHANGED owner  BY <1>4 DEF PostEos
    <2> QED  BY <2>1, <2>2, StepType DEF ThreadsType
  <1>5. ASSUME NEW t \in Streamers \cup {"main"}, ErrorState(t)  PROVE ThreadsType'
    <2>1. PICK q \in {"streaming", "error_repaint"} : Step(t, "error_state", q)
      BY <1>5 DEF ErrorState
    <2>2. t \in Streamers  BY <2>1 DEF Step, ThreadsType
    <2>3. owner' \in [Locks -> Threads \cup {None}]  BY <1>5 DEF ErrorState, ThreadsType
    <2> QED  BY <2>1, <2>2, <2>3, StepType DEF ThreadsType
  <1>6. ASSUME NEW t \in Streamers \cup {"main"}, ErrorRepaint(t)  PROVE ThreadsType'
    <2>1. Step(t, "error_repaint", "streaming")  BY <1>6 DEF ErrorRepaint
    <2>2. t \in Streamers  BY <2>1 DEF Step, ThreadsType
    <2>3. owner' \in [Locks -> Threads \cup {None}]  BY <1>6 DEF ErrorRepaint, ThreadsType, Locks
    <2> QED  BY <2>1, <2>2, <2>3, StepType DEF ThreadsType
  <1>7. ASSUME NEW t \in Streamers \cup {"main"}, EosTime(t)  PROVE ThreadsType'
    <2>1. Step(t, "eos_time", "streaming")  BY <1>7 DEF EosTime
    <2>2. t \in Streamers  BY <2>1 DEF Step, ThreadsType
    <2>3. UNCHANGED owner  BY <1>7 DEF EosTime
    <2> QED  BY <2>1, <2>2, <2>3, StepType DEF ThreadsType
  <1>8. ASSUME NEW t \in Streamers \cup {"main"}, ReportTime(t)  PROVE ThreadsType'
    <2>1. Step(t, "report_time", "report_state")  BY <1>8 DEF ReportTime
    <2>2. t = "main"  BY <2>1 DEF Step, ThreadsType
    <2>3. UNCHANGED owner  BY <1>8 DEF ReportTime
    <2> QED  BY <2>1, <2>2, <2>3, StepType DEF ThreadsType
  <1>9. ASSUME NEW t \in Streamers \cup {"main"}, ReportState(t)  PROVE ThreadsType'
    <2>1. Step(t, "report_state", "report_repaint")  BY <1>9 DEF ReportState
    <2>2. UNCHANGED owner  BY <1>9 DEF ReportState
    <2>3. CASE t \in Streamers  BY <2>1, <2>2, <2>3, StepType DEF ThreadsType
    <2>4. CASE t = "main"  BY <2>1, <2>2, <2>4, StepType DEF ThreadsType
    <2> QED  BY <2>3, <2>4
  <1>10. ASSUME NEW t \in Streamers \cup {"main"}, ReportRepaint(t)  PROVE ThreadsType'
    <2>1. UNCHANGED owner  BY <1>10 DEF ReportRepaint
    <2>2. CASE t \in Streamers
      <3>1. Step(t, "report_repaint", "streaming")  BY <1>10, <2>2 DEF ReportRepaint
      <3> QED  BY <2>1, <2>2, <3>1, StepType DEF ThreadsType
    <2>3. CASE t = "main"
      <3>1. Step("main", "report_repaint", "null_join")  BY <1>10, <2>3 DEF ReportRepaint
      <3> QED  BY <2>1, <3>1, StepType DEF ThreadsType
    <2> QED  BY <2>2, <2>3
  <1>11. CASE PollJob
    <2>1. Step("main", "poll_job", "poll_state")  BY <1>11 DEF PollJob
    <2>2. owner' \in [Locks -> Threads \cup {None}]  BY <1>11 DEF PollJob, ThreadsType, Locks
    <2> QED  BY <2>1, <2>2, StepType DEF ThreadsType
  <1>12. CASE PollState  BY <1>12 DEF PollState, Step, Goto, ThreadsType
  <1>13. CASE RunLoader  BY <1>13 DEF RunLoader, ThreadsType
  <1>14. CASE RunEosTask
    <2>1. Step("main", "run", "report_time")  BY <1>14 DEF RunEosTask
    <2>2. UNCHANGED owner  BY <1>14 DEF RunEosTask
    <2> QED  BY <2>1, <2>2, StepType DEF ThreadsType
  <1>15. CASE NullJoin
    <2>1. Step("main", "null_join", "eos_complete")  BY <1>15 DEF NullJoin
    <2>2. UNCHANGED owner  BY <1>15 DEF NullJoin
    <2> QED  BY <2>1, <2>2, StepType DEF ThreadsType
  <1>16. CASE EosComplete
    <2>1. Step("main", "eos_complete", "run")  BY <1>16 DEF EosComplete
    <2>2. UNCHANGED owner  BY <1>16 DEF EosComplete
    <2> QED  BY <2>1, <2>2, StepType DEF ThreadsType
  <1>17. CASE Park
    <2>1. Step("main", "run", "parked")  BY <1>17 DEF Park
    <2>2. UNCHANGED owner  BY <1>17 DEF Park
    <2> QED  BY <2>1, <2>2, StepType DEF ThreadsType
  <1>18. CASE Unpark
    <2>1. Step("main", "parked", "poll_job")  BY <1>18 DEF Unpark
    <2>2. UNCHANGED owner  BY <1>18 DEF Unpark
    <2> QED  BY <2>1, <2>2, StepType DEF ThreadsType
  <1>19. CASE Close
    <2>1. Step("main", "close", "join")  BY <1>19 DEF Close
    <2>2. UNCHANGED owner  BY <1>19 DEF Close
    <2> QED  BY <2>1, <2>2, StepType DEF ThreadsType
  <1>20. CASE Join
    <2>1. Step("main", "join", "done")  BY <1>20 DEF Join
    <2>2. UNCHANGED owner  BY <1>20 DEF Join
    <2> QED  BY <2>1, <2>2, StepType DEF ThreadsType
  <1>21. CASE Recv
    <2>1. Step("display", "recv", "inner")  BY <1>21 DEF Recv
    <2>2. UNCHANGED owner  BY <1>21 DEF Recv
    <2> QED  BY <2>1, <2>2, StepType DEF ThreadsType
  <1>22. CASE Quit
    <2>1. Step("display", "recv", "done")  BY <1>22 DEF Quit
    <2>2. UNCHANGED owner  BY <1>22 DEF Quit
    <2> QED  BY <2>1, <2>2, StepType DEF ThreadsType
  <1>23. CASE LockInner
    <2>1. Step("display", "inner", "job")  BY <1>23 DEF LockInner
    <2>2. owner' \in [Locks -> Threads \cup {None}]  BY <1>23 DEF LockInner, ThreadsType, Locks
    <2> QED  BY <2>1, <2>2, StepType DEF ThreadsType
  <1>24. CASE LockJob
    <2>1. Step("display", "job", "state")  BY <1>24 DEF LockJob
    <2>2. owner' \in [Locks -> Threads \cup {None}]  BY <1>24 DEF LockJob, ThreadsType, Locks
    <2> QED  BY <2>1, <2>2, StepType DEF ThreadsType
  <1>25. CASE ReadState
    <2>1. PICK q \in {"recv", "progress"} : Step("display", "state", q)  BY <1>25 DEF ReadState
    <2>2. owner' \in [Locks -> Threads \cup {None}]
      BY <1>25 DEF ReadState, ThreadsType, EndRound, Locks
    <2> QED  BY <2>1, <2>2, StepType DEF ThreadsType
  <1>26. CASE Progress
    <2>1. Step("display", "progress", "recv")  BY <1>26 DEF Progress
    <2>2. owner' \in [Locks -> Threads \cup {None}]
      BY <1>26 DEF Progress, ThreadsType, EndRound, Locks
    <2> QED  BY <2>1, <2>2, StepType DEF ThreadsType
  <1>27. CASE UNCHANGED vars  BY <1>27 DEF vars, ThreadsType
  <1> QED
    BY <1>1, <1>2, <1>3, <1>4, <1>5, <1>6, <1>7, <1>8, <1>9, <1>10, <1>11, <1>12, <1>13, <1>14,
       <1>15, <1>16, <1>17, <1>18, <1>19, <1>20, <1>21, <1>22, <1>23, <1>24, <1>25,
       <1>26, <1>27
       DEF Next, Handler, Main, Display, Round

LEMMA NextJob ==
  ASSUME TypeOK, [Next]_vars
  PROVE  JobType'
  <1> USE DEF TypeOK, JobType
  <1>1. ASSUME NEW t \in Streamers, Commit(t)  PROVE JobType'
    BY <1>1 DEF Commit, stream
  <1>2. ASSUME NEW t \in Streamers, AsyncDone(t)  PROVE JobType'
    BY <1>2 DEF AsyncDone, Spawn, stream
  <1>3. ASSUME NEW t \in Streamers, PostError(t)  PROVE JobType'
    BY <1>3 DEF PostError, Spawn, stream
  <1>4. ASSUME NEW t \in Streamers, PostEos(t)  PROVE JobType'
    BY <1>4 DEF PostEos, stream
  <1>5. ASSUME NEW t \in Streamers \cup {"main"}, ErrorState(t)  PROVE JobType'
    BY <1>5 DEF ErrorState, stream
  <1>6. ASSUME NEW t \in Streamers \cup {"main"}, ErrorRepaint(t)  PROVE JobType'
    BY <1>6 DEF ErrorRepaint, Wake, stream
  <1>7. ASSUME NEW t \in Streamers \cup {"main"}, EosTime(t)  PROVE JobType'
    BY <1>7 DEF EosTime, Spawn, stream
  <1>8. ASSUME NEW t \in Streamers \cup {"main"}, ReportTime(t)  PROVE JobType'
    BY <1>8 DEF ReportTime, stream
  <1>9. ASSUME NEW t \in Streamers \cup {"main"}, ReportState(t)  PROVE JobType'
    <2>1. report \in {"null", "paused", "playing"}
      BY <1>9, ThreadFacts DEF ReportState, Step, StreamType
    <2> QED  BY <1>9, <2>1 DEF ReportState, Image
  <1>10. ASSUME NEW t \in Streamers \cup {"main"}, ReportRepaint(t)  PROVE JobType'
    BY <1>10 DEF ReportRepaint, Wake, stream
  <1>11. CASE PollJob  BY <1>11 DEF PollJob, stream
  <1>12. CASE PollState  BY <1>12 DEF PollState, Final, stream
  <1>13. CASE RunLoader  BY <1>13 DEF RunLoader, stream
  <1>14. CASE RunEosTask  BY <1>14 DEF RunEosTask, stream
  <1>15. CASE NullJoin  BY <1>15 DEF NullJoin, stream
  <1>16. CASE EosComplete  BY <1>16 DEF EosComplete, stream
  <1>17. CASE Park  BY <1>17 DEF Park, stream
  <1>18. CASE Unpark  BY <1>18 DEF Unpark, stream
  <1>19. CASE Close  BY <1>19 DEF Close, stream
  <1>20. CASE Join  BY <1>20 DEF Join, stream
  <1>21. CASE Recv  BY <1>21 DEF Recv, stream
  <1>22. CASE Quit  BY <1>22 DEF Quit, stream
  <1>23. CASE LockInner  BY <1>23 DEF LockInner, stream
  <1>24. CASE LockJob  BY <1>24 DEF LockJob, stream
  <1>25. CASE ReadState  BY <1>25 DEF ReadState, stream
  <1>26. CASE Progress  BY <1>26 DEF Progress, stream
  <1>27. CASE UNCHANGED vars  BY <1>27 DEF vars
  <1> QED
    BY <1>1, <1>2, <1>3, <1>4, <1>5, <1>6, <1>7, <1>8, <1>9, <1>10, <1>11, <1>12, <1>13, <1>14,
       <1>15, <1>16, <1>17, <1>18, <1>19, <1>20, <1>21, <1>22, <1>23, <1>24, <1>25,
       <1>26, <1>27
       DEF Next, Handler, Main, Display, Round

LEMMA NextStream ==
  ASSUME TypeOK, [Next]_vars
  PROVE  StreamType'
  <1> USE ThreadFacts DEF TypeOK, StreamType, ThreadsType, stream, Step, Goto
  <1>1. ASSUME NEW t \in Streamers, Commit(t)  PROVE StreamType'
    <2>1. current' \in {"paused", "playing"} /\ report' = current'  BY <1>1 DEF Commit
    <2>2. \A u \in Threads : report' # None  BY <2>1 DEF None
    <2>3. UNCHANGED <<failed, loader, eos_task, target>>  BY <1>1 DEF Commit
    <2> QED  BY <2>1, <2>2, <2>3
  <1>2. ASSUME NEW t \in Streamers, AsyncDone(t)  PROVE StreamType'
    BY <1>2 DEF AsyncDone, Spawn
  <1>3. ASSUME NEW t \in Streamers, PostError(t)  PROVE StreamType'
    BY <1>3 DEF PostError, Spawn
  <1>4. ASSUME NEW t \in Streamers, PostEos(t)  PROVE StreamType'
    BY <1>4 DEF PostEos
  <1>5. ASSUME NEW t \in Streamers \cup {"main"}, ErrorState(t)  PROVE StreamType'
    BY <1>5 DEF ErrorState
  <1>6. ASSUME NEW t \in Streamers \cup {"main"}, ErrorRepaint(t)  PROVE StreamType'
    BY <1>6 DEF ErrorRepaint
  <1>7. ASSUME NEW t \in Streamers \cup {"main"}, EosTime(t)  PROVE StreamType'
    BY <1>7 DEF EosTime, Spawn
  <1>8. ASSUME NEW t \in Streamers \cup {"main"}, ReportTime(t)  PROVE StreamType'
    BY <1>8 DEF ReportTime
  <1>9. ASSUME NEW t \in Streamers \cup {"main"}, ReportState(t)  PROVE StreamType'
    BY <1>9 DEF ReportState
  <1>10. ASSUME NEW t \in Streamers \cup {"main"}, ReportRepaint(t)  PROVE StreamType'
    BY <1>10 DEF ReportRepaint
  <1>11. CASE PollJob  BY <1>11 DEF PollJob
  <1>12. CASE PollState  BY <1>12 DEF PollState
  <1>13. CASE RunLoader  BY <1>13 DEF RunLoader
  <1>14. CASE RunEosTask
    <2>1. report' = "null" /\ target' = "null"  BY <1>14 DEF RunEosTask
    <2>2. \A u \in Threads : report' # None  BY <2>1 DEF None
    <2> QED  BY <1>14, <2>1, <2>2 DEF RunEosTask
  <1>15. CASE NullJoin  BY <1>15 DEF NullJoin
  <1>16. CASE EosComplete  BY <1>16 DEF EosComplete
  <1>17. CASE Park  BY <1>17 DEF Park
  <1>18. CASE Unpark  BY <1>18 DEF Unpark
  <1>19. CASE Close  BY <1>19 DEF Close
  <1>20. CASE Join  BY <1>20 DEF Join
  <1>21. CASE Recv  BY <1>21 DEF Recv
  <1>22. CASE Quit  BY <1>22 DEF Quit
  <1>23. CASE LockInner  BY <1>23 DEF LockInner
  <1>24. CASE LockJob  BY <1>24 DEF LockJob
  <1>25. CASE ReadState  BY <1>25 DEF ReadState
  <1>26. CASE Progress  BY <1>26 DEF Progress
  <1>27. CASE UNCHANGED vars  BY <1>27 DEF vars
  <1> QED
    BY <1>1, <1>2, <1>3, <1>4, <1>5, <1>6, <1>7, <1>8, <1>9, <1>10, <1>11, <1>12, <1>13, <1>14,
       <1>15, <1>16, <1>17, <1>18, <1>19, <1>20, <1>21, <1>22, <1>23, <1>24, <1>25,
       <1>26, <1>27
       DEF Next, Handler, Main, Display, Round

\* Every reachable value of every variable has its type, for any set of
\* streaming threads (the mutexes of CliOutput, SharedRenderJob and RenderJob).
THEOREM TypeCorrect == Spec => []TypeOK
  <1>1. Init => TypeOK
    BY ThreadFacts, TermsAssumption, InputsAssumption
       DEF Init, TypeOK, ThreadsType, JobType, StreamType, Threads, StreamerPlaces, MainPlaces,
           DisplayPlaces
  <1>2. TypeOK /\ [Next]_vars => TypeOK'
    BY NextThreads, NextJob, NextStream DEF TypeOK
  <1> QED  BY <1>1, <1>2, PTL DEF Spec

-----------------------------------------------------------------------------
(* Success                                                                 *)

\* The main thread is in set_state(Null), or in what follows it in its task.
Stopping == pc["main"] \in {"report_time", "report_state", "report_repaint", "null_join",
                             "eos_complete"}

\* What happens at the end of the stream. The handler of one streaming thread
\* spawned the task; while the main thread runs it nobody else reports a state
\* change, and no state but Null was asked for; when it is over the pipeline is
\* stopped, which is the only way the job completes.
StopInv ==
  /\ \A t \in Streamers : pc[t] \in {"report_state", "report_repaint"} =>
       ~Stopping /\ report \in {"paused", "playing"} /\ eos_task # "done"
  /\ \A t \in Streamers : pc[t] = "eos_time" => eos_task = None
  /\ \A t, u \in Streamers : pc[t] = "eos_time" /\ pc[u] = "eos_time" => t = u
  /\ Stopping => report = "null" /\ target = "null" /\ eos_task = "spawned"
  /\ pc["main"] = "eos_complete" => current = "null"
  /\ eos_task = "done" => current = "null"
  /\ state = "complete" => eos_task = "done" \/ Stopping
  /\ outcome = "complete" => eos_task = "done"

LEMMA NextStop ==
  ASSUME TypeOK, StopInv, [Next]_vars
  PROVE  StopInv'
  <1> USE ThreadFacts DEF TypeOK, StopInv, Stopping, ThreadsType, Step, Goto
  <1>1. ASSUME NEW t \in Streamers, Commit(t)  PROVE StopInv'
    BY <1>1 DEF Commit, stream, Reporting
  <1>2. ASSUME NEW t \in Streamers, AsyncDone(t)  PROVE StopInv'
    BY <1>2 DEF AsyncDone, stream, Spawn
  <1>3. ASSUME NEW t \in Streamers, PostError(t)  PROVE StopInv'
    BY <1>3 DEF PostError, stream, Spawn
  <1>4. ASSUME NEW t \in Streamers, PostEos(t)  PROVE StopInv'
    BY <1>4 DEF PostEos, stream
  <1>5. ASSUME NEW t \in Streamers \cup {"main"}, ErrorState(t)  PROVE StopInv'
    BY <1>5 DEF ErrorState, stream
  <1>6. ASSUME NEW t \in Streamers \cup {"main"}, ErrorRepaint(t)  PROVE StopInv'
    BY <1>6 DEF ErrorRepaint, stream
  <1>7. ASSUME NEW t \in Streamers \cup {"main"}, EosTime(t)  PROVE StopInv'
    <2>1. t \in Streamers /\ pc[t] = "eos_time" /\ eos_task = None /\ ~Stopping
      BY <1>7 DEF EosTime, MainPlaces, None
    <2>2. /\ pc'[t] = "streaming" /\ \A u \in Threads \ {t} : pc'[u] = pc[u]
          /\ eos_task' = "spawned" /\ UNCHANGED <<state, outcome, current, target, report>>
      BY <1>7 DEF EosTime
    <2>3. \A u \in Streamers : pc'[u] # "eos_time"  BY <2>1, <2>2
    <2> QED  BY <2>1, <2>2, <2>3 DEF None
  <1>8. ASSUME NEW t \in Streamers \cup {"main"}, ReportTime(t)  PROVE StopInv'
    BY <1>8 DEF ReportTime, stream, StreamerPlaces
  <1>9. ASSUME NEW t \in Streamers \cup {"main"}, ReportState(t)  PROVE StopInv'
    BY <1>9 DEF ReportState, stream, Image
  <1>10. ASSUME NEW t \in Streamers \cup {"main"}, ReportRepaint(t)  PROVE StopInv'
    BY <1>10 DEF ReportRepaint, stream, StreamerPlaces
  <1>11. CASE PollJob  BY <1>11 DEF PollJob, stream
  <1>12. CASE PollState  BY <1>12 DEF PollState, stream, Final
  <1>13. CASE RunLoader  BY <1>13 DEF RunLoader, stream
  <1>14. CASE RunEosTask  BY <1>14 DEF RunEosTask, stream, Reporting
  <1>15. CASE NullJoin  BY <1>15 DEF NullJoin, stream
  <1>16. CASE EosComplete
    <2>1. Stopping /\ current = "null" /\ eos_task = "spawned"  BY <1>16 DEF EosComplete
    <2>2. /\ pc'["main"] = "run" /\ \A u \in Streamers : pc'[u] = pc[u]
          /\ eos_task' = "done" /\ state' = "complete" /\ UNCHANGED <<outcome, current>>
      BY <1>16 DEF EosComplete
    <2>3. \A u \in Streamers : pc'[u] \notin {"report_state", "report_repaint", "eos_time"}
      BY <2>1, <2>2 DEF None
    <2>4. ~Stopping'  BY <2>2
    <2> QED  BY <2>1, <2>2, <2>3, <2>4
  <1>17. CASE Park  BY <1>17 DEF Park, stream
  <1>18. CASE Unpark  BY <1>18 DEF Unpark, stream
  <1>19. CASE Close  BY <1>19 DEF Close, stream
  <1>20. CASE Join  BY <1>20 DEF Join, stream
  <1>21. CASE Recv  BY <1>21 DEF Recv, stream
  <1>22. CASE Quit  BY <1>22 DEF Quit, stream
  <1>23. CASE LockInner  BY <1>23 DEF LockInner, stream
  <1>24. CASE LockJob  BY <1>24 DEF LockJob, stream
  <1>25. CASE ReadState  BY <1>25 DEF ReadState, stream
  <1>26. CASE Progress  BY <1>26 DEF Progress, stream
  <1>27. CASE UNCHANGED vars  BY <1>27 DEF vars, stream
  <1> QED
    BY <1>1, <1>2, <1>3, <1>4, <1>5, <1>6, <1>7, <1>8, <1>9, <1>10, <1>11, <1>12, <1>13, <1>14,
       <1>15, <1>16, <1>17, <1>18, <1>19, <1>20, <1>21, <1>22, <1>23, <1>24, <1>25,
       <1>26, <1>27
       DEF Next, Handler, Main, Display, Round

\* "Finished rendering" is only reported once the stream has ended and the
\* pipeline was stopped, for any number of streaming threads: the return of the
\* future is never ahead of set_state(Null), which finalises the file.
THEOREM CompleteMeansStoppedHolds == Spec => []CompleteMeansStopped
  <1>1. Init => StopInv
    <2> SUFFICES ASSUME Init  PROVE StopInv
      OBVIOUS
    <2>1. pc["main"] = "poll_job" /\ \A t \in Streamers : pc[t] = "streaming"
      BY ThreadFacts DEF Init
    <2> QED  BY <2>1 DEF Init, StopInv, Stopping, None
  <1>2. TypeOK /\ StopInv /\ [Next]_vars => StopInv'
    BY NextStop
  <1>3. StopInv => CompleteMeansStopped
    BY DEF StopInv, CompleteMeansStopped
  <1> QED  BY <1>1, <1>2, <1>3, TypeCorrect, PTL DEF Spec

=============================================================================
