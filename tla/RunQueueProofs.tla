--------------------------- MODULE RunQueueProofs ---------------------------
(* Theorems about RunQueue, for every set of tasks, dependency map, stamp  *)
(* assignment, thread count and mode.                                      *)
EXTENDS RunQueue, FiniteSetTheorems, TLAPS

-----------------------------------------------------------------------------
LEMMA InitType == Init => TypeOK
<1> SUFFICES ASSUME Init PROVE TypeOK
  OBVIOUS
<1> USE DEF Init
<1>1. stats \in Stats
  BY DEF Stats
<1>2. scene \in [Tasks -> 0 .. New]
  BY DEF New
<1>3. stamp \in [Tasks -> 0 .. New]
  BY StampInitsType DEF New
<1>4. job \in [Tasks -> JobStates] /\ worker \in [Workers -> {"none", "up", "dead"}]
  BY DEF JobStates
<1>5. depends \in [Tasks -> SUBSET Tasks] /\ covered \subseteq Tasks
  BY GraphsType, CoveredType
<1>6. runq_buildable \subseteq Tasks
  OBVIOUS
<1>7. pc \in Pcs /\ cont \in Pcs /\ reading \in Workers /\ state \in States
  BY DEF Pcs, Workers, States
<1> QED
  <2>1. /\ runq_running \subseteq Tasks /\ runq_complete \subseteq Tasks
        /\ failed_tids \subseteq Tasks /\ build_stamps \subseteq Tasks
        /\ existing \subseteq Tasks /\ finishnow \subseteq Workers
        /\ quit \subseteq Workers /\ late \in Nat /\ crashes \in Nat
        /\ failures \in Nat /\ interrupted \in 0 .. 2
    OBVIOUS
  <2>2. /\ teardown \in BOOLEAN /\ checked \in BOOLEAN /\ forced \in BOOLEAN
        /\ request \in {"run", "shutdown", "forceshutdown"}
    OBVIOUS
  <2> HIDE DEF Init
  <2> QED
    BY <1>1, <1>2, <1>3, <1>4, <1>5, <1>6, <1>7, <2>1, <2>2 DEF TypeOK

LEMMA FinalStateType == FinalState \in {"Failed", "Complete"}
BY DEF FinalState

LEMMA StatsType ==
  ASSUME NEW s \in Stats
  PROVE  /\ taskFailed(s) \in Stats /\ taskCompleted(s) \in Stats
         /\ taskSkipped(s) \in Stats /\ taskActive(s) \in Stats
<1> USE DEF Stats, Count
<1>1. taskFailed(s) \in Stats
  BY DEF taskFailed
<1>2. taskCompleted(s) \in Stats
  BY DEF taskCompleted
<1>3. taskSkipped(s) \in Stats
  BY DEF taskSkipped
<1>4. taskActive(s) \in Stats
  BY DEF taskActive
<1> QED BY <1>1, <1>2, <1>3, <1>4

LEMMA PollType ==
  ASSUME TypeOK, NEW s \in States, Poll(s) \/ finish_now
  PROVE  state' \in States /\ finishnow' \subseteq Workers
BY FinalStateType DEF TypeOK, Poll, finish_now, Up, States

LEMMA ReadType ==
  ASSUME TypeOK, NEW s \in States, NEW c \in Pcs, read_workers(s, c)
  PROVE  /\ state' \in States /\ finishnow' \subseteq Workers
         /\ pc' = "read" /\ cont' = c /\ reading' = "worker"
BY PollType DEF read_workers

LEMMA FinishType ==
  ASSUME TypeOK, NEW c \in Pcs, finish(c)
  PROVE  /\ state' \in States /\ finishnow' \subseteq Workers
         /\ pc' \in Pcs /\ cont' \in Pcs /\ reading' \in Workers
<1> DEFINE Reads == read_workers("CleanUp", c)
<1>1. CASE Reads
  BY <1>1, ReadType DEF States, Pcs, Workers
<1>2. CASE ~Reads
  <2> HIDE DEF Reads
  <2>1. /\ state' = IF stats.active > 0 THEN "CleanUp" ELSE FinalState
        /\ Goto(c) /\ UNCHANGED finishnow
    BY <1>2 DEF finish, Reads
  <2> QED BY <2>1, FinalStateType DEF Goto, States, TypeOK
<1> QED BY <1>1, <1>2

LEMMA CompleteType ==
  ASSUME TypeOK, NEW t \in Tasks, NEW also \in SUBSET Tasks,
         task_completeoutright(t, also)
  PROVE  runq_complete' \subseteq Tasks /\ runq_buildable' \subseteq Tasks
BY DEF TypeOK, task_completeoutright, Released, revdeps

LEMMA SkipType ==
  ASSUME TypeOK, NEW t \in Tasks, task_skip(t)
  PROVE  /\ runq_complete' \subseteq Tasks /\ runq_buildable' \subseteq Tasks
         /\ runq_running' \subseteq Tasks /\ stats' \in Stats
BY CompleteType, StatsType DEF TypeOK, task_skip

LEMMA NextType == TypeOK /\ [Next]_vars => TypeOK'
<1> SUFFICES ASSUME TypeOK, [Next]_vars PROVE TypeOK'
  OBVIOUS
<1> USE DEF TypeOK, cooker, queue, disk, procs, given, Goto, Workers, Pcs,
            States, New
<1>1. CASE IdleRun      BY <1>1 DEF IdleRun
<1>2. CASE IdleShutdown
  BY <1>2, FinishType DEF IdleShutdown
<1>3. CASE IdleForceShutdown
  BY <1>3, PollType DEF IdleForceShutdown
<1>4. CASE DiskLow
  BY <1>4, FinishType, PollType DEF DiskLow
<1>5. CASE DiskFine     BY <1>5 DEF DiskFine
<1>6. CASE Execute
  <2>1. CASE read_workers(state, "launch")
    BY <1>6, <2>1, ReadType DEF Execute
  <2>2. CASE Goto("after") /\ UNCHANGED <<state, finishnow>>
    BY <1>6, <2>2 DEF Execute
  <2> QED BY <1>6, <2>1, <2>2 DEF Execute
<1>7. CASE ReadNext
  <2>1. CASE MorePipes
    BY <1>7, <2>1, PollType DEF ReadNext
  <2>2. CASE ~MorePipes
    <3>1. pc' \in Pcs /\ cont' \in Pcs /\ reading' \in Workers
      BY <1>7, <2>2 DEF ReadNext
    <3> QED BY <1>7, <2>2, <3>1 DEF ReadNext
  <2> QED BY <2>1, <2>2
<1>8. CASE NothingToStart
  <2>1. CASE stats.active > 0
    BY <1>8, <2>1, ReadType DEF NothingToStart
  <2>2. CASE ~(stats.active > 0)
    BY <1>8, <2>2, FinalStateType DEF NothingToStart
  <2> QED BY <2>1, <2>2
<1>9. ASSUME NEW t \in Tasks, ReadComplete(t) PROVE TypeOK'
  BY <1>9, CompleteType, StatsType DEF ReadComplete, JobStates
<1>10. ASSUME NEW t \in Tasks, ReadFail(t) PROVE TypeOK'
  BY <1>10, StatsType DEF ReadFail, AfterFailure, JobStates
<1>11. ASSUME NEW t \in Tasks, SkipCovered(t) PROVE TypeOK'
  BY <1>11, SkipType DEF SkipCovered, task_skip
<1>12. ASSUME NEW t \in Tasks, SkipExisting(t) PROVE TypeOK'
  BY <1>12, SkipType DEF SkipExisting, task_skip
<1>13. ASSUME NEW t \in Tasks, RunNoExec(t) PROVE TypeOK'
  BY <1>13, CompleteType, StatsType DEF RunNoExec, make_stamp
<1>14. ASSUME NEW t \in Tasks, SpawnFails(t) PROVE TypeOK'
  BY <1>14, StatsType DEF SpawnFails
<1>15. ASSUME NEW t \in Tasks, Launch(t) PROVE TypeOK'
  <2>1. /\ state' \in States /\ finishnow' \subseteq Workers
        /\ pc' \in Pcs /\ cont' \in Pcs /\ reading' \in Workers
    BY <1>15, ReadType DEF Launch
  <2>2. stats' \in Stats
    BY <1>15, StatsType DEF Launch
  <2>3. late' \in Nat
    BY <1>15 DEF Launch
  <2>4. job' \in [Tasks -> JobStates] /\ worker' \in [Workers -> {"none", "up", "dead"}]
    BY <1>15 DEF Launch, WorkerOf, JobStates
  <2> QED BY <1>15, <2>1, <2>2, <2>3, <2>4 DEF Launch
<1>16. ASSUME NEW t \in Tasks, LaunchBroken(t) PROVE TypeOK'
  BY <1>16 DEF LaunchBroken
<1>17. CASE Loop        BY <1>17 DEF Loop
<1>18. CASE CleanUp
  BY <1>18, FinishType DEF CleanUp
<1>19. CASE Ended       BY <1>19 DEF Ended
<1>20. CASE Wait        BY <1>20 DEF Wait
<1>21. CASE Teardown    BY <1>21 DEF Teardown
<1>22. CASE TeardownNext
  <2>1. /\ worker' \in [Workers -> {"none", "up", "dead"}]
        /\ finishnow' \subseteq Workers /\ quit' \subseteq Workers
        /\ state' \in States
    BY <1>22 DEF TeardownNext
  <2>2. pc' \in Pcs /\ cont' \in Pcs /\ reading' \in Workers
    BY <1>22 DEF TeardownNext
  <2> QED BY <1>22, <2>1, <2>2 DEF TeardownNext
<1>23. CASE VerdictComplete BY <1>23 DEF VerdictComplete
<1>24. CASE VerdictFailed
  <2>1. Cardinality(failed_tids) \in Nat
    BY TasksFinite, FS_Subset, FS_CardinalityType
  <2> QED BY <1>24, <2>1 DEF VerdictFailed
<1>26. CASE VerdictCleanUp BY <1>26 DEF VerdictCleanUp
<1>27. ASSUME NEW t \in Tasks, Child(t) PROVE TypeOK'
  <2>1. job' \in [Tasks -> JobStates]
    BY <1>27 DEF Child, Fork, ChildStamp, ChildExit, ChildFail, JobStates
  <2>2. stamp' \in [Tasks -> 0 .. New] /\ scene' \in [Tasks -> 0 .. New]
    BY <1>27 DEF Child, Fork, ChildStamp, ChildExit, ChildFail, make_stamp
  <2>3. UNCHANGED <<cooker, queue, given, worker, finishnow, quit, crashes>>
    BY <1>27 DEF Child, Fork, ChildStamp, ChildExit, ChildFail
  <2> QED BY <2>1, <2>2, <2>3
<1>28. ASSUME NEW w \in Workers, FinishNow(w) PROVE TypeOK'
  BY <1>28 DEF FinishNow, JobStates
<1>29. ASSUME NEW w \in Workers, Quit(w) PROVE TypeOK'
  BY <1>29 DEF Quit, JobStates
<1>30. ASSUME NEW w \in Workers, Crash(w) PROVE TypeOK'
  BY <1>30 DEF Crash, JobStates
<1>31. CASE Stop        BY <1>31 DEF Stop
<1>32. CASE Terminated  BY <1>32 DEF Terminated, vars
<1>33. CASE UNCHANGED vars BY <1>33 DEF vars
<1> QED
  BY <1>1, <1>2, <1>3, <1>4, <1>5, <1>6, <1>7, <1>8, <1>9, <1>10, <1>11,
     <1>12, <1>13, <1>14, <1>15, <1>16, <1>17, <1>18, <1>19, <1>20, <1>21,
     <1>22, <1>23, <1>24, <1>26, <1>27, <1>28, <1>29, <1>30, <1>31,
     <1>32, <1>33
  DEF Next, Cooker, WorkerStep

(* The variables keep their types through any build: what the server, the  *)
(* workers and the children do to them stays within what the code that     *)
(* reads them expects.                                                     *)
THEOREM TypeCorrect == Spec => []TypeOK
BY InitType, NextType, PTL DEF Spec

-----------------------------------------------------------------------------
LEMMA InitInv == Init => QueueInv
<1> SUFFICES ASSUME Init PROVE QueueInv
  OBVIOUS
<1> USE DEF Init
<1>1. StampsHeld
  BY DEF StampsHeld
<1>2. QueueOrder
  BY DEF QueueOrder
<1>3. Verdicts
  BY DEF Verdicts
<1>4. SlotsCounted
  BY FS_EmptySet, NumberTasksType DEF SlotsCounted
<1> QED BY <1>1, <1>2, <1>3, <1>4 DEF QueueInv

LEMMA HeldFinite ==
  ASSUME TypeOK
  PROVE  IsFiniteSet(build_stamps) /\ Cardinality(build_stamps) \in Nat
BY TasksFinite, FS_Subset, FS_CardinalityType DEF TypeOK

(* Steps that leave the queue, the stamps and the jobs alone.              *)
LEMMA QuietInv ==
  ASSUME QueueInv, UNCHANGED <<queue, disk, job, given>>, Counting' => Counting
  PROVE  QueueInv'
BY DEF QueueInv, StampsHeld, QueueOrder, Verdicts, SlotsCounted, Settled,
       queue, disk, given

(* Nothing that ends the build counts.                                     *)
LEMMA FinishEnds ==
  ASSUME NEW c \in {"dispatch", "execute", "ended"}, finish(c)
  PROVE  ~Counting'
<1> DEFINE Reads == read_workers("CleanUp", c)
<1>1. CASE Reads
  BY <1>1, FinalStateType DEF read_workers, Poll, finish_now, Counting
<1>2. CASE ~Reads
  <2> HIDE DEF Reads
  <2>1. /\ state' = IF stats.active > 0 THEN "CleanUp" ELSE FinalState
        /\ Goto(c)
    BY <1>2 DEF finish, Reads
  <2> QED BY <2>1, FinalStateType DEF Goto, Counting
<1> QED BY <1>1, <1>2

LEMMA CandidateFacts ==
  ASSUME TypeOK, QueueInv, NEW t \in Tasks, CanStart(t)
  PROVE  /\ t \in runq_buildable /\ t \notin runq_running
         /\ t \notin runq_complete /\ t \notin failed_tids
         /\ job[t] = "none" /\ t \notin build_stamps
         /\ depends[t] \subseteq runq_complete
         /\ \A u \in build_stamps : StampOf[u] # StampOf[t]
         /\ stats.active < NumberTasks
         /\ stats.active = Cardinality(build_stamps)
<1>1. t \in runq_buildable \ runq_running /\ ~(stats.active >= NumberTasks)
      /\ \A u \in build_stamps : StampOf[u] # StampOf[t]
  BY DEF CanStart, Candidates
<1>2. stats.active \in Int /\ NumberTasks \in Int
  BY NumberTasksType DEF TypeOK, Stats
<1>3. stats.active = Cardinality(build_stamps)
  BY DEF CanStart, QueueInv, SlotsCounted, Counting
<1> QED
  BY <1>1, <1>2, <1>3 DEF QueueInv, QueueOrder, StampsHeld, Verdicts

LEMMA StatsActive ==
  ASSUME NEW s \in Stats
  PROVE  /\ taskFailed(s).active = s.active - 1
         /\ taskCompleted(s).active = s.active - 1
         /\ taskSkipped(s).active = s.active + 1
         /\ taskActive(s).active = s.active + 1
         /\ s.active \in Int
<1> USE DEF Stats, Count
<1>1. taskFailed(s).active = s.active - 1
  BY DEF taskFailed
<1>2. taskCompleted(s).active = s.active - 1
  BY DEF taskCompleted
<1>3. taskSkipped(s).active = s.active + 1
  BY DEF taskSkipped
<1>4. taskActive(s).active = s.active + 1
  BY DEF taskActive
<1> QED BY <1>1, <1>2, <1>3, <1>4

(* Completing t, with or without making t itself buildable.                *)
LEMMA CompleteOrder ==
  ASSUME TypeOK, QueueOrder, NEW t \in Tasks, NEW also \in SUBSET {t},
         depends[t] \subseteq runq_complete,
         task_completeoutright(t, also), UNCHANGED depends,
         t \in runq_running', runq_running \subseteq runq_running',
         runq_running' \subseteq runq_running \cup {t},
         t \in runq_buildable \/ t \in also,
         \A u \in Tasks : job'[u] # "none" => u \in runq_running'
  PROVE  QueueOrder'
BY DEF QueueOrder, TypeOK, task_completeoutright, Released, revdeps

(* Steps of the workers and children: a job moves among the states whose   *)
(* exit code is unread.                                                    *)
LEMMA JobInv ==
  ASSUME TypeOK, QueueInv, UNCHANGED <<queue, given, state, pc, cont>>,
         \A t \in Tasks : \/ job'[t] = job[t]
                          \/ {job[t], job'[t]} \cap {"none", "read"} = {},
         \A t \in Tasks : stamp[t] = New => stamp'[t] = New
  PROVE  QueueInv'
<1> USE DEF QueueInv, queue, given
<1>1. StampsHeld'
  BY DEF StampsHeld
<1>2. QueueOrder'
  BY DEF QueueOrder
<1>3. Verdicts'
  BY DEF Verdicts, Settled, TypeOK
<1>4. SlotsCounted'
  BY DEF SlotsCounted, Counting
<1> QED BY <1>1, <1>2, <1>3, <1>4

LEMMA SkipInv ==
  ASSUME TypeOK, QueueInv, NEW t \in Tasks, CanStart(t), task_skip(t),
         t \in covered \cup existing', existing \subseteq existing',
         Goto("after"), UNCHANGED <<disk, procs, given, state>>
  PROVE  QueueInv'
<1> USE DEF QueueInv, disk, procs, given
<1>1. StampsHeld'
  BY DEF StampsHeld, task_skip
<1>2. QueueOrder'
  BY CandidateFacts, CompleteOrder DEF task_skip, QueueOrder
<1>3. Verdicts'
  BY CandidateFacts DEF Verdicts, Settled, task_skip, task_completeoutright
<1>4. SlotsCounted'
  <2>1. stats'.active = stats.active
    <3>1. stats \in Stats /\ taskCompleted(stats) \in Stats
      BY StatsType DEF TypeOK
    <3>2. stats' = taskSkipped(taskCompleted(stats))
      BY DEF task_skip
    <3> QED BY <3>1, <3>2, StatsActive
  <2>2. build_stamps' = build_stamps /\ Counting
    BY DEF task_skip, CanStart, Counting
  <2> QED BY <2>1, <2>2 DEF SlotsCounted
<1> QED BY <1>1, <1>2, <1>3, <1>4

LEMMA NextInv == TypeOK /\ QueueInv /\ [Next]_vars => QueueInv'
<1> SUFFICES ASSUME TypeOK, QueueInv, [Next]_vars PROVE QueueInv'
  OBVIOUS
<1> USE DEF cooker, queue, disk, procs, given
<1>1. CASE IdleRun
  BY <1>1, QuietInv DEF IdleRun, Goto, Counting
<1>2. CASE IdleShutdown
  BY <1>2, QuietInv, FinishEnds DEF IdleShutdown
<1>3. CASE IdleForceShutdown
  <2>1. ~Counting'
    BY <1>3, FinalStateType DEF IdleForceShutdown, finish_now, Goto, Counting
  <2> QED BY <1>3, <2>1, QuietInv DEF IdleForceShutdown
<1>4. CASE DiskLow
  <2>1. ~Counting'
    BY <1>4, FinishEnds, FinalStateType DEF DiskLow, finish_now, Goto, Counting
  <2> QED BY <1>4, <2>1, QuietInv DEF DiskLow
<1>5. CASE DiskFine
  BY <1>5, QuietInv DEF DiskFine, Goto, Counting
<1>6. CASE Execute
  BY <1>6, QuietInv, FinalStateType DEF Execute, MayExecute, Goto, Counting
<1>7. CASE ReadNext
  BY <1>7, QuietInv, FinalStateType DEF ReadNext, Goto, Counting, Poll, finish_now
<1>8. CASE NothingToStart
  BY <1>8, QuietInv DEF NothingToStart, Counting
<1>9. ASSUME NEW t \in Tasks, ReadComplete(t) PROVE QueueInv'
  <2> USE <1>9 DEF ReadComplete
  <2>1. /\ t \in build_stamps /\ t \in runq_running /\ t \in runq_buildable
        /\ t \notin failed_tids /\ depends[t] \subseteq runq_complete
    BY DEF QueueInv, StampsHeld, QueueOrder, Verdicts
  <2>2. StampsHeld'
    BY DEF QueueInv, StampsHeld, TypeOK
  <2>3. QueueOrder'
    BY <2>1, CompleteOrder DEF QueueInv, QueueOrder, TypeOK
  <2>4. Verdicts'
    BY <2>1 DEF QueueInv, Verdicts, Settled, task_completeoutright, TypeOK
  <2>5. SlotsCounted'
    <3>1. /\ Cardinality(build_stamps') = Cardinality(build_stamps) - 1
          /\ Cardinality(build_stamps) \in Nat
      BY <2>1, HeldFinite, FS_RemoveElement
    <3>2. stats'.active = stats.active - 1
      BY StatsActive DEF TypeOK
    <3>3. Counting' => Counting
      BY DEF Counting
    <3> QED BY <3>1, <3>2, <3>3, NumberTasksType DEF QueueInv, SlotsCounted
  <2> QED BY <2>2, <2>3, <2>4, <2>5 DEF QueueInv
<1>10. ASSUME NEW t \in Tasks, ReadFail(t) PROVE QueueInv'
  <2> USE <1>10 DEF ReadFail
  <2>1. t \in build_stamps /\ t \notin runq_complete
    BY DEF QueueInv, StampsHeld, Verdicts
  <2>2. StampsHeld'
    BY DEF QueueInv, StampsHeld, TypeOK
  <2>3. QueueOrder'
    BY DEF QueueInv, QueueOrder, TypeOK
  <2>4. Verdicts'
    BY <2>1 DEF QueueInv, Verdicts, Settled, TypeOK
  <2>5. SlotsCounted'
    <3>1. /\ Cardinality(build_stamps') = Cardinality(build_stamps) - 1
          /\ Cardinality(build_stamps) \in Nat
      BY <2>1, HeldFinite, FS_RemoveElement
    <3>2. stats'.active = stats.active - 1
      BY StatsActive DEF TypeOK
    <3>3. Counting' => Counting
      BY DEF Counting, AfterFailure
    <3> QED BY <3>1, <3>2, <3>3, NumberTasksType DEF QueueInv, SlotsCounted
  <2> QED BY <2>2, <2>3, <2>4, <2>5 DEF QueueInv
<1>11. ASSUME NEW t \in Tasks, SkipCovered(t) PROVE QueueInv'
  BY <1>11, SkipInv DEF SkipCovered
<1>12. ASSUME NEW t \in Tasks, SkipExisting(t) PROVE QueueInv'
  BY <1>12, SkipInv DEF SkipExisting
<1>13. ASSUME NEW t \in Tasks, RunNoExec(t) PROVE QueueInv'
  <2> USE <1>13 DEF RunNoExec
  <2>1. StampsHeld'
    BY DEF QueueInv, StampsHeld
  <2>2. QueueOrder'
    BY CandidateFacts, CompleteOrder DEF QueueInv, QueueOrder
  <2>3. stamp' \in [Tasks -> 0 .. New] /\ stamp'[t] = New
        /\ \A u \in Tasks : stamp[u] = New => stamp'[u] = New
    BY DEF make_stamp, TypeOK, New
  <2>4. Verdicts'
    BY <2>3, CandidateFacts
       DEF QueueInv, Verdicts, Settled, task_completeoutright, TypeOK
  <2>5. SlotsCounted'
    <3>1. stats \in Stats /\ taskActive(stats) \in Stats
      BY StatsType DEF TypeOK
    <3>2. stats'.active = stats.active
      BY <3>1, StatsActive
    <3>3. build_stamps' = build_stamps /\ Counting
      BY DEF CanStart, Counting
    <3> QED BY <3>2, <3>3 DEF QueueInv, SlotsCounted
  <2> QED BY <2>1, <2>2, <2>4, <2>5 DEF QueueInv
<1>14. ASSUME NEW t \in Tasks, SpawnFails(t) PROVE QueueInv'
  <2> USE <1>14 DEF SpawnFails, QueueInv
  <2>1. StampsHeld'
    BY DEF StampsHeld
  <2>2. QueueOrder'
    BY DEF QueueOrder
  <2>3. Verdicts'
    BY DEF Verdicts, Settled
  <2>4. SlotsCounted'
    BY DEF SlotsCounted, Counting, Goto
  <2> QED BY <2>1, <2>2, <2>3, <2>4
<1>15. ASSUME NEW t \in Tasks, Launch(t) PROVE QueueInv'
  <2> USE <1>15 DEF Launch
  <2>1. CanStart(t)
    BY DEF NeedsChild
  <2>2. StampsHeld'
    <3>1. \A u \in Tasks : job'[u] = IF u = t THEN "sent" ELSE job[u]
      BY DEF TypeOK
    <3>2. build_stamps' = {u \in Tasks : job'[u] \notin {"none", "read"}}
      BY <3>1 DEF QueueInv, StampsHeld
    <3>3. \A u \in build_stamps : StampOf[u] # StampOf[t]
      BY <2>1, CandidateFacts
    <3> QED BY <3>2, <3>3 DEF QueueInv, StampsHeld
  <2>3. QueueOrder'
    BY <2>1, CandidateFacts DEF QueueInv, QueueOrder, TypeOK
  <2>4. Verdicts'
    BY <2>1, CandidateFacts DEF QueueInv, Verdicts, Settled, TypeOK
  <2>5. /\ stats'.active = Cardinality(build_stamps')
        /\ Cardinality(build_stamps') <= NumberTasks
    <3>1. /\ Cardinality(build_stamps') = Cardinality(build_stamps) + 1
          /\ Cardinality(build_stamps) \in Nat
      BY <2>1, CandidateFacts, HeldFinite, FS_AddElement
    <3>2. stats'.active = stats.active + 1
      BY StatsActive DEF TypeOK
    <3>3. /\ stats.active = Cardinality(build_stamps)
          /\ stats.active < NumberTasks
      BY <2>1, CandidateFacts
    <3> QED BY <3>1, <3>2, <3>3, NumberTasksType
  <2> QED BY <2>2, <2>3, <2>4, <2>5 DEF QueueInv, SlotsCounted
<1>16. ASSUME NEW t \in Tasks, LaunchBroken(t) PROVE QueueInv'
  BY <1>16, QuietInv DEF LaunchBroken, Counting
<1>17. CASE Loop
  BY <1>17, QuietInv DEF Loop, Goto, Counting
<1>18. CASE CleanUp
  BY <1>18, QuietInv, FinishEnds DEF CleanUp
<1>19. CASE Ended
  BY <1>19, QuietInv DEF Ended, Goto, Counting
<1>20. CASE Wait
  BY <1>20, QuietInv DEF Wait, Goto, Counting
<1>21. CASE Teardown
  BY <1>21, QuietInv DEF Teardown, Goto, Counting
<1>22. CASE TeardownNext
  BY <1>22, QuietInv DEF TeardownNext, Goto, Counting
<1>23. CASE VerdictComplete
  BY <1>23, QuietInv DEF VerdictComplete, Goto, Counting
<1>24. CASE VerdictFailed
  BY <1>24, QuietInv DEF VerdictFailed, Goto, Counting
<1>26. CASE VerdictCleanUp
  BY <1>26, QuietInv DEF VerdictCleanUp, Goto, Counting
<1>27. ASSUME NEW t \in Tasks, Child(t) PROVE QueueInv'
  BY <1>27, JobInv DEF Child, Fork, ChildStamp, ChildExit, ChildFail,
                       make_stamp, TypeOK
<1>28. ASSUME NEW w \in Workers, FinishNow(w) PROVE QueueInv'
  BY <1>28, JobInv DEF FinishNow, Children
<1>29. ASSUME NEW w \in Workers, Quit(w) PROVE QueueInv'
  BY <1>29, JobInv DEF Quit, InWorkerOf, Alive, InWorker
<1>30. ASSUME NEW w \in Workers, Crash(w) PROVE QueueInv'
  BY <1>30, JobInv DEF Crash, InWorkerOf, Alive, InWorker, Unread
<1>31. CASE Stop
  BY <1>31, QuietInv DEF Stop, Counting
<1>32. CASE Terminated
  BY <1>32, QuietInv DEF Terminated, vars, Counting
<1>33. CASE UNCHANGED vars
  BY <1>33, QuietInv DEF vars, Counting
<1> QED
  BY <1>1, <1>2, <1>3, <1>4, <1>5, <1>6, <1>7, <1>8, <1>9, <1>10, <1>11,
     <1>12, <1>13, <1>14, <1>15, <1>16, <1>17, <1>18, <1>19, <1>20, <1>21,
     <1>22, <1>23, <1>24, <1>26, <1>27, <1>28, <1>29, <1>30, <1>31,
     <1>32, <1>33
  DEF Next, Cooker, WorkerStep

(* The queue's sets and counter always agree with what the workers hold.   *)
THEOREM InvCorrect == Spec => []QueueInv
BY InitType, NextType, InitInv, NextInv, PTL DEF Spec

(* No task reaches a worker before each of its dependencies was skipped or *)
(* its exit code 0 was read, in every dependency graph.                    *)
THEOREM DepsSettledCorrect == Spec => []DepsSettled
<1>1. TypeOK /\ QueueInv => DepsSettled
  BY DEF TypeOK, QueueInv, QueueOrder, Verdicts, DepsSettled
<1> QED BY <1>1, TypeCorrect, InvCorrect, PTL

(* No two tasks with one stamp file are ever in the workers together.      *)
THEOREM StampExclusiveCorrect == Spec => []StampExclusive
<1>1. QueueInv => StampExclusive
  BY DEF QueueInv, StampsHeld, StampExclusive, Alive, InWorker
<1> QED BY <1>1, InvCorrect, PTL

(* At most NumberTasks task processes exist, for every NumberTasks.        *)
THEOREM SlotsBoundCorrect == Spec => []SlotsBound
<1>1. TypeOK /\ QueueInv => SlotsBound
  <2> SUFFICES ASSUME TypeOK, QueueInv PROVE SlotsBound
    OBVIOUS
  <2>1. Alive \subseteq build_stamps
    BY DEF QueueInv, StampsHeld, Alive, InWorker
  <2>2. /\ Cardinality(Alive) <= Cardinality(build_stamps)
        /\ Cardinality(Alive) \in Nat
    BY <2>1, HeldFinite, FS_Subset, FS_CardinalityType
  <2>3. Cardinality(build_stamps) <= NumberTasks
    BY DEF QueueInv, SlotsCounted
  <2> QED
    BY <2>2, <2>3, HeldFinite, NumberTasksType DEF SlotsBound
<1> QED BY <1>1, TypeCorrect, InvCorrect, PTL

-----------------------------------------------------------------------------
(* RunQueue implements BuildSchedule.                                      *)

LEMMA StatusIs ==
  ASSUME TypeOK, QueueInv
  PROVE  /\ Schedule!InStatus("done") = runq_complete
         /\ Schedule!InStatus("running") \subseteq build_stamps
         /\ status \in [Tasks -> {"waiting", "running", "done", "failed", "lost"}]
BY DEF Schedule!InStatus, status, TypeOK

(* Steps that settle no task and lose none.                                *)
LEMMA StatusSame ==
  ASSUME UNCHANGED <<runq_complete, failed_tids, build_stamps, depends>>,
         \A t \in Tasks : (job'[t] = "lost") <=> (job[t] = "lost")
  PROVE  UNCHANGED Schedule!vars
BY DEF Schedule!vars, status

(* A step that changes the status of t alone, to s.                        *)
LEMMA StatusMoves ==
  ASSUME NEW t \in Tasks, NEW s, status[t] # s, status'[t] = s,
         \A u \in Tasks \ {t} : status'[u] = status[u], UNCHANGED depends
  PROVE  Schedule!Move(t, status[t], s)
BY DEF Schedule!Move, status

LEMMA SkipImplements ==
  ASSUME TypeOK, QueueInv, NEW t \in Tasks, CanStart(t),
         runq_complete' = runq_complete \cup {t},
         UNCHANGED <<failed_tids, build_stamps, job, depends>>
  PROVE  Schedule!Skip(t)
<1>1. status[t] = "waiting" /\ status'[t] = "done"
      /\ \A u \in Tasks \ {t} : status'[u] = status[u]
  BY CandidateFacts DEF status
<1>2. Schedule!Move(t, "waiting", "done")
  BY <1>1, StatusMoves
<1>3. Schedule!DepsDone(t)
  BY StatusIs, CandidateFacts DEF Schedule!DepsDone
<1> QED BY <1>2, <1>3 DEF Schedule!Skip

LEMMA LoseImplements ==
  ASSUME TypeOK, QueueInv, NEW gone \in SUBSET Tasks,
         \A t \in gone : job[t] \notin {"none", "read"} /\ job'[t] = "lost",
         \A t \in Tasks \ gone : (job'[t] = "lost") <=> (job[t] = "lost"),
         UNCHANGED <<queue, given>>
  PROVE  [Schedule!Next]_(Schedule!vars)
<1> DEFINE newly == {t \in gone : job[t] # "lost"}
<1>1. newly \in SUBSET Schedule!InStatus("running")
  BY DEF QueueInv, StampsHeld, Verdicts, Schedule!InStatus, status
<1>2. status' = [t \in Tasks |-> IF t \in newly THEN "lost" ELSE status[t]]
  BY DEF QueueInv, Verdicts, status, queue
<1> HIDE DEF newly
<1> QED BY <1>1, <1>2 DEF Schedule!Next, Schedule!Abandon, given

LEMMA NextImplements ==
  TypeOK /\ QueueInv /\ [Next]_vars => [Schedule!Next]_(Schedule!vars)
<1> SUFFICES ASSUME TypeOK, QueueInv, [Next]_vars
             PROVE  [Schedule!Next]_(Schedule!vars)
  OBVIOUS
<1> USE DEF cooker, queue, disk, procs, given
<1>1. CASE \/ IdleRun \/ IdleShutdown \/ IdleForceShutdown \/ DiskLow
           \/ DiskFine \/ Execute \/ ReadNext \/ NothingToStart
  BY <1>1, StatusSame DEF IdleRun, IdleShutdown, IdleForceShutdown, DiskLow,
       DiskFine, Execute, ReadNext, NothingToStart
<1>2. CASE \/ Loop \/ CleanUp \/ Ended \/ Wait \/ Teardown \/ TeardownNext
           \/ VerdictComplete \/ VerdictFailed
           \/ VerdictCleanUp \/ Stop \/ Terminated \/ UNCHANGED vars
  BY <1>2, StatusSame DEF Loop, CleanUp, Ended, Wait, Teardown, TeardownNext,
       VerdictComplete, VerdictFailed, VerdictCleanUp,
       Stop, Terminated, vars
<1>3. ASSUME NEW t \in Tasks, ReadComplete(t)
      PROVE  [Schedule!Next]_(Schedule!vars)
  <2>1. t \in build_stamps /\ t \notin failed_tids /\ t \notin runq_complete
    BY <1>3 DEF ReadComplete, QueueInv, StampsHeld, Verdicts
  <2>2. status[t] = "running" /\ status'[t] = "done"
        /\ \A u \in Tasks \ {t} : status'[u] = status[u]
    BY <1>3, <2>1 DEF ReadComplete, task_completeoutright, status, TypeOK
  <2>3. Schedule!Finish(t)
    BY <1>3, <2>2, StatusMoves DEF ReadComplete, Schedule!Finish
  <2> QED BY <2>3 DEF Schedule!Next
<1>4. ASSUME NEW t \in Tasks, ReadFail(t)
      PROVE  [Schedule!Next]_(Schedule!vars)
  <2>1. t \in build_stamps /\ t \notin failed_tids /\ t \notin runq_complete
    BY <1>4 DEF ReadFail, QueueInv, StampsHeld, Verdicts
  <2>2. status[t] = "running" /\ status'[t] = "failed"
        /\ \A u \in Tasks \ {t} : status'[u] = status[u]
    BY <1>4, <2>1 DEF ReadFail, status, TypeOK
  <2>3. Schedule!Fail(t)
    BY <1>4, <2>2, StatusMoves DEF ReadFail, Schedule!Fail
  <2> QED BY <2>3 DEF Schedule!Next
<1>5. ASSUME NEW t \in Tasks, SkipCovered(t) \/ SkipExisting(t) \/ RunNoExec(t)
      PROVE  [Schedule!Next]_(Schedule!vars)
  <2>1. Schedule!Skip(t)
    BY <1>5, SkipImplements DEF SkipCovered, SkipExisting, RunNoExec,
         task_skip, task_completeoutright
  <2> QED BY <2>1 DEF Schedule!Next
<1>6. ASSUME NEW t \in Tasks, SpawnFails(t) \/ LaunchBroken(t)
      PROVE  [Schedule!Next]_(Schedule!vars)
  BY <1>6, StatusSame DEF SpawnFails, LaunchBroken
<1>7. ASSUME NEW t \in Tasks, Launch(t)
      PROVE  [Schedule!Next]_(Schedule!vars)
  <2>1. CanStart(t)
    BY <1>7 DEF Launch, NeedsChild
  <2>2. status[t] = "waiting" /\ status'[t] = "running"
        /\ \A u \in Tasks \ {t} : status'[u] = status[u]
    BY <1>7, <2>1, CandidateFacts DEF Launch, status, TypeOK
  <2>3. Schedule!Move(t, "waiting", "running")
    BY <1>7, <2>2, StatusMoves DEF Launch
  <2>4. Schedule!DepsDone(t)
    BY <2>1, StatusIs, CandidateFacts DEF Schedule!DepsDone
  <2>5. Cardinality(Schedule!InStatus("running")) < NumberTasks
    <3>1. /\ Cardinality(Schedule!InStatus("running")) <= Cardinality(build_stamps)
          /\ Cardinality(Schedule!InStatus("running")) \in Nat
      BY StatusIs, HeldFinite, FS_Subset, FS_CardinalityType
    <3>2. Cardinality(build_stamps) < NumberTasks
      BY <2>1, CandidateFacts
    <3> QED BY <3>1, <3>2, HeldFinite, NumberTasksType
  <2>6. \A u \in Schedule!InStatus("running") : StampOf[u] # StampOf[t]
    BY <2>1, StatusIs, CandidateFacts
  <2>7. Schedule!Cardinality(Schedule!InStatus("running")) < NumberTasks
    BY <2>5 DEF Cardinality, Schedule!Cardinality
  <2> QED BY <2>3, <2>4, <2>6, <2>7 DEF Schedule!Begin, Schedule!Next
<1>8. ASSUME NEW t \in Tasks, Child(t)
      PROVE  [Schedule!Next]_(Schedule!vars)
  BY <1>8, StatusSame DEF Child, Fork, ChildStamp, ChildExit, ChildFail, TypeOK
<1>9. ASSUME NEW w \in Workers, FinishNow(w)
      PROVE  [Schedule!Next]_(Schedule!vars)
  <2>1. PICK swallowed \in SUBSET Children(w) :
        \E killed \in SUBSET (Children(w) \ swallowed) :
          job' = [t \in Tasks |-> IF t \in swallowed THEN "lost"
                                  ELSE IF t \in killed THEN "fail" ELSE job[t]]
    BY <1>9 DEF FinishNow
  <2> QED BY <1>9, <2>1, LoseImplements DEF FinishNow, Children
<1>10. ASSUME NEW w \in Workers, Quit(w)
       PROVE  [Schedule!Next]_(Schedule!vars)
  <2>1. InWorkerOf(w) \in SUBSET Tasks
    BY DEF InWorkerOf, Alive
  <2> QED BY <1>10, <2>1, LoseImplements DEF Quit, InWorkerOf, Alive, InWorker
<1>11. ASSUME NEW w \in Workers, Crash(w)
       PROVE  [Schedule!Next]_(Schedule!vars)
  <2>1. PICK unflushed \in SUBSET Unread(w) :
          job' = [t \in Tasks |-> IF t \in InWorkerOf(w) \cup unflushed
                                  THEN "lost" ELSE job[t]]
    BY <1>11 DEF Crash
  <2>2. InWorkerOf(w) \cup unflushed \in SUBSET Tasks
    BY DEF InWorkerOf, Alive, Unread
  <2>3. \A t \in InWorkerOf(w) \cup unflushed : job[t] \notin {"none", "read"}
    BY DEF InWorkerOf, Alive, InWorker, Unread
  <2> QED BY <1>11, <2>1, <2>2, <2>3, LoseImplements DEF Crash
<1> QED
  BY <1>1, <1>2, <1>3, <1>4, <1>5, <1>6, <1>7, <1>8, <1>9, <1>10, <1>11
  DEF Next, Cooker, WorkerStep

(* The run queue, its workers and children together do nothing that        *)
(* BuildSchedule forbids.                                                  *)
THEOREM ScheduleImplemented == Spec => ImplementsSchedule
<1>1. Init => Schedule!Init
  BY DEF Init, Schedule!Init, status
<1> QED
  BY <1>1, NextImplements, TypeCorrect, InvCorrect, PTL
     DEF Spec, ImplementsSchedule, Schedule!Spec
=============================================================================
