----------------------- MODULE RunQueueVerdictProofs -----------------------
(* What a build is told to be when it is over, and what it may rely on     *)
(* until then: theorems about RunQueue that build on its QueueInv.         *)
EXTENDS RunQueueProofs

-----------------------------------------------------------------------------
(* Effects of the pieces the handlers share.                               *)

Ending == {"CleanUp", "Failed", "Complete"}

LEMMA PollEffect ==
  ASSUME NEW s, Poll(s)
  PROVE  state' \in {s, "Failed", "Complete"}
BY FinalStateType DEF Poll, finish_now

LEMMA FinishEffect ==
  ASSUME NEW c, finish(c)
  PROVE  state' \in Ending /\ (pc' = c \/ (pc' = "read" /\ cont' = c))
<1>1. CASE read_workers("CleanUp", c)
  BY <1>1, PollEffect DEF read_workers, Ending
<1>2. CASE ~read_workers("CleanUp", c)
  <2>1. state' = IF stats.active > 0 THEN "CleanUp" ELSE FinalState
    BY <1>2 DEF finish
  <2>2. Goto(c)
    BY <1>2 DEF finish
  <2> QED BY <2>1, <2>2, FinalStateType DEF Ending, Goto
<1> QED BY <1>1, <1>2

-----------------------------------------------------------------------------
(* Late launches.                                                          *)

(* execute() is under way: it will start a task without looking again.     *)
Picking == pc = "launch" \/ (pc = "read" /\ cont = "launch")

(* After a late launch the build no longer runs, and execute() is over.    *)
LateInv == late = 0 \/ (late = 1 /\ state # "Running" /\ ~Picking)

LEMMA LateStep == TypeOK /\ LateInv /\ [Next]_vars => LateInv'
<1> SUFFICES ASSUME TypeOK, LateInv, [Next]_vars PROVE LateInv'
  OBVIOUS
<1> USE DEF LateInv, Picking, cooker, queue, disk, procs, given
<1>1. CASE IdleRun \/ DiskFine \/ Loop \/ Ended \/ Wait \/ Teardown
           \/ VerdictComplete \/ VerdictFailed \/ VerdictCleanUp
  BY <1>1 DEF IdleRun, DiskFine, Loop, Ended, Wait, Teardown,
              VerdictComplete, VerdictFailed, VerdictCleanUp, Goto
<1>2. CASE IdleShutdown \/ CleanUp
  BY <1>2, FinishEffect DEF IdleShutdown, CleanUp, Ending
<1>3. CASE IdleForceShutdown
  BY <1>3, FinalStateType DEF IdleForceShutdown, finish_now, Goto
<1>4. CASE DiskLow
  BY <1>4, FinishEffect, FinalStateType DEF DiskLow, finish_now, Goto, Ending
<1>5. CASE Execute
  BY <1>5, PollEffect DEF Execute, MayExecute, read_workers, Goto
<1>6. CASE ReadNext
  BY <1>6, PollEffect DEF ReadNext, Goto
<1>7. CASE NothingToStart
  BY <1>7, PollEffect DEF NothingToStart, read_workers, Goto
<1>8. CASE TeardownNext
  BY <1>8 DEF TeardownNext, Goto
<1>9. ASSUME NEW t \in Tasks, ReadComplete(t) \/ ReadFail(t) PROVE LateInv'
  BY <1>9 DEF ReadComplete, ReadFail, AfterFailure
<1>10. ASSUME NEW t \in Tasks,
              \/ SkipCovered(t) \/ SkipExisting(t) \/ RunNoExec(t)
              \/ SpawnFails(t) \/ LaunchBroken(t)
       PROVE  LateInv'
  BY <1>10 DEF SkipCovered, SkipExisting, RunNoExec, SpawnFails, NeedsChild,
               LaunchBroken, CanStart, Goto
<1>11. ASSUME NEW t \in Tasks, Launch(t) PROVE LateInv'
  <2>1. late = 0 /\ late' = IF state = "Running" THEN late ELSE late + 1
    BY <1>11 DEF Launch, NeedsChild, CanStart
  <2>2. state # "Running" => state' # "Running"
    BY <1>11, PollEffect DEF Launch, read_workers
  <2>3. pc' = "after" \/ (pc' = "read" /\ cont' = "after")
    BY <1>11 DEF Launch, read_workers, Goto
  <2> QED BY <2>1, <2>2, <2>3
<1>12. ASSUME NEW t \in Tasks, Child(t) PROVE LateInv'
  BY <1>12 DEF Child, Fork, ChildStamp, ChildExit, ChildFail
<1>13. ASSUME NEW w \in Workers, FinishNow(w) \/ Quit(w) \/ Crash(w) PROVE LateInv'
  BY <1>13 DEF FinishNow, Quit, Crash
<1>14. CASE Stop \/ Terminated \/ UNCHANGED vars
  BY <1>14 DEF Stop, Terminated, vars
<1> QED
  BY <1>1, <1>2, <1>3, <1>4, <1>5, <1>6, <1>7, <1>8, <1>9, <1>10, <1>11,
     <1>12, <1>13, <1>14
  DEF Next, Cooker, WorkerStep

(* Whatever the reads before it change, at most one task is launched once  *)
(* the build has been told to stop.                                        *)
THEOREM LateLaunchCorrect == Spec => []LateLaunch
<1>1. Init => LateInv
  BY DEF Init, LateInv
<1>2. LateInv => LateLaunch
  BY DEF LateInv, LateLaunch
<1> QED BY <1>1, <1>2, LateStep, TypeCorrect, PTL DEF Spec

-----------------------------------------------------------------------------
(* Completed tasks.                                                        *)

LEMMA CompleteStep == TypeOK /\ QueueInv /\ [Next]_vars => CompleteKept
<1> SUFFICES ASSUME TypeOK, QueueInv, [Next]_vars PROVE CompleteKept
  OBVIOUS
<1> USE DEF CompleteKept, cooker, queue, disk, procs, given
<1>0. \A t \in runq_complete : t \in Tasks /\ job[t] \in {"none", "read"}
  BY DEF TypeOK, QueueInv, Verdicts
<1>1. CASE \/ IdleRun \/ IdleShutdown \/ IdleForceShutdown \/ DiskLow
           \/ DiskFine \/ Execute \/ ReadNext \/ NothingToStart
  BY <1>1 DEF IdleRun, IdleShutdown, IdleForceShutdown, DiskLow, DiskFine,
              Execute, ReadNext, NothingToStart
<1>2. CASE \/ Loop \/ CleanUp \/ Ended \/ Wait \/ Teardown \/ TeardownNext
           \/ VerdictComplete \/ VerdictFailed \/ VerdictCleanUp
           \/ Stop \/ Terminated \/ UNCHANGED vars
  BY <1>2 DEF Loop, CleanUp, Ended, Wait, Teardown, TeardownNext,
              VerdictComplete, VerdictFailed, VerdictCleanUp,
              Stop, Terminated, vars
<1>3. ASSUME NEW t \in Tasks, ReadComplete(t) \/ ReadFail(t)
      PROVE  CompleteKept
  BY <1>3, <1>0 DEF ReadComplete, ReadFail, task_completeoutright, TypeOK
<1>4. ASSUME NEW t \in Tasks, \/ SkipCovered(t) \/ SkipExisting(t)
                              \/ SpawnFails(t) \/ LaunchBroken(t)
      PROVE  CompleteKept
  BY <1>4 DEF SkipCovered, SkipExisting, SpawnFails, LaunchBroken,
              task_skip, task_completeoutright
<1>5. ASSUME NEW t \in Tasks, RunNoExec(t) PROVE CompleteKept
  <2>1. t \notin runq_complete
    BY <1>5, CandidateFacts DEF RunNoExec
  <2> QED BY <1>5, <1>0, <2>1 DEF RunNoExec, make_stamp, TypeOK,
                                  task_completeoutright
<1>6. ASSUME NEW t \in Tasks, Launch(t) PROVE CompleteKept
  <2>1. t \notin runq_complete
    BY <1>6, CandidateFacts DEF Launch, NeedsChild
  <2> QED BY <1>6, <1>0, <2>1 DEF Launch, TypeOK
<1>7. ASSUME NEW t \in Tasks, Child(t) PROVE CompleteKept
  <2>1. t \notin runq_complete
    BY <1>7, <1>0 DEF Child, Fork, ChildStamp, ChildExit, ChildFail
  <2> QED BY <1>7, <1>0, <2>1 DEF Child, Fork, ChildStamp, ChildExit,
                                  ChildFail, make_stamp, TypeOK
<1>8. ASSUME NEW w \in Workers, FinishNow(w) PROVE CompleteKept
  BY <1>8, <1>0 DEF FinishNow, Children
<1>9. ASSUME NEW w \in Workers, Quit(w) PROVE CompleteKept
  BY <1>9, <1>0 DEF Quit, InWorkerOf, Alive, InWorker
<1>10. ASSUME NEW w \in Workers, Crash(w) PROVE CompleteKept
  BY <1>10, <1>0 DEF Crash, InWorkerOf, Alive, InWorker, Unread
<1> QED
  BY <1>1, <1>2, <1>3, <1>4, <1>5, <1>6, <1>7, <1>8, <1>9, <1>10
  DEF Next, Cooker, WorkerStep

(* What a completed task left behind is final, whatever is read, started,  *)
(* killed or asked for afterwards.                                         *)
THEOREM CompleteIsFinalCorrect == Spec => CompleteIsFinal
<1>1. TypeOK /\ QueueInv /\ [Next]_vars => [CompleteKept]_vars
  BY CompleteStep
<1> QED BY <1>1, TypeCorrect, InvCorrect, PTL DEF Spec, CompleteIsFinal

-----------------------------------------------------------------------------
(* Stamps.                                                                 *)

(* A _setscene stamp is older than this build and of a covered task.       *)
SceneOld == \A t \in Tasks : scene[t] # 0 => scene[t] # New /\ t \in covered

(* What is as new as this build was started by it.                         *)
NewRan == \A t \in Tasks : stamp[t] = New => t \in runq_running

CoveredIdle == \A t \in Tasks : job[t] # "none" => t \notin covered

(* A nostamp task has no stamp, unless it is noexec too.                   *)
NoStampAge == \A t \in NoStamp : stamp[t] \in {0, New}

(* A task whose child succeeded has a stamp of this build.                 *)
RanStamped ==
  \A t \in Tasks \ NoStamp :
     (job[t] \in {"stamped", "ok"} \/ (job[t] = "read" /\ t \in runq_complete))
       => stamp[t] = New

StampAges == /\ SceneOld /\ NewRan /\ CoveredIdle /\ NoStampAge /\ RanStamped
             /\ existing \subseteq runq_complete

LEMMA InitAges == Init => StampAges
<1> SUFFICES ASSUME Init PROVE StampAges
  OBVIOUS
<1>1. stamp \in [Tasks -> 0 .. 2] /\ scene \in [Tasks -> {0, 2}]
  BY StampInitsType DEF Init
<1>2. \A t \in NoStamp : stamp[t] = 0
  BY NoStampFresh DEF Init
<1> QED
  BY <1>1, <1>2, FlagsType DEF Init, StampAges, SceneOld, NewRan, CoveredIdle,
     NoStampAge, RanStamped, New

LEMMA QuietAges ==
  ASSUME StampAges, UNCHANGED <<runq_running, runq_complete, existing, disk,
                                job, covered>>
  PROVE  StampAges'
BY DEF StampAges, SceneOld, NewRan, CoveredIdle, NoStampAge, RanStamped, disk

(* Jobs that end badly, or are lost.                                       *)
LEMMA LostAges ==
  ASSUME StampAges, TypeOK, QueueInv,
         UNCHANGED <<queue, disk, given>>,
         \A t \in Tasks : \/ job'[t] = job[t]
                          \/ job[t] # "none" /\ job'[t] \in {"fail", "lost"}
  PROVE  StampAges'
BY DEF StampAges, SceneOld, NewRan, CoveredIdle, NoStampAge, RanStamped,
       queue, disk, given

LEMMA SkipAges ==
  ASSUME StampAges, TypeOK, QueueInv, NEW t \in Tasks, CanStart(t), task_skip(t),
         existing' \subseteq existing \cup {t}, UNCHANGED <<disk, job, covered>>
  PROVE  StampAges'
BY CandidateFacts DEF StampAges, SceneOld, NewRan, CoveredIdle, NoStampAge,
   RanStamped, disk, task_skip, task_completeoutright

LEMMA StampStep == TypeOK /\ QueueInv /\ StampAges /\ [Next]_vars => StampAges'
<1> SUFFICES ASSUME TypeOK, QueueInv, StampAges, [Next]_vars PROVE StampAges'
  OBVIOUS
<1> USE DEF cooker, queue, disk, procs, given
<1>1. CASE \/ IdleRun \/ IdleShutdown \/ IdleForceShutdown \/ DiskLow
           \/ DiskFine \/ Execute \/ ReadNext \/ NothingToStart
  BY <1>1, QuietAges DEF IdleRun, IdleShutdown, IdleForceShutdown, DiskLow,
              DiskFine, Execute, ReadNext, NothingToStart
<1>2. CASE \/ Loop \/ CleanUp \/ Ended \/ Wait \/ Teardown \/ TeardownNext
           \/ VerdictComplete \/ VerdictFailed \/ VerdictCleanUp
           \/ Stop \/ Terminated \/ UNCHANGED vars
  BY <1>2, QuietAges DEF Loop, CleanUp, Ended, Wait, Teardown, TeardownNext,
              VerdictComplete, VerdictFailed, VerdictCleanUp,
              Stop, Terminated, vars
<1>3. ASSUME NEW t \in Tasks, ReadComplete(t) \/ ReadFail(t) PROVE StampAges'
  BY <1>3 DEF StampAges, SceneOld, NewRan, CoveredIdle, NoStampAge, RanStamped,
              ReadComplete, ReadFail, task_completeoutright, TypeOK,
              QueueInv, StampsHeld, Verdicts
<1>4. ASSUME NEW t \in Tasks, SkipCovered(t) \/ SkipExisting(t) PROVE StampAges'
  BY <1>4, SkipAges DEF SkipCovered, SkipExisting
<1>5. ASSUME NEW t \in Tasks, SpawnFails(t) \/ LaunchBroken(t) PROVE StampAges'
  BY <1>5, QuietAges DEF SpawnFails, LaunchBroken
<1>6. ASSUME NEW t \in Tasks, RunNoExec(t) PROVE StampAges'
  BY <1>6, CandidateFacts, FlagsType
     DEF StampAges, SceneOld, NewRan, CoveredIdle, NoStampAge, RanStamped,
         RunNoExec, make_stamp, task_completeoutright, TypeOK, New
<1>7. ASSUME NEW t \in Tasks, Launch(t) PROVE StampAges'
  BY <1>7 DEF StampAges, SceneOld, NewRan, CoveredIdle, NoStampAge, RanStamped,
              Launch, NeedsChild, MustRun, TypeOK
<1>8. ASSUME NEW t \in Tasks, Child(t) PROVE StampAges'
  <2>1. CASE Fork(t) \/ ChildExit(t)
    BY <1>8, <2>1 DEF Fork, ChildExit, StampAges, SceneOld, NewRan,
       CoveredIdle, NoStampAge, RanStamped, TypeOK
  <2>2. CASE ChildFail(t)
    BY <2>2, LostAges DEF ChildFail, TypeOK
  <2>3. CASE ChildStamp(t)
    <3>1. t \in runq_running
      BY <2>3 DEF ChildStamp, QueueInv, QueueOrder
    <3> QED BY <2>3, <3>1, FlagsType DEF ChildStamp, make_stamp, StampAges,
               SceneOld, NewRan, CoveredIdle, NoStampAge, RanStamped, TypeOK, New
  <2> QED BY <1>8, <2>1, <2>2, <2>3 DEF Child
<1>9. ASSUME NEW w \in Workers, FinishNow(w) PROVE StampAges'
  BY <1>9, LostAges DEF FinishNow, Children
<1>10. ASSUME NEW w \in Workers, Quit(w) PROVE StampAges'
  BY <1>10, LostAges DEF Quit, InWorkerOf, Alive, InWorker
<1>11. ASSUME NEW w \in Workers, Crash(w) PROVE StampAges'
  BY <1>11, LostAges DEF Crash, InWorkerOf, Alive, InWorker, Unread
<1> QED
  BY <1>1, <1>2, <1>3, <1>4, <1>5, <1>6, <1>7, <1>8, <1>9, <1>10, <1>11
  DEF Next, Cooker, WorkerStep

(* A task that has a current stamp, and may start, is no older than any    *)
(* complete dependency of its recipe.                                      *)
LEMMA CurrentSound ==
  ASSUME TypeOK, QueueInv, StampAges, NEW t \in Tasks, CanStart(t),
         check_stamp_task(t), NEW d \in depends[t], FnOf[d] = FnOf[t]
  PROVE  stamp[d] # New /\ job[d] = "none"
<1>1. d \in Tasks /\ d \in runq_complete /\ t \notin runq_running
  BY CandidateFacts DEF TypeOK
<1>2. /\ stamp[t] \in 0 .. New /\ stamp[d] \in 0 .. New /\ scene[d] \in 0 .. New
      /\ stamp[t] # New
  BY <1>1 DEF TypeOK, StampAges, NewRan
<1>3. job[d] = "none" \/ (job[d] = "read" /\ d \notin covered)
  BY <1>1 DEF QueueInv, Verdicts, StampAges, CoveredIdle
<1>4. DepCurrent(t, d)
  BY DEF check_stamp_task
<1>5. CASE scene[d] > stamp[d]
  <2>1. scene[d] # New /\ d \in covered
    BY <1>1, <1>2, <1>5 DEF StampAges, SceneOld, New
  <2> QED BY <1>2, <1>3, <1>5, <2>1 DEF New
<1>6. CASE stamp[d] # 0 /\ stamp[t] >= stamp[d]
  <2>1. stamp[d] # New
    BY <1>2, <1>6 DEF New
  <2>2. job[d] # "read"
    BY <1>1, <1>6, <2>1 DEF StampAges, RanStamped, NoStampAge
  <2> QED BY <1>3, <2>1, <2>2
<1> QED BY <1>4, <1>5, <1>6 DEF DepCurrent

LEMMA SkipSoundStep ==
  TypeOK /\ QueueInv /\ StampAges /\ StampSkipSound /\ [Next]_vars
    => StampSkipSound'
<1> SUFFICES ASSUME TypeOK, QueueInv, StampAges, StampSkipSound, [Next]_vars
             PROVE  StampSkipSound'
  OBVIOUS
<1>1. CompleteKept
  BY CompleteStep
<1>2. \A t \in existing : t \in Tasks /\ depends[t] \subseteq runq_complete
  BY DEF StampAges, TypeOK, QueueInv, QueueOrder
<1>3. depends' = depends
  BY DEF Next, Cooker, WorkerStep, IdleRun, IdleShutdown, IdleForceShutdown,
     DiskLow, DiskFine, Execute, ReadNext, NothingToStart, ReadComplete,
     ReadFail, SkipCovered, SkipExisting, RunNoExec, SpawnFails, Launch,
     LaunchBroken, Loop, CleanUp, Ended, Wait, Teardown, TeardownNext,
     VerdictComplete, VerdictFailed, VerdictCleanUp, Child, Fork, ChildStamp,
     ChildExit, ChildFail, FinishNow, Quit, Crash, Stop, Terminated, given, vars
<1>4. CASE existing' = existing
  BY <1>1, <1>2, <1>3, <1>4 DEF StampSkipSound, CompleteKept
<1>5. ASSUME NEW t \in Tasks, SkipExisting(t) PROVE StampSkipSound'
  <2>1. existing' = existing \cup {t} /\ UNCHANGED <<stamp, job>>
    BY <1>5 DEF SkipExisting, disk, procs
  <2>2. \A d \in depends[t] : FnOf[d] = FnOf[t] => stamp[d] # New /\ job[d] = "none"
    BY <1>5, CurrentSound DEF SkipExisting
  <2> QED BY <1>3, <2>1, <2>2 DEF StampSkipSound
<1>6. existing' = existing \/ \E t \in Tasks : SkipExisting(t)
  BY DEF Next, Cooker, WorkerStep, IdleRun, IdleShutdown, IdleForceShutdown,
     DiskLow, DiskFine, Execute, ReadNext, NothingToStart, ReadComplete,
     ReadFail, SkipCovered, RunNoExec, SpawnFails, Launch,
     LaunchBroken, Loop, CleanUp, Ended, Wait, Teardown, TeardownNext,
     VerdictComplete, VerdictFailed, VerdictCleanUp, Child, Fork, ChildStamp,
     ChildExit, ChildFail, FinishNow, Quit, Crash, Stop, Terminated, queue, vars
<1> QED BY <1>4, <1>5, <1>6

(* A task found current and skipped is never older than a dependency of    *)
(* its recipe that the build executes, before or after: check_stamp_task   *)
(* compares stamps that no longer change.                                  *)
THEOREM StampSkipSoundCorrect == Spec => []StampSkipSound
<1>1. Init => StampSkipSound
  BY DEF Init, StampSkipSound
<1> QED
  BY <1>1, InitAges, StampStep, SkipSoundStep, TypeCorrect, InvCorrect, PTL
     DEF Spec

-----------------------------------------------------------------------------
(* What is left of the workers.                                            *)

(* A task process lives in a worker that is up.                            *)
Manned == \A t \in Alive : worker[WorkerOf(t)] = "up"

(* The teardown ends with no worker left: first the worker, then the       *)
(* fakeroot worker.  No other read goes on to the verdict.                 *)
TornDown ==
  /\ pc = "read" => cont \in {"dispatch", "execute", "launch", "after", "ended"}
  /\ pc \in {"verdict", "done", "crashed"} => NoWorkers
  /\ pc = "teardown" /\ reading = "fakeworker" => worker["worker"] = "none"

LEMMA MannedSame ==
  ASSUME TypeOK, Manned, UNCHANGED worker,
         \A t \in Tasks : job'[t] \in InWorker => job[t] \in InWorker
  PROVE  Manned'
BY DEF Manned, Alive, WorkerOf

LEMMA MannedStep == TypeOK /\ QueueInv /\ Manned /\ [Next]_vars => Manned'
<1> SUFFICES ASSUME TypeOK, QueueInv, Manned, [Next]_vars PROVE Manned'
  OBVIOUS
<1> USE DEF cooker, queue, disk, procs, given
<1>1. CASE \/ IdleRun \/ IdleShutdown \/ IdleForceShutdown \/ DiskLow
           \/ DiskFine \/ Execute \/ ReadNext \/ NothingToStart
  BY <1>1, MannedSame DEF IdleRun, IdleShutdown, IdleForceShutdown, DiskLow,
              DiskFine, Execute, ReadNext, NothingToStart
<1>2. CASE \/ Loop \/ CleanUp \/ Ended \/ Wait \/ Teardown
           \/ VerdictComplete \/ VerdictFailed \/ VerdictCleanUp
           \/ Stop \/ Terminated \/ UNCHANGED vars
  BY <1>2, MannedSame DEF Loop, CleanUp, Ended, Wait, Teardown,
              VerdictComplete, VerdictFailed, VerdictCleanUp,
              Stop, Terminated, vars
<1>3. CASE TeardownNext
  <2>1. \A t \in Alive : WorkerOf(t) # reading
    BY <1>3 DEF TeardownNext, Manned
  <2> QED BY <1>3, <2>1 DEF TeardownNext, Manned, Alive, WorkerOf, TypeOK
<1>4. ASSUME NEW t \in Tasks, \/ ReadComplete(t) \/ ReadFail(t)
                              \/ SkipCovered(t) \/ SkipExisting(t)
                              \/ RunNoExec(t) \/ SpawnFails(t) \/ LaunchBroken(t)
      PROVE  Manned'
  BY <1>4, MannedSame
     DEF ReadComplete, ReadFail, SkipCovered, SkipExisting, RunNoExec,
         SpawnFails, LaunchBroken, InWorker, TypeOK
<1>5. ASSUME NEW t \in Tasks, Launch(t) PROVE Manned'
  BY <1>5 DEF Launch, Manned, Alive, WorkerOf, Workers, TypeOK
<1>6. ASSUME NEW t \in Tasks, Child(t) PROVE Manned'
  BY <1>6, MannedSame DEF Child, Fork, ChildStamp, ChildExit, ChildFail,
                          InWorker, TypeOK
<1>7. ASSUME NEW w \in Workers, FinishNow(w) PROVE Manned'
  BY <1>7, MannedSame DEF FinishNow, InWorker
<1>8. ASSUME NEW w \in Workers, Quit(w) PROVE Manned'
  BY <1>8 DEF Quit, Manned, InWorkerOf, Alive, InWorker, WorkerOf, TypeOK
<1>9. ASSUME NEW w \in Workers, Crash(w) PROVE Manned'
  BY <1>9 DEF Crash, Manned, InWorkerOf, Alive, InWorker, WorkerOf, TypeOK
<1> QED
  BY <1>1, <1>2, <1>3, <1>4, <1>5, <1>6, <1>7, <1>8, <1>9
  DEF Next, Cooker, WorkerStep

LEMMA TornStep == TypeOK /\ TornDown /\ [Next]_vars => TornDown'
<1> SUFFICES ASSUME TypeOK, TornDown, [Next]_vars PROVE TornDown'
  OBVIOUS
<1> USE DEF TornDown, NoWorkers, cooker, queue, disk, procs, given
<1>1. CASE \/ IdleRun \/ DiskFine \/ Execute \/ ReadNext \/ NothingToStart
           \/ IdleForceShutdown
  BY <1>1 DEF IdleRun, DiskFine, Execute, ReadNext, NothingToStart,
              IdleForceShutdown, read_workers, Goto, TypeOK
<1>2. CASE \/ IdleShutdown \/ CleanUp \/ DiskLow
  BY <1>2, FinishEffect DEF IdleShutdown, CleanUp, DiskLow, Goto
<1>3. CASE \/ Loop \/ Ended \/ Wait \/ Teardown
           \/ VerdictComplete \/ VerdictFailed \/ VerdictCleanUp
  BY <1>3 DEF Loop, Ended, Wait, Teardown, VerdictComplete, VerdictFailed,
              VerdictCleanUp, Goto, NoWorkers
<1>4. CASE TeardownNext
  BY <1>4 DEF TeardownNext, MorePipes, Goto, Workers, TypeOK
<1>5. ASSUME NEW t \in Tasks, \/ ReadComplete(t) \/ ReadFail(t)
                              \/ SkipCovered(t) \/ SkipExisting(t)
                              \/ RunNoExec(t) \/ SpawnFails(t) \/ LaunchBroken(t)
      PROVE  TornDown'
  BY <1>5 DEF ReadComplete, ReadFail, SkipCovered, SkipExisting, RunNoExec,
         SpawnFails, LaunchBroken, Goto
<1>6. ASSUME NEW t \in Tasks, Launch(t) PROVE TornDown'
  BY <1>6 DEF Launch, read_workers, Goto
<1>7. ASSUME NEW t \in Tasks, Child(t) PROVE TornDown'
  BY <1>7 DEF Child, Fork, ChildStamp, ChildExit, ChildFail
<1>8. ASSUME NEW w \in Workers, FinishNow(w) \/ Quit(w) \/ Crash(w) PROVE TornDown'
  BY <1>8 DEF FinishNow, Quit, Crash, Workers, TypeOK
<1>9. CASE Stop \/ Terminated \/ UNCHANGED vars
  BY <1>9 DEF Stop, Terminated, vars
<1> QED
  BY <1>1, <1>2, <1>3, <1>4, <1>5, <1>6, <1>7, <1>8, <1>9
  DEF Next, Cooker, WorkerStep

(* Whatever ended the build, no task process survives its report.          *)
THEOREM QuiescentCorrect == Spec => []Quiescent
<1>1. Init => Manned /\ TornDown
  BY DEF Init, Manned, TornDown, Alive, InWorker
<1>2. TypeOK /\ Manned /\ TornDown => Quiescent
  BY DEF Manned, TornDown, NoWorkers, Quiescent, WorkerOf, Workers
<1> QED
  BY <1>1, <1>2, MannedStep, TornStep, TypeCorrect, InvCorrect, PTL DEF Spec

-----------------------------------------------------------------------------
(* The end of the queue.                                                   *)

(* What was started is complete, failed or still held by a worker.         *)
Started == runq_running \subseteq runq_complete \cup failed_tids \cup build_stamps

(* No task that could start was forgotten.                                 *)
Ready ==
  \A t \in Tasks : depends[t] \subseteq runq_complete => t \in runq_buildable

LEMMA ReleaseReady ==
  ASSUME TypeOK, QueueInv, Ready, NEW t \in Tasks, NEW also,
         task_completeoutright(t, also), UNCHANGED depends
  PROVE  Ready'
<1> SUFFICES ASSUME NEW r \in Tasks, depends[r] \subseteq runq_complete \cup {t}
             PROVE  r \in runq_buildable \cup Released(t)
  BY DEF Ready, task_completeoutright
<1>1. CASE t \in depends[r]
  BY <1>1 DEF Released, revdeps, QueueInv, QueueOrder
<1>2. CASE t \notin depends[r]
  BY <1>2 DEF Ready
<1> QED BY <1>1, <1>2

LEMMA QuietEnd ==
  ASSUME Started, Ready, UNCHANGED <<depends, runq_buildable, runq_running,
           runq_complete, failed_tids, build_stamps>>
  PROVE  Started' /\ Ready'
BY DEF Started, Ready

LEMMA EndStep ==
  TypeOK /\ QueueInv /\ Started /\ Ready /\ [Next]_vars => Started' /\ Ready'
<1> SUFFICES ASSUME TypeOK, QueueInv, Started, Ready, [Next]_vars
             PROVE  Started' /\ Ready'
  OBVIOUS
<1> USE DEF cooker, queue, disk, procs, given
<1>1. CASE \/ IdleRun \/ IdleShutdown \/ IdleForceShutdown \/ DiskLow
           \/ DiskFine \/ Execute \/ ReadNext \/ NothingToStart
  BY <1>1, QuietEnd DEF IdleRun, IdleShutdown, IdleForceShutdown, DiskLow,
              DiskFine, Execute, ReadNext, NothingToStart
<1>2. CASE \/ Loop \/ CleanUp \/ Ended \/ Wait \/ Teardown \/ TeardownNext
           \/ VerdictComplete \/ VerdictFailed \/ VerdictCleanUp
           \/ Stop \/ Terminated \/ UNCHANGED vars
  BY <1>2, QuietEnd DEF Loop, CleanUp, Ended, Wait, Teardown, TeardownNext,
              VerdictComplete, VerdictFailed, VerdictCleanUp,
              Stop, Terminated, vars
<1>3. ASSUME NEW t \in Tasks, ReadComplete(t) PROVE Started' /\ Ready'
  BY <1>3, ReleaseReady DEF ReadComplete, Started, task_completeoutright
<1>4. ASSUME NEW t \in Tasks, ReadFail(t) PROVE Started' /\ Ready'
  BY <1>4 DEF ReadFail, Started, Ready
<1>5. ASSUME NEW t \in Tasks, SkipCovered(t) \/ SkipExisting(t)
      PROVE  Started' /\ Ready'
  BY <1>5, ReleaseReady DEF SkipCovered, SkipExisting, task_skip, Started,
                            task_completeoutright
<1>6. ASSUME NEW t \in Tasks, RunNoExec(t) PROVE Started' /\ Ready'
  BY <1>6, ReleaseReady DEF RunNoExec, Started, task_completeoutright
<1>7. ASSUME NEW t \in Tasks, SpawnFails(t) \/ LaunchBroken(t)
      PROVE  Started' /\ Ready'
  BY <1>7, QuietEnd DEF SpawnFails, LaunchBroken
<1>8. ASSUME NEW t \in Tasks, Launch(t) PROVE Started' /\ Ready'
  BY <1>8 DEF Launch, Started, Ready
<1>9. ASSUME NEW t \in Tasks, Child(t) PROVE Started' /\ Ready'
  BY <1>9, QuietEnd DEF Child, Fork, ChildStamp, ChildExit, ChildFail
<1>10. ASSUME NEW w \in Workers, FinishNow(w) \/ Quit(w) \/ Crash(w)
       PROVE  Started' /\ Ready'
  BY <1>10, QuietEnd DEF FinishNow, Quit, Crash
<1> QED
  BY <1>1, <1>2, <1>3, <1>4, <1>5, <1>6, <1>7, <1>8, <1>9, <1>10
  DEF Next, Cooker, WorkerStep

LEMMA InitEnd == Init => Started /\ Ready
BY DEF Init, Started, Ready

(* The graph of this build is the one prepare() accepted.                  *)
GraphKept == depends \in Graphs

LEMMA GraphStep == GraphKept /\ [Next]_vars => GraphKept'
<1> SUFFICES ASSUME [Next]_vars PROVE depends' = depends
  BY DEF GraphKept
<1> QED
  BY DEF Next, Cooker, WorkerStep, IdleRun, IdleShutdown, IdleForceShutdown,
     DiskLow, DiskFine, Execute, ReadNext, NothingToStart, ReadComplete,
     ReadFail, SkipCovered, SkipExisting, RunNoExec, SpawnFails, Launch,
     LaunchBroken, Loop, CleanUp, Ended, Wait, Teardown, TeardownNext,
     VerdictComplete, VerdictFailed, VerdictCleanUp, Child, Fork, ChildStamp,
     ChildExit, ChildFail, FinishNow, Quit, Crash, Stop, Terminated, given, vars

(* Nothing is held and everything buildable was started: a task that is    *)
(* not complete failed, or waits for one that is not complete.             *)
LEMMA AllStarted ==
  ASSUME TypeOK, Started, Ready, build_stamps = {},
         runq_buildable \subseteq runq_running, NEW t \in Tasks \ runq_complete
  PROVE  t \in failed_tids \/ ~(depends[t] \subseteq runq_complete)
BY DEF Started, Ready

(* If nothing failed either, all is complete.                              *)
LEMMA AllComplete ==
  ASSUME TypeOK, GraphKept, Started, Ready, build_stamps = {}, failed_tids = {},
         runq_buildable \subseteq runq_running
  PROVE  runq_complete = Tasks
<1> SUFFICES ASSUME Tasks \ runq_complete # {} PROVE FALSE
  BY DEF TypeOK
<1>1. PICK t \in Tasks \ runq_complete : depends[t] \cap (Tasks \ runq_complete) = {}
  BY GraphsAcyclic DEF GraphKept
<1>2. depends[t] \subseteq runq_complete
  BY <1>1 DEF TypeOK
<1> QED BY <1>2, AllStarted

(* With nothing active, what may start is what is buildable.               *)
LEMMA NothingLeft ==
  ASSUME TypeOK, build_stamps = {}, Candidates = {}, stats.active <= 0
  PROVE  runq_buildable \subseteq runq_running
<1>1. ~(stats.active >= NumberTasks)
  BY NumberTasksType DEF TypeOK, Stats
<1> QED BY <1>1 DEF Candidates

LEMMA ActiveHeld ==
  ASSUME TypeOK, stats.active = Cardinality(build_stamps), ~(stats.active > 0)
  PROVE  build_stamps = {} /\ stats.active = 0
<1>1. stats.active = 0
  BY HeldFinite
<1> QED BY <1>1, HeldFinite, FS_EmptySet

(* execute() never reaches its sanity errors, in any graph without a       *)
(* circle.                                                                 *)
THEOREM NeverStuckCorrect == Spec => []NeverStuck
<1>1. TypeOK /\ QueueInv /\ GraphKept /\ Started /\ Ready => NeverStuck
  <2> SUFFICES ASSUME TypeOK, QueueInv, GraphKept, Started, Ready, pc = "launch",
                      Candidates = {}, stats.active = 0, failed_tids = {}
               PROVE  runq_complete = Tasks
    BY DEF NeverStuck
  <2>1. build_stamps = {}
    BY ActiveHeld DEF QueueInv, SlotsCounted, Counting
  <2> QED BY <2>1, NothingLeft, AllComplete
<1>2. Init => GraphKept
  BY DEF Init, GraphKept
<1> QED
  BY <1>1, <1>2, InitEnd, EndStep, GraphStep, TypeCorrect, InvCorrect, PTL
     DEF Spec

-----------------------------------------------------------------------------
(* Builds that nothing cut short.                                          *)

LEMMA StatsFailed ==
  ASSUME NEW s \in Stats
  PROVE  /\ taskFailed(s).failed = s.failed + 1
         /\ taskCompleted(s).failed = s.failed
         /\ taskSkipped(s).failed = s.failed
         /\ taskActive(s).failed = s.failed
         /\ s.failed \in Int
<1> USE DEF Stats, Count
<1>1. taskFailed(s).failed = s.failed + 1
  BY DEF taskFailed
<1>2. taskCompleted(s).failed = s.failed
  BY DEF taskCompleted
<1>3. taskSkipped(s).failed = s.failed
  BY DEF taskSkipped
<1>4. taskActive(s).failed = s.failed
  BY DEF taskActive
<1> QED BY <1>1, <1>2, <1>3, <1>4

LEMMA FailedFinite ==
  ASSUME TypeOK
  PROVE  IsFiniteSet(failed_tids) /\ Cardinality(failed_tids) \in Nat
BY TasksFinite, FS_Subset, FS_CardinalityType DEF TypeOK

(* A failure that is read is counted once in stats and in failed_tids.     *)
LEMMA FailCounted ==
  ASSUME TypeOK, QueueInv, NEW t \in Tasks, ReadFail(t)
  PROVE  /\ stats'.failed = stats.failed + 1
         /\ Cardinality(failed_tids') = Cardinality(failed_tids) + 1
<1>1. t \notin failed_tids
  BY DEF ReadFail, QueueInv, Verdicts
<1>2. stats'.failed = stats.failed + 1
  BY StatsFailed DEF ReadFail, TypeOK
<1> QED BY <1>1, <1>2, FailedFinite, FS_AddElement DEF ReadFail

(* What task_skip and a noexec task do to the counters.                    *)
LEMMA SkipCounted ==
  ASSUME TypeOK, \/ stats' = taskSkipped(taskCompleted(stats))
                 \/ stats' = taskCompleted(taskActive(stats))
  PROVE  stats'.active = stats.active /\ stats'.failed = stats.failed
<1>1. /\ stats \in Stats /\ taskCompleted(stats) \in Stats
      /\ taskActive(stats) \in Stats
  BY StatsType DEF TypeOK
<1> QED BY <1>1, StatsActive, StatsFailed

(* What the user asked for is not taken back; stats counts every task in   *)
(* failed_tids.                                                            *)
Asked == /\ interrupted # 0 => request # "run"
         /\ forced => interrupted # 0
         /\ stats.failed >= Cardinality(failed_tids)

LEMMA InitAsked == Init => Asked
BY FS_EmptySet DEF Init, Asked

(* Steps after which as many failures are counted.                         *)
LEMMA AskedSame ==
  ASSUME Asked, UNCHANGED <<failed_tids, request, interrupted, forced>>,
         stats'.failed = stats.failed
  PROVE  Asked' /\ (SpawnFailed <=> SpawnFailed')
BY DEF Asked, SpawnFailed

LEMMA AskedStep ==
  TypeOK /\ QueueInv /\ Asked /\ [Next]_vars
    => Asked' /\ (SpawnFailed => SpawnFailed')
<1> SUFFICES ASSUME TypeOK, QueueInv, Asked, [Next]_vars
             PROVE  Asked' /\ (SpawnFailed => SpawnFailed')
  OBVIOUS
<1> USE DEF cooker, queue, disk, procs, given
<1>1. CASE IdleRun \/ IdleShutdown \/ IdleForceShutdown \/ Stop
  BY <1>1 DEF IdleRun, IdleShutdown, IdleForceShutdown, Stop, Asked, SpawnFailed
<1>2. CASE \/ DiskLow \/ DiskFine \/ Execute \/ ReadNext \/ NothingToStart
           \/ Loop \/ CleanUp \/ Ended \/ Wait
           \/ VerdictComplete \/ VerdictFailed \/ VerdictCleanUp
           \/ Terminated \/ UNCHANGED vars
  BY <1>2, AskedSame DEF DiskLow, DiskFine, Execute, ReadNext, NothingToStart,
       Loop, CleanUp, Ended, Wait,
       VerdictComplete, VerdictFailed, VerdictCleanUp, Terminated, vars
<1>3. CASE Teardown \/ TeardownNext
  BY <1>3, AskedSame DEF Teardown, TeardownNext
<1>4. ASSUME NEW t \in Tasks, ReadComplete(t)
      PROVE  Asked' /\ (SpawnFailed => SpawnFailed')
  <2>1. stats'.failed = stats.failed
    BY <1>4, StatsFailed DEF ReadComplete, TypeOK
  <2> QED BY <1>4, <2>1, AskedSame DEF ReadComplete
<1>5. ASSUME NEW t \in Tasks, ReadFail(t)
      PROVE  Asked' /\ (SpawnFailed => SpawnFailed')
  <2>1. stats.failed \in Int
    BY StatsFailed DEF TypeOK
  <2>2. UNCHANGED <<request, interrupted, forced>>
    BY <1>5 DEF ReadFail
  <2> QED BY <1>5, <2>1, <2>2, FailCounted, FailedFinite DEF Asked, SpawnFailed
<1>6. ASSUME NEW t \in Tasks, SkipCovered(t) \/ SkipExisting(t) \/ RunNoExec(t)
      PROVE  Asked' /\ (SpawnFailed => SpawnFailed')
  BY <1>6, SkipCounted, AskedSame DEF SkipCovered, SkipExisting, RunNoExec, task_skip
<1>7. ASSUME NEW t \in Tasks, SpawnFails(t)
      PROVE  Asked' /\ (SpawnFailed => SpawnFailed')
  <2>1. stats'.failed = stats.failed + 1 /\ stats.failed \in Int
    BY <1>7, StatsFailed DEF SpawnFails, TypeOK
  <2> QED BY <1>7, <2>1, FailedFinite DEF SpawnFails, Asked, SpawnFailed
<1>8. ASSUME NEW t \in Tasks, Launch(t)
      PROVE  Asked' /\ (SpawnFailed => SpawnFailed')
  <2>1. stats'.failed = stats.failed
    BY <1>8, StatsFailed DEF Launch, TypeOK
  <2> QED BY <1>8, <2>1, AskedSame DEF Launch
<1>9. ASSUME NEW t \in Tasks, LaunchBroken(t)
      PROVE  Asked' /\ (SpawnFailed => SpawnFailed')
  BY <1>9 DEF LaunchBroken, Asked, SpawnFailed
<1>10. ASSUME NEW t \in Tasks, Child(t)
       PROVE  Asked' /\ (SpawnFailed => SpawnFailed')
  BY <1>10, AskedSame DEF Child, Fork, ChildStamp, ChildExit, ChildFail
<1>11. ASSUME NEW w \in Workers, FinishNow(w) \/ Quit(w) \/ Crash(w)
       PROVE  Asked' /\ (SpawnFailed => SpawnFailed')
  BY <1>11, AskedSame DEF FinishNow, Quit, Crash
<1> QED
  BY <1>1, <1>2, <1>3, <1>4, <1>5, <1>6, <1>7, <1>8, <1>9, <1>10, <1>11
  DEF Next, Cooker, WorkerStep

Final == state \in {"Failed", "Complete"}

(* A teardown follows the end of the queue, and only it leads to the       *)
(* verdict.                                                                *)
Routes ==
  /\ teardown => Final /\ pc \in {"teardown", "verdict", "done"}
  /\ pc \in {"teardown", "verdict", "done", "crashed"} => teardown
  /\ pc = "teardown" => cont = "verdict"
  /\ Final => pc \in {"dispatch", "execute", "after", "ended",
                      "teardown", "verdict", "done"}

(* stats.active is wrong only after a fakeroot worker failed to start,     *)
(* which ends the build; otherwise it ends with nothing held.              *)
Counts ==
  /\ SpawnFailed => state = "Failed"
  /\ ~SpawnFailed => stats.active = Cardinality(build_stamps)
  /\ Final /\ ~SpawnFailed => build_stamps = {} /\ state = FinalState

(* Until the teardown no worker is gone.                                   *)
Staffed == ~teardown => Dead = {} /\ worker["worker"] = "up" /\ quit = {}

Reported ==
  pc = "done" /\ failed_tids # {} => failures = Cardinality(failed_tids)

CalmState == Routes /\ Counts /\ Staffed /\ Reported
CalmInv == Calm => CalmState

LEMMA CalmBefore ==
  ASSUME TypeOK, QueueInv, Asked, [Next]_vars, Calm'
  PROVE  Calm
<1>1. SpawnFailed => SpawnFailed'
  BY AskedStep
<1>2. /\ crashes' >= crashes /\ (checked => checked')
      /\ forced => forced'
  BY DEF Asked, TypeOK, Next, Cooker, WorkerStep, IdleRun, IdleShutdown,
     IdleForceShutdown, DiskLow, DiskFine, Execute, ReadNext, NothingToStart,
     ReadComplete, ReadFail, SkipCovered, SkipExisting, RunNoExec, SpawnFails,
     Launch, LaunchBroken, Loop, CleanUp, Ended, Wait, Teardown, TeardownNext,
     VerdictComplete, VerdictFailed, VerdictCleanUp, Child, Fork, ChildStamp,
     ChildExit, ChildFail, FinishNow, Quit, Crash, Stop, Terminated,
     cooker, procs, vars
<1> QED BY <1>1, <1>2 DEF Calm, TypeOK

(* The finish of a calm build: it waits for what is held, or is over.      *)
LEMMA CalmFinish ==
  ASSUME TypeOK, CalmState, ~Final, NEW c, finish(c)
  PROVE  \/ state' = "CleanUp" /\ (pc' = c \/ (pc' = "read" /\ cont' = c))
         \/ state' = FinalState /\ build_stamps = {} /\ pc' = c
<1>1. Dead = {} /\ stats.active = Cardinality(build_stamps)
  BY DEF CalmState, Routes, Counts, Staffed, Final
<1>2. CASE read_workers("CleanUp", c)
  BY <1>1, <1>2 DEF read_workers, Poll
<1>3. CASE ~read_workers("CleanUp", c)
  <2>1. state' = (IF stats.active > 0 THEN "CleanUp" ELSE FinalState) /\ pc' = c
    BY <1>3 DEF finish, Goto
  <2> QED BY <1>1, <2>1, ActiveHeld
<1> QED BY <1>2, <1>3

(* Steps that disturb neither the counters nor the workers.                *)
LEMMA CalmSame ==
  ASSUME CalmState, Routes', Reported',
         UNCHANGED <<failed_tids, build_stamps, worker, quit, teardown>>,
         stats'.active = stats.active, stats'.failed = stats.failed,
         \/ state' = state
         \/ state' = "CleanUp" /\ ~SpawnFailed
         \/ state' = FinalState /\ build_stamps = {} /\ ~SpawnFailed
  PROVE  CalmState'
<1>1. Counts'
  BY FinalStateType DEF CalmState, Counts, Final, FinalState, SpawnFailed
<1>2. Staffed'
  BY DEF CalmState, Staffed, Dead
<1> QED BY <1>1, <1>2 DEF CalmState

(* Steps of a teardown.                                                    *)
LEMMA CalmTornDown ==
  ASSUME CalmState, Routes', teardown', pc' # "done",
         UNCHANGED <<failed_tids, build_stamps, stats, state>>
  PROVE  CalmState'
<1>1. Counts'
  BY DEF CalmState, Counts, Final, FinalState, SpawnFailed
<1> QED BY <1>1 DEF CalmState, Staffed, Reported

LEMMA CalmStep ==
  TypeOK /\ QueueInv /\ Asked /\ TornDown /\ CalmInv /\ [Next]_vars => CalmInv'
<1> SUFFICES ASSUME TypeOK, QueueInv, Asked, TornDown, CalmState, Calm, Calm',
                    [Next]_vars
             PROVE  CalmState'
  BY CalmBefore DEF CalmInv
<1> USE DEF cooker, queue, disk, procs, given
<1>0. /\ ~Final => ~teardown /\ ~SpawnFailed /\ Dead = {} /\ worker["worker"] = "up"
      /\ ~teardown => Dead = {} /\ worker["worker"] = "up" /\ quit = {}
  BY DEF CalmState, Routes, Counts, Staffed, Final
<1>1. CASE IdleRun \/ DiskFine \/ Loop \/ Ended
  <2>1. Routes' /\ Reported'
    BY <1>1 DEF CalmState, Routes, Reported, Final, IdleRun, DiskFine, Loop,
                Ended, Goto
  <2> QED BY <1>1, <2>1, CalmSame DEF IdleRun, DiskFine, Loop, Ended
<1>2. CASE IdleShutdown \/ CleanUp \/ (DiskLow /\ finish("execute"))
  <2>1. ~Final
    BY <1>2 DEF CalmState, Routes, IdleShutdown, CleanUp, DiskLow, Final
  <2>2. PICK c \in {"dispatch", "ended", "execute"} : finish(c)
    BY <1>2 DEF IdleShutdown, CleanUp
  <2>3. \/ state' = "CleanUp" /\ (pc' = c \/ (pc' = "read" /\ cont' = c))
        \/ state' = FinalState /\ build_stamps = {} /\ pc' = c
    BY <2>1, <2>2, CalmFinish
  <2>4. UNCHANGED <<queue, job, worker, quit, teardown, failures>>
    BY <1>2 DEF IdleShutdown, CleanUp, DiskLow
  <2>5. Routes' /\ Reported'
    BY <1>0, <2>1, <2>3, <2>4, FinalStateType DEF Routes, Reported, Final
  <2> QED BY <1>0, <2>1, <2>3, <2>4, <2>5, CalmSame
<1>3. CASE IdleForceShutdown \/ (DiskLow /\ ~finish("execute"))
  BY <1>3 DEF IdleForceShutdown, DiskLow, Calm
<1>4. CASE Execute
  <2>1. ~Final => state' = state
    BY <1>0, <1>4 DEF Execute, MayExecute, read_workers, Poll
  <2>2. Routes' /\ Reported' /\ state' = state
    BY <1>0, <1>4, <2>1 DEF CalmState, Routes, Reported, Final, Execute,
       MayExecute, read_workers, Goto
  <2> QED BY <1>4, <2>2, CalmSame DEF Execute
<1>5. CASE ReadNext
  <2>1. ~Final
    BY <1>5 DEF CalmState, Routes, ReadNext
  <2>2. state' = state
    BY <1>0, <1>5, <2>1 DEF ReadNext, Poll
  <2>3. Routes' /\ Reported'
    BY <1>0, <1>5, <2>1, <2>2 DEF TornDown, Routes, Reported, Final, ReadNext, Goto
  <2> QED BY <1>5, <2>2, <2>3, CalmSame DEF ReadNext
<1>6. CASE NothingToStart
  <2>1. ~Final /\ stats.active = Cardinality(build_stamps)
    BY <1>6 DEF CalmState, Routes, Counts, Final, NothingToStart
  <2>2. \/ state' = state /\ pc' = "read"
        \/ state' = FinalState /\ build_stamps = {} /\ pc' = "after"
    BY <1>0, <1>6, <2>1, ActiveHeld DEF NothingToStart, read_workers, Poll, Goto
  <2>3. Routes' /\ Reported'
    BY <1>0, <1>6, <2>1, <2>2 DEF Routes, Reported, Final, NothingToStart
  <2> QED BY <1>0, <1>6, <2>1, <2>2, <2>3, CalmSame DEF NothingToStart
<1>7. ASSUME NEW t \in Tasks, ReadComplete(t) PROVE CalmState'
  <2>1. /\ t \in build_stamps
        /\ stats'.active = stats.active - 1 /\ stats'.failed = stats.failed
    BY <1>7, StatsActive, StatsFailed DEF ReadComplete, QueueInv, StampsHeld, TypeOK
  <2>2. Cardinality(build_stamps') = Cardinality(build_stamps) - 1
    BY <1>7, <2>1, HeldFinite, FS_RemoveElement DEF ReadComplete
  <2>3. SpawnFailed' = SpawnFailed /\ pc # "done"
    BY <1>7, <2>1 DEF ReadComplete, Reading, SpawnFailed
  <2>4. Counts'
    BY <1>7, <2>1, <2>2, <2>3 DEF CalmState, Counts, Final, ReadComplete
  <2> QED BY <1>7, <2>3, <2>4 DEF CalmState, Routes, Staffed, Reported, Final,
                                  Dead, ReadComplete
<1>8. ASSUME NEW t \in Tasks, ReadFail(t) PROVE CalmState'
  <2>1. t \in build_stamps /\ stats'.active = stats.active - 1 /\ pc # "done"
    BY <1>8, StatsActive DEF ReadFail, Reading, QueueInv, StampsHeld, TypeOK
  <2>2. Cardinality(build_stamps') = Cardinality(build_stamps) - 1
    BY <1>8, <2>1, HeldFinite, FS_RemoveElement DEF ReadFail
  <2>3. SpawnFailed' = SpawnFailed
    BY <1>8, FailCounted, FailedFinite, StatsFailed DEF SpawnFailed, TypeOK
  <2>4. SpawnFailed => state' = state
    BY <1>8 DEF ReadFail, AfterFailure, Calm
  <2>5. ~SpawnFailed => ~Final
    BY <2>1 DEF CalmState, Counts, Final
  <2>6. ~Final => state' \notin {"Failed", "Complete"}
    BY <1>8 DEF ReadFail, AfterFailure, Final
  <2>7. Counts'
    BY <1>8, <2>1, <2>2, <2>3, <2>4, <2>5, <2>6
    DEF CalmState, Counts, Final, TypeOK, Stats
  <2>8. Routes'
    BY <1>0, <1>8, <2>4, <2>5, <2>6 DEF CalmState, Routes, Final, ReadFail
  <2> QED BY <1>8, <2>1, <2>7, <2>8 DEF CalmState, Staffed, Reported, Dead, ReadFail
<1>9. ASSUME NEW t \in Tasks, SkipCovered(t) \/ SkipExisting(t) \/ RunNoExec(t)
      PROVE  CalmState'
  <2>1. Routes' /\ Reported'
    BY <1>9 DEF CalmState, Routes, Reported, Final, SkipCovered, SkipExisting,
                RunNoExec, CanStart, Goto
  <2> QED BY <1>9, <2>1, SkipCounted, CalmSame
          DEF SkipCovered, SkipExisting, RunNoExec, task_skip
<1>10. ASSUME NEW t \in Tasks, SpawnFails(t) PROVE CalmState'
  <2>1. ~Final /\ pc = "launch"
    BY <1>10 DEF CalmState, Routes, SpawnFails, NeedsChild, CanStart
  <2>2. stats'.failed = stats.failed + 1 /\ stats.failed \in Int
    BY <1>10, StatsFailed DEF SpawnFails, TypeOK
  <2>3. SpawnFailed'
    BY <1>10, <2>2, FailedFinite DEF SpawnFailed, Asked, SpawnFails
  <2>4. Counts'
    BY <1>10, <2>3 DEF Counts, SpawnFails
  <2> QED BY <1>0, <1>10, <2>1, <2>4 DEF CalmState, Routes, Staffed, Reported,
                                  Final, Dead, SpawnFails, Goto
<1>11. ASSUME NEW t \in Tasks, Launch(t) PROVE CalmState'
  <2>1. ~Final /\ pc = "launch" /\ CanStart(t)
    BY <1>11 DEF CalmState, Routes, Launch, NeedsChild, CanStart
  <2>2. state' = state
    BY <1>0, <1>11, <2>1 DEF Launch, read_workers, Poll
  <2>3. Dead' = {} /\ worker'["worker"] = "up"
    BY <1>0, <1>11, <2>1 DEF Launch, Dead, Workers, WorkerOf, TypeOK
  <2>4. /\ stats'.active = stats.active + 1 /\ stats'.failed = stats.failed
        /\ Cardinality(build_stamps') = Cardinality(build_stamps) + 1
    BY <1>11, <2>1, CandidateFacts, HeldFinite, FS_AddElement, StatsActive,
       StatsFailed DEF Launch, TypeOK
  <2>5. Counts'
    BY <1>11, <2>1, <2>2, <2>4 DEF CalmState, Counts, Final, SpawnFailed, Launch
  <2>6. pc' \in {"after", "read"}
    BY <1>11 DEF Launch, read_workers, Goto
  <2>7. Routes' /\ Staffed' /\ Reported'
    BY <1>0, <1>11, <2>1, <2>2, <2>3, <2>6
       DEF Routes, Staffed, Reported, Final, Launch
  <2> QED BY <2>5, <2>7 DEF CalmState
<1>12. ASSUME NEW t \in Tasks, LaunchBroken(t) PROVE CalmState'
  <2>1. ~Final
    BY <1>12 DEF CalmState, Routes, LaunchBroken, NeedsChild, CanStart
  <2> QED BY <1>0, <1>12, <2>1 DEF LaunchBroken, Dead, WorkerOf, Workers
<1>13. CASE Wait
  <2>1. ~Final /\ ~NoWorkers
    BY <1>0, <1>13 DEF Wait, Final, NoWorkers, Workers
  <2>2. Routes' /\ Reported'
    BY <1>0, <1>13, <2>1 DEF Routes, Reported, Final, Wait, Goto
  <2> QED BY <1>13, <2>2, CalmSame DEF Wait
<1>14. CASE Teardown
  <2>1. Routes'
    BY <1>14 DEF Routes, Final, Teardown, Goto
  <2> QED BY <1>14, <2>1, CalmTornDown DEF Teardown, Goto
<1>15. CASE TeardownNext
  <2>1. teardown /\ cont = "verdict" /\ Final
    BY <1>15 DEF TeardownNext, CalmState, Routes
  <2>2. Routes' /\ UNCHANGED <<teardown, state>> /\ pc' # "done"
    BY <1>15, <2>1 DEF Routes, Final, TeardownNext, Goto
  <2> QED BY <1>15, <2>1, <2>2, CalmTornDown DEF TeardownNext
<1>16. CASE VerdictComplete
  <2>1. failed_tids = {}
    BY <1>16 DEF VerdictComplete, CalmState, Counts, Final, FinalState
  <2>2. Routes' /\ Reported'
    BY <1>16, <2>1 DEF CalmState, Routes, Reported, Final, VerdictComplete, Goto
  <2> QED BY <1>16, <2>2, CalmSame DEF VerdictComplete
<1>17. CASE VerdictFailed
  <2>1. Routes' /\ Reported'
    BY <1>17 DEF CalmState, Routes, Reported, Final, VerdictFailed, Goto
  <2> QED BY <1>17, <2>1, CalmSame DEF VerdictFailed
<1>18. CASE VerdictCleanUp
  BY <1>18 DEF VerdictCleanUp, CalmState, Routes, Final
<1>19. ASSUME NEW t \in Tasks, Child(t) PROVE CalmState'
  BY <1>19, CalmSame DEF Child, Fork, ChildStamp, ChildExit, ChildFail,
                         CalmState, Routes, Reported, Final
<1>20. ASSUME NEW w \in Workers, FinishNow(w) PROVE CalmState'
  BY <1>20, CalmSame DEF FinishNow, CalmState, Routes, Reported, Final
<1>21. ASSUME NEW w \in Workers, Quit(w) PROVE CalmState'
  <2>1. teardown
    BY <1>0, <1>21 DEF Quit
  <2>2. Routes' /\ Reported'
    BY <1>21 DEF Quit, CalmState, Routes, Reported, Final
  <2>3. Counts'
    BY <1>21 DEF Quit, CalmState, Counts, Final, FinalState, SpawnFailed
  <2> QED BY <1>21, <2>1, <2>2, <2>3 DEF Quit, CalmState, Staffed
<1>22. ASSUME NEW w \in Workers, Crash(w) PROVE CalmState'
  BY <1>22 DEF Crash, Calm, TypeOK
<1>23. CASE Stop \/ Terminated \/ UNCHANGED vars
  BY <1>23, CalmSame DEF Stop, Terminated, vars, CalmState, Routes, Reported, Final
<1> QED
  BY <1>1, <1>2, <1>3, <1>4, <1>5, <1>6, <1>7, <1>8, <1>9, <1>10, <1>11,
     <1>12, <1>13, <1>14, <1>15, <1>16, <1>17, <1>18, <1>19, <1>20, <1>21,
     <1>22, <1>23
  DEF Next, Cooker, WorkerStep

LEMMA InitCalm == Init => CalmInv
<1> SUFFICES ASSUME Init PROVE CalmState
  BY DEF CalmInv
<1>1. Cardinality({}) = 0
  BY FS_EmptySet
<1> QED BY <1>1 DEF Init, CalmState, Routes, Counts, Staffed, Reported, Final,
                    SpawnFailed, Dead, Workers

LEMMA CalmCorrect == Spec => [](CalmInv /\ Asked)
<1>1. Init => TornDown
  BY DEF Init, TornDown
<1>2. Asked /\ TypeOK /\ QueueInv /\ [Next]_vars => Asked'
  BY AskedStep
<1> QED
  BY <1>1, <1>2, InitCalm, InitAsked, TornStep, CalmStep, TypeCorrect,
     InvCorrect, PTL DEF Spec

(* A calm build reports exactly as many failures as there were: a failure  *)
(* read at any moment, the teardown included, is in the verdict.           *)
THEOREM FailureReportedCorrect == Spec => []FailureReported
<1>1. CalmInv => FailureReported
  BY DEF CalmInv, CalmState, Reported, FailureReported
<1> QED BY <1>1, CalmCorrect, PTL

-----------------------------------------------------------------------------
(* Builds that nothing disturbed.                                          *)

(* Only a failure without -k makes such a build clean up; one that is      *)
(* complete, or ends under -k, has started all that may be.                *)
SureState ==
  /\ state = "CleanUp" => Abort /\ failed_tids # {}
  /\ state = "Complete" \/ (Final /\ ~Abort) => runq_buildable \subseteq runq_running
SureInv == Undisturbed => SureState

LEMMA UndisturbedCalm == TypeOK /\ Asked /\ Undisturbed => Calm
BY DEF Undisturbed, Asked, Calm

LEMMA UndisturbedBefore ==
  ASSUME TypeOK, QueueInv, Asked, [Next]_vars, Undisturbed'
  PROVE  Undisturbed
<1>1. SpawnFailed => SpawnFailed'
  BY AskedStep
<1>2. /\ crashes' >= crashes /\ (checked => checked')
      /\ interrupted # 0 => interrupted' # 0
  BY DEF Asked, TypeOK, Next, Cooker, WorkerStep, IdleRun, IdleShutdown,
     IdleForceShutdown, DiskLow, DiskFine, Execute, ReadNext, NothingToStart,
     ReadComplete, ReadFail, SkipCovered, SkipExisting, RunNoExec, SpawnFails,
     Launch, LaunchBroken, Loop, CleanUp, Ended, Wait, Teardown, TeardownNext,
     VerdictComplete, VerdictFailed, VerdictCleanUp, Child, Fork, ChildStamp,
     ChildExit, ChildFail, FinishNow, Quit, Crash, Stop, Terminated,
     cooker, procs, vars
<1> QED BY <1>1, <1>2 DEF Undisturbed, TypeOK

LEMMA SureSame ==
  ASSUME SureState, UNCHANGED <<state, runq_buildable, runq_running, failed_tids>>
  PROVE  SureState'
BY DEF SureState, Final

LEMMA SureStep ==
  TypeOK /\ QueueInv /\ Asked /\ CalmInv /\ SureInv /\ [Next]_vars => SureInv'
<1> SUFFICES ASSUME TypeOK, QueueInv, Asked, CalmState, SureState,
                    Undisturbed, Undisturbed', [Next]_vars
             PROVE  SureState'
  BY UndisturbedBefore, UndisturbedCalm DEF CalmInv, SureInv
<1> USE DEF cooker, queue, disk, procs, given
<1>0. /\ ~Final => ~teardown /\ Dead = {} /\ ~SpawnFailed
      /\ Final => build_stamps = {} /\ pc \notin {"read", "launch"}
      /\ interrupted' = 0 /\ ~checked' /\ ~SpawnFailed
  BY DEF CalmState, Routes, Counts, Staffed, Final, Undisturbed
<1>1. CASE \/ IdleRun \/ DiskFine \/ Loop \/ Ended \/ Wait \/ Teardown
           \/ VerdictComplete \/ VerdictFailed \/ VerdictCleanUp
           \/ Stop \/ Terminated \/ UNCHANGED vars
  BY <1>1, SureSame DEF IdleRun, DiskFine, Loop, Ended, Wait, Teardown,
           VerdictComplete, VerdictFailed, VerdictCleanUp, Stop, Terminated, vars
<1>2. CASE IdleShutdown \/ IdleForceShutdown \/ DiskLow
  BY <1>0, <1>2 DEF IdleShutdown, IdleForceShutdown, DiskLow
<1>3. CASE CleanUp
  <2>1. ~Final /\ finish("ended") /\ Abort /\ failed_tids # {}
    BY <1>3 DEF CleanUp, Final, SureState
  <2>2. state' \in {"CleanUp", "Failed"}
    BY <2>1, CalmFinish DEF FinalState
  <2> QED BY <1>3, <2>1, <2>2 DEF CleanUp, SureState, Final
<1>4. CASE Execute
  <2>1. ~Final => state' = state
    BY <1>0, <1>4 DEF Execute, MayExecute, read_workers, Poll
  <2>2. Final => state' = state
    BY <1>4 DEF Execute, MayExecute, Final
  <2> QED BY <1>4, <2>1, <2>2, SureSame DEF Execute
<1>5. CASE ReadNext
  <2>1. state' = state
    BY <1>0, <1>5 DEF ReadNext, Poll
  <2> QED BY <1>5, <2>1, SureSame DEF ReadNext
<1>6. CASE NothingToStart
  <2>1. ~Final /\ Candidates = {} /\ stats.active = Cardinality(build_stamps)
    BY <1>0, <1>6 DEF CalmState, Counts, NothingToStart
  <2>2. CASE stats.active > 0
    <3>1. state' = state
      BY <1>0, <1>6, <2>1, <2>2 DEF NothingToStart, read_workers, Poll
    <3> QED BY <1>6, <3>1, SureSame DEF NothingToStart
  <2>3. CASE ~(stats.active > 0)
    <3>1. runq_buildable \subseteq runq_running
      BY <2>1, <2>3, ActiveHeld, NothingLeft
    <3>2. state' # "CleanUp"
      BY <1>6, <2>3, FinalStateType DEF NothingToStart
    <3> QED BY <1>6, <3>1, <3>2 DEF NothingToStart, SureState
  <2> QED BY <2>2, <2>3
<1>7. ASSUME NEW t \in Tasks, ReadComplete(t) \/ ReadFail(t) PROVE SureState'
  <2>1. ~Final
    BY <1>0, <1>7 DEF ReadComplete, ReadFail, QueueInv, StampsHeld
  <2> QED BY <1>7, <2>1 DEF ReadComplete, ReadFail, AfterFailure, SureState, Final
<1>8. ASSUME NEW t \in Tasks, SkipCovered(t) \/ SkipExisting(t) \/ RunNoExec(t)
      PROVE  SureState'
  <2>1. ~Final
    BY <1>0, <1>8 DEF SkipCovered, SkipExisting, RunNoExec, CanStart
  <2> QED BY <1>8, <2>1 DEF SkipCovered, SkipExisting, RunNoExec, task_skip,
                            SureState, Final
<1>9. ASSUME NEW t \in Tasks, SpawnFails(t) PROVE SureState'
  <2>1. stats'.failed = stats.failed + 1 /\ stats.failed \in Int
    BY <1>9, StatsFailed DEF SpawnFails, TypeOK
  <2>2. SpawnFailed'
    BY <1>9, <2>1, FailedFinite DEF SpawnFailed, Asked, SpawnFails
  <2> QED BY <2>2 DEF Undisturbed
<1>10. ASSUME NEW t \in Tasks, Launch(t) PROVE SureState'
  <2>1. ~Final
    BY <1>0, <1>10 DEF Launch, NeedsChild, CanStart
  <2>2. state' = state
    BY <1>0, <1>10, <2>1 DEF Launch, read_workers, Poll
  <2> QED BY <1>10, <2>1, <2>2 DEF Launch, SureState, Final
<1>11. ASSUME NEW t \in Tasks, LaunchBroken(t) PROVE SureState'
  BY <1>11, SureSame DEF LaunchBroken
<1>12. CASE TeardownNext
  <2>1. state' = state
    BY <1>12 DEF TeardownNext, CalmState, Routes
  <2> QED BY <1>12, <2>1, SureSame DEF TeardownNext
<1>13. ASSUME NEW t \in Tasks, Child(t) PROVE SureState'
  BY <1>13, SureSame DEF Child, Fork, ChildStamp, ChildExit, ChildFail
<1>14. ASSUME NEW w \in Workers, FinishNow(w) \/ Quit(w) \/ Crash(w)
       PROVE  SureState'
  BY <1>14, SureSame DEF FinishNow, Quit, Crash
<1> QED
  BY <1>1, <1>2, <1>3, <1>4, <1>5, <1>6, <1>7, <1>8, <1>9, <1>10, <1>11,
     <1>12, <1>13, <1>14
  DEF Next, Cooker, WorkerStep

LEMMA SureCorrect == Spec => [](SureInv /\ CalmInv /\ Asked /\ Started /\ Ready /\ GraphKept)
<1>1. Init => SureInv /\ GraphKept
  BY DEF Init, SureInv, SureState, Final, GraphKept
<1> QED
  BY <1>1, InitEnd, EndStep, GraphStep, CalmCorrect, SureStep, TypeCorrect,
     InvCorrect, PTL DEF Spec

(* An undisturbed build at its verdict holds no task any more.             *)
LEMMA VerdictReached ==
  ASSUME TypeOK, CalmInv, Asked, Undisturbed, pc \in {"verdict", "done"}
  PROVE  Final /\ build_stamps = {} /\ state = FinalState
BY UndisturbedCalm DEF CalmInv, CalmState, Routes, Counts, Undisturbed

(* Success is never reported while something is left undone: a build that  *)
(* nothing disturbed and that reports no failures has completed every      *)
(* task, in any acyclic graph.                                             *)
THEOREM VerdictSoundCorrect == Spec => []VerdictSound
<1>1. TypeOK /\ SureInv /\ CalmInv /\ Asked /\ Started /\ Ready /\ GraphKept => VerdictSound
  <2> SUFFICES ASSUME TypeOK, SureInv, CalmInv, Asked, Started, Ready, GraphKept,
                      pc = "done", failures = 0, Undisturbed
               PROVE  runq_complete = Tasks
    BY DEF VerdictSound
  <2>1. failed_tids = {}
    <3>1. failed_tids # {} => Cardinality(failed_tids) = 0
      BY UndisturbedCalm DEF CalmInv, CalmState, Reported
    <3> QED BY <3>1, FailedFinite, FS_EmptySet
  <2>2. build_stamps = {} /\ state = "Complete"
    BY <2>1, VerdictReached DEF FinalState
  <2>3. runq_buildable \subseteq runq_running
    BY <2>2 DEF SureInv, SureState
  <2> QED BY <2>1, <2>2, <2>3, AllComplete
<1> QED BY <1>1, SureCorrect, TypeCorrect, PTL

(* With -k, only failures and what depends on them are left over.          *)
THEOREM ContinueCorrect == Spec => []ContinueAsFarAsPossible
<1>1. TypeOK /\ SureInv /\ CalmInv /\ Asked /\ Started /\ Ready => ContinueAsFarAsPossible
  <2> SUFFICES ASSUME TypeOK, SureInv, CalmInv, Asked, Started, Ready,
                      pc \in {"verdict", "done"}, ~Abort, Undisturbed,
                      NEW t \in Tasks \ runq_complete
               PROVE  t \in failed_tids \/ ~(depends[t] \subseteq runq_complete)
    BY DEF ContinueAsFarAsPossible
  <2>1. Final /\ build_stamps = {}
    BY VerdictReached
  <2>2. runq_buildable \subseteq runq_running
    BY <2>1 DEF SureInv, SureState
  <2> QED BY <2>1, <2>2, AllStarted
<1> QED BY <1>1, SureCorrect, TypeCorrect, PTL
=============================================================================
