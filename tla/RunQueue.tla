------------------------------ MODULE RunQueue ------------------------------
(***************************************************************************)
(* BitBake's task execution: bb.runqueue.RunQueue driven by the cooker's   *)
(* idle callback (cooker.py, buildTargetsIdle) in its last phase, the one  *)
(* RunQueueExecuteTasks implements, together with what it talks to: the    *)
(* bitbake-worker processes, the task children they fork, the stamp files  *)
(* those children write, the disk space monitor and the user's stop        *)
(* requests.  The setscene phase is over; its result is `covered'.         *)
(*                                                                         *)
(* The server is one thread.  `pc' is where it is in the idle callback;    *)
(* everything a worker or a child does may happen between two of its       *)
(* steps.  A read of a worker pipe is a step per message, because the code *)
(* handles one exit code at a time (runQueuePipe.read) and `state' changes *)
(* while it does.                                                          *)
(***************************************************************************)
EXTENDS Integers, FiniteSets

CONSTANTS
  Tasks,        \* rqdata.runtaskentries' keys: the task ids of the build
  Graphs,       \* the dependency maps [Tasks -> SUBSET Tasks] to build
  CoveredSets,  \* skip lists the setscene phase may hand over
  StampInits,   \* ages of the stamp files found on disk
  StampOf,      \* the stamp file of a task (noextra=True: may be shared)
  FnOf,         \* the recipe file of a task
  StampPolicyFns, \* recipes whose stamps count across recipes (BB_STAMP_POLICY)
  NoExec, NoStamp, Fakeroot,  \* task flags
  NumberTasks,  \* BB_NUMBER_THREADS
  Abort,        \* TRUE unless -k was given
  DiskAction,   \* "none", "STOPTASKS" or "ABORT" (BB_DISKMON_DIRS)
  CanStop,      \* whether the user may interrupt the build
  CanFail,      \* tasks whose children may exit with an error
  SpawnMayFail, \* whether starting the fakeroot worker may raise OSError
  MaxCrash      \* bound: worker processes that may die on their own

ASSUME TasksFinite == IsFiniteSet(Tasks)
ASSUME GraphsType == Graphs \subseteq [Tasks -> SUBSET Tasks]
ASSUME CoveredType == CoveredSets \subseteq SUBSET Tasks
ASSUME StampInitsType == StampInits \subseteq [Tasks -> 0 .. 2]
ASSUME NumberTasksType == NumberTasks \in Nat \ {0}
ASSUME FlagsType == /\ NoExec \subseteq Tasks /\ NoStamp \subseteq Tasks
                    /\ Fakeroot \subseteq Tasks /\ CanFail \subseteq Tasks
ASSUME ModeType == /\ {Abort, CanStop, SpawnMayFail} \subseteq BOOLEAN
                   /\ DiskAction \in {"none", "STOPTASKS", "ABORT"}
                   /\ MaxCrash \in Nat
(* RunQueueData.calculate_task_weights refuses a build whose tasks depend  *)
(* on each other in a circle: in every set of tasks one depends on none.   *)
ASSUME GraphsAcyclic ==
  \A g \in Graphs : \A S \in (SUBSET Tasks) \ {{}} : \E t \in S : g[t] \cap S = {}
(* A nostamp task has a new hash, and so a new stamp name, in every build  *)
(* (the taint of siggen.py's get_taskhash).                                *)
ASSUME NoStampFresh == \A ages \in StampInits : \A t \in NoStamp : ages[t] = 0

VARIABLES
  pc,            \* where the server is in buildTargetsIdle
  reading,       \* the worker whose pipe is being read
  cont,          \* where the server goes when the read is over
  state,         \* rq.state
  depends,       \* runtaskentries[t].depends
  covered,       \* rq.scenequeue_covered after RunQueueExecuteTasks.__init__
  runq_buildable, runq_running, runq_complete, failed_tids,
  build_stamps,  \* the keys of build_stamps: tasks given to a worker, unread
  stats,         \* RunQueueStats
  existing,      \* tasks reported as runQueueTaskSkipped(reason "existing")
  late,          \* history: runtasks sent when state was no longer Running
  forced,        \* history: the build was told to stop at once
  stamp,         \* age class of a task's stamp file, 0 when there is none
  scene,         \* the same for its _setscene stamp file
  job,           \* what became of the task the worker was given
  worker,        \* "none" | "up" | "dead", for the worker and the fakeworker
  finishnow,     \* workers with an unread <finishnow> in their pipe
  quit,          \* workers with an unread <quit> in their pipe
  crashes,       \* history: workers that died on their own
  teardown,      \* rq.teardown
  checked,       \* diskMonitor.checked of the one path monitored
  request,       \* cooker.state: what the user asked for
  interrupted, failures  \* what BuildCompleted reports

cooker == <<pc, reading, cont, state, teardown, checked, request,
            interrupted, failures, late, forced>>
queue  == <<runq_buildable, runq_running, runq_complete, failed_tids,
            build_stamps, stats, existing>>
disk   == <<stamp, scene>>
procs  == <<job, worker, finishnow, quit, crashes>>
given  == <<depends, covered>>
vars   == <<cooker, queue, disk, procs, given>>

Workers == {"worker", "fakeworker"}
WorkerOf(t) == IF t \in Fakeroot THEN "fakeworker" ELSE "worker"

(* A build starts more than a second after the stamps it finds were        *)
(* written, so whatever it writes is newer than every one of them.         *)
New == 3

(* `none': not given to a worker; `sent': in the worker's pipe; `run': the *)
(* child executes; `stamped': it has written its stamp; `ok' and `fail':   *)
(* an unread <exitcode>; `lost': nobody will ever hear of it.              *)
JobStates == {"none", "sent", "run", "stamped", "ok", "fail", "read", "lost"}
InWorker  == {"sent", "run", "stamped"}
Alive     == {t \in Tasks : job[t] \in InWorker}
Unread(w) == {t \in Tasks : job[t] \in {"ok", "fail"} /\ WorkerOf(t) = w}
Up        == {w \in Workers : worker[w] = "up"}
Dead      == {w \in Workers : worker[w] = "dead"}
NoWorkers == \A w \in Workers : worker[w] = "none"

revdeps(t) == {r \in Tasks : t \in depends[r]}

-----------------------------------------------------------------------------
(* Which tasks may start, and which need not.                              *)

(* Mutated forms of the scheduler: tasks sharing a stamp run together; a   *)
(* started task may be picked again.                                       *)
Candidates_NoStamps ==
  IF stats.active >= NumberTasks THEN {} ELSE runq_buildable \ runq_running
Candidates_Again ==
  IF stats.active >= NumberTasks THEN {}
  ELSE {t \in runq_buildable : \A u \in build_stamps : StampOf[u] # StampOf[t]}

(* RunQueueScheduler.next: any task a scheduler's priorities may prefer.   *)
Candidates ==
  IF stats.active >= NumberTasks THEN {}
  ELSE {t \in runq_buildable \ runq_running :
          \A u \in build_stamps : StampOf[u] # StampOf[t]}

(* Mutated form: the age of the dependency's stamp is not compared.        *)
DepCurrent_NoAge(t, d) ==
  \/ scene[d] > stamp[d]
  \/ FnOf[d] # FnOf[t] /\ FnOf[d] \notin StampPolicyFns
  \/ stamp[d] # 0

(* One dependency of check_stamp_task's loop leaves task t current.        *)
DepCurrent(t, d) ==
  \/ scene[d] > stamp[d]
  \/ FnOf[d] # FnOf[t] /\ FnOf[d] \notin StampPolicyFns
  \/ stamp[d] # 0 /\ stamp[t] >= stamp[d]

check_stamp_task(t) ==
  /\ stamp[t] # 0
  /\ t \notin NoStamp
  /\ \A d \in depends[t] : DepCurrent(t, d)

(* make_stamp also cleans the _setscene stamp away.                        *)
make_stamp(t) == /\ stamp' = [stamp EXCEPT ![t] = New]
                 /\ scene' = [scene EXCEPT ![t] = 0]

(* RunQueueStats: its counters.                                            *)
Count(s, f, n)   == [s EXCEPT ![f] = @ + n]
(* Mutated forms: a skip, or a failure, that forgets the active count.     *)
taskSkipped_NoActive(s) == Count(s, "skipped", 1)
taskFailed_NoActive(s)  == Count(s, "failed", 1)

taskFailed(s)    == Count(Count(s, "active", -1), "failed", 1)
taskCompleted(s) == Count(Count(s, "active", -1), "completed", 1)
taskSkipped(s)   == Count(Count(s, "active", 1), "skipped", 1)
taskActive(s)    == Count(s, "active", 1)

(* Mutated forms: one complete dependency is enough; t is added to the     *)
(* complete tasks only after the check.                                    *)
Released_AnyDep(t) == revdeps(t) \ (runq_running \cup runq_buildable)
Released_Late(t) ==
  {r \in revdeps(t) \ (runq_running \cup runq_buildable) :
     depends[r] \subseteq runq_complete}

(* The reverse dependencies task_completeoutright(t) makes buildable.      *)
Released(t) ==
  {r \in revdeps(t) \ (runq_running \cup runq_buildable) :
     depends[r] \subseteq runq_complete \cup {t}}

(* Mutated form: failures are forgotten.                                   *)
FinalState_Complete == "Complete"

(* finish_now, finish and execute: the state a build with nothing active   *)
(* ends in.                                                                *)
FinalState == IF failed_tids # {} THEN "Failed" ELSE "Complete"

(* Mutated form: -k is ignored.                                            *)
AfterFailure_Always == "CleanUp"

(* task_fail: without -k a failure stops the build.                        *)
AfterFailure == IF Abort THEN "CleanUp" ELSE state

(* Mutated form: the fakeroot worker is forgotten.                         *)
MorePipes_Never == FALSE

(* The fakeroot worker's pipe is still to come, in read_workers and in     *)
(* teardown_workers.                                                       *)
MorePipes == reading = "worker" /\ worker["fakeworker"] # "none"

-----------------------------------------------------------------------------
Init ==
  /\ pc = "idle" /\ reading = "worker" /\ cont = "idle"
  /\ state = "Running"
  /\ depends \in Graphs
  /\ covered \in CoveredSets
  /\ runq_buildable = {t \in Tasks : depends[t] = {}}
  /\ runq_running = {} /\ runq_complete = {} /\ failed_tids = {}
  /\ build_stamps = {} /\ existing = {} /\ late = 0
  /\ stats = [active |-> 0, completed |-> 0, skipped |-> 0, failed |-> 0]
  /\ stamp \in StampInits
  /\ scene \in [Tasks -> {0, 2}]
  /\ \A t \in Tasks : scene[t] # 0 => t \in covered
  /\ job = [t \in Tasks |-> "none"]
  /\ worker = [w \in Workers |-> IF w = "worker" THEN "up" ELSE "none"]
  /\ finishnow = {} /\ quit = {} /\ crashes = 0
  /\ teardown = FALSE /\ checked = FALSE
  /\ request = "run" /\ interrupted = 0 /\ failures = 0 /\ forced = FALSE

-----------------------------------------------------------------------------
(* Pieces of the handlers.                                                 *)

Goto(p) == pc' = p /\ UNCHANGED <<reading, cont>>

(* finish_now: <finishnow> to every worker, and the build is over.         *)
finish_now == /\ finishnow' = finishnow \cup Up
              /\ state' = FinalState

(* Mutated form: nobody notices that a worker is gone.                     *)
Poll_Blind(s) == state' = s /\ UNCHANGED finishnow

(* The poll at the head of runQueuePipe.read, entered with rq.state = s:   *)
(* a worker found dead outside a teardown ends the build.                  *)
Poll(s) == IF Dead # {} /\ ~teardown THEN finish_now
           ELSE state' = s /\ UNCHANGED finishnow

(* read_workers(), to go on at c afterwards.                               *)
read_workers(s, c) ==
  /\ pc' = "read" /\ reading' = "worker" /\ cont' = c
  /\ Poll(s)

(* RunQueueExecute.finish, to go on at c afterwards.                       *)
finish(c) ==
  IF stats.active > 0 /\ ~NoWorkers
    THEN read_workers("CleanUp", c)
    ELSE /\ state' = IF stats.active > 0 THEN "CleanUp" ELSE FinalState
         /\ Goto(c) /\ UNCHANGED finishnow

(* task_completeoutright(t) when t is or is not set buildable itself.      *)
task_completeoutright(t, also) ==
  /\ runq_complete' = runq_complete \cup {t}
  /\ runq_buildable' = runq_buildable \cup Released(t) \cup also

task_skip(t) ==
  /\ runq_running' = runq_running \cup {t}
  /\ task_completeoutright(t, {t})
  /\ stats' = taskSkipped(taskCompleted(stats))
  /\ UNCHANGED <<failed_tids, build_stamps>>

-----------------------------------------------------------------------------
(* The idle callback: buildTargetsIdle, then _execute_runqueue up to the   *)
(* disk space check.                                                       *)

IdleRun ==
  /\ pc = "idle" /\ request = "run"
  /\ interrupted' = 0
  /\ Goto("dispatch")
  /\ UNCHANGED <<queue, disk, procs, given,
                 state, teardown, checked, request, failures, late, forced>>

IdleShutdown ==
  /\ pc = "idle" /\ request = "shutdown"
  /\ interrupted' = 1
  /\ finish("dispatch")
  /\ UNCHANGED <<queue, disk, given, job, worker, quit, crashes,
                 teardown, checked, request, failures, late, forced>>

IdleForceShutdown ==
  /\ pc = "idle" /\ request = "forceshutdown"
  /\ interrupted' = 2 /\ forced' = TRUE
  /\ finish_now
  /\ Goto("dispatch")
  /\ UNCHANGED <<queue, disk, given, job, worker, quit, crashes,
                 teardown, checked, request, failures, late>>

(* dm.check finds the monitored path below its limit.                      *)
DiskLow ==
  /\ pc = "dispatch" /\ state \in {"Running", "CleanUp"}
  /\ DiskAction # "none" /\ ~checked
  /\ checked' = TRUE
  /\ \/ DiskAction = "STOPTASKS" /\ finish("execute")
     \/ DiskAction = "ABORT" /\ finish_now /\ Goto("execute")
  /\ UNCHANGED <<queue, disk, given, job, worker, quit, crashes,
                 teardown, request, interrupted, failures, late, forced>>

DiskFine ==
  /\ pc = "dispatch"
  /\ Goto("execute")
  /\ UNCHANGED <<queue, disk, procs, given, state, teardown, checked,
                 request, interrupted, failures, late, forced>>

(* Mutated form: tasks are started while the build is cleaning up.         *)
MayExecute_CleanUp == state \in {"Running", "CleanUp"}

MayExecute == state = "Running"

(* Enter RunQueueExecuteTasks.execute, or pass it by.                      *)
Execute ==
  /\ pc = "execute"
  /\ IF MayExecute
       THEN read_workers(state, "launch")
       ELSE Goto("after") /\ UNCHANGED <<state, finishnow>>
  /\ UNCHANGED <<queue, disk, given, job, worker, quit, crashes, teardown,
                 checked, request, interrupted, failures, late, forced>>

-----------------------------------------------------------------------------
(* Reading the pipes.                                                      *)

Reading == pc \in {"read", "teardown"}

(* runqueue_process_waitpid(t, 0), task_complete(t).                       *)
ReadComplete(t) ==
  /\ Reading /\ WorkerOf(t) = reading /\ job[t] = "ok"
  /\ job' = [job EXCEPT ![t] = "read"]
  /\ build_stamps' = build_stamps \ {t}
  /\ stats' = taskCompleted(stats)
  /\ task_completeoutright(t, {})
  /\ UNCHANGED <<cooker, disk, given, runq_running, failed_tids, existing,
                 worker, finishnow, quit, crashes>>

(* runqueue_process_waitpid(t, status), task_fail(t).                      *)
ReadFail(t) ==
  /\ Reading /\ WorkerOf(t) = reading /\ job[t] = "fail"
  /\ job' = [job EXCEPT ![t] = "read"]
  /\ build_stamps' = build_stamps \ {t}
  /\ stats' = taskFailed(stats)
  /\ failed_tids' = failed_tids \cup {t}
  /\ state' = AfterFailure
  /\ UNCHANGED <<pc, reading, cont, teardown, checked, request, interrupted,
                 failures, late, forced, disk, given, runq_buildable,
                 runq_running, runq_complete, existing, worker, finishnow,
                 quit, crashes>>

(* read_workers goes on to the fakeroot worker's pipe, or returns.  What   *)
(* arrives after the read, or beyond its 102400 bytes, waits for the next. *)
ReadNext ==
  /\ pc = "read"
  /\ IF MorePipes
       THEN /\ reading' = "fakeworker" /\ UNCHANGED <<pc, cont>>
            /\ Poll(state)
       ELSE Goto(cont) /\ UNCHANGED <<state, finishnow>>
  /\ UNCHANGED <<queue, disk, given, job, worker, quit, crashes, teardown,
                 checked, request, interrupted, failures, late, forced>>

-----------------------------------------------------------------------------
(* The body of execute(): at most one task is started or skipped.  Nothing *)
(* here looks at rq.state, which the read before it may have changed.      *)

CanStart(t) == pc = "launch" /\ t \in Candidates
MustRun(t)  == t \notin covered /\ ~check_stamp_task(t)

SkipCovered(t) ==
  /\ CanStart(t) /\ t \in covered
  /\ task_skip(t)
  /\ Goto("after")
  /\ UNCHANGED <<existing, disk, procs, given, state, teardown, checked,
                 request, interrupted, failures, late, forced>>

SkipExisting(t) ==
  /\ CanStart(t) /\ t \notin covered /\ check_stamp_task(t)
  /\ task_skip(t)
  /\ existing' = existing \cup {t}
  /\ Goto("after")
  /\ UNCHANGED <<disk, procs, given, state, teardown, checked,
                 request, interrupted, failures, late, forced>>

RunNoExec(t) ==
  /\ CanStart(t) /\ MustRun(t) /\ t \in NoExec
  /\ runq_running' = runq_running \cup {t}
  /\ make_stamp(t)
  /\ stats' = taskCompleted(taskActive(stats))
  /\ task_completeoutright(t, {})
  /\ Goto("after")
  /\ UNCHANGED <<failed_tids, build_stamps, existing, procs, given, state,
                 teardown, checked, request, interrupted, failures, late,
                 forced>>

NeedsChild(t) == CanStart(t) /\ MustRun(t) /\ t \notin NoExec

(* start_fakeworker raises OSError.                                        *)
SpawnFails(t) ==
  /\ NeedsChild(t)
  /\ WorkerOf(t) = "fakeworker" /\ worker["fakeworker"] = "none"
  /\ SpawnMayFail
  /\ state' = "Failed"
  /\ stats' = taskFailed(stats)
  /\ Goto("after")
  /\ UNCHANGED <<runq_buildable, runq_running, runq_complete, failed_tids,
                 build_stamps, existing, disk, procs, given, teardown,
                 checked, request, interrupted, failures, late, forced>>

(* The <runtask> is written; with a free slot left execute returns,        *)
(* otherwise it reads the pipes again.                                     *)
Launch(t) ==
  /\ NeedsChild(t) /\ worker[WorkerOf(t)] # "dead"
  /\ worker' = [worker EXCEPT ![WorkerOf(t)] = "up"]
  /\ job' = [job EXCEPT ![t] = "sent"]
  /\ build_stamps' = build_stamps \cup {t}
  /\ runq_running' = runq_running \cup {t}
  /\ stats' = taskActive(stats)
  /\ late' = IF state = "Running" THEN late ELSE late + 1
  /\ IF stats.active + 1 < NumberTasks
       THEN Goto("after") /\ UNCHANGED <<state, finishnow>>
       ELSE read_workers(state, "after")
  /\ UNCHANGED <<runq_buildable, runq_complete, failed_tids, existing, disk,
                 quit, crashes, given, teardown, checked, request,
                 interrupted, failures, forced>>

(* Writing to a worker that died since it was polled raises; the handler   *)
(* in execute_runqueue tears the workers down and re-raises.               *)
LaunchBroken(t) ==
  /\ NeedsChild(t) /\ worker[WorkerOf(t)] = "dead"
  /\ teardown' = TRUE
  /\ pc' = "teardown" /\ reading' = "worker" /\ cont' = "crashed"
  /\ quit' = quit \cup {"worker"}
  /\ UNCHANGED <<queue, disk, given, state, checked, request, interrupted,
                 failures, late, forced, job, worker, finishnow, crashes>>

(* No task to start.                                                       *)
NothingToStart ==
  /\ pc = "launch" /\ Candidates = {}
  /\ IF stats.active > 0
       THEN read_workers(state, "after")
       ELSE state' = FinalState /\ Goto("after") /\ UNCHANGED finishnow
  /\ UNCHANGED <<queue, disk, given, job, worker, quit, crashes, teardown,
                 checked, request, interrupted, failures, late, forced>>

-----------------------------------------------------------------------------
(* The rest of _execute_runqueue, and what the idle callback does with it. *)

Loop ==
  /\ pc = "after" /\ state = "Running"
  /\ Goto("idle")
  /\ UNCHANGED <<queue, disk, procs, given, state, teardown, checked,
                 request, interrupted, failures, late, forced>>

CleanUp ==
  /\ pc = "after" /\ state = "CleanUp"
  /\ finish("ended")
  /\ UNCHANGED <<queue, disk, given, job, worker, quit, crashes, teardown,
                 checked, request, interrupted, failures, late, forced>>

Ended ==
  /\ pc = "after" /\ state \in {"Failed", "Complete"}
  /\ Goto("ended")
  /\ UNCHANGED <<queue, disk, procs, given, state, teardown, checked,
                 request, interrupted, failures, late, forced>>

(* finish() returned active_fds(): an empty list once the workers are      *)
(* gone, which the callback takes for the end of the build.                *)
Wait ==
  /\ pc = "ended" /\ state = "CleanUp"
  /\ Goto(IF NoWorkers THEN "done" ELSE "idle")
  /\ UNCHANGED <<queue, disk, procs, given, state, teardown, checked,
                 request, interrupted, failures, late, forced>>

Teardown ==
  /\ pc = "ended" /\ state \in {"Failed", "Complete"}
  /\ teardown' = TRUE
  /\ IF NoWorkers
       THEN Goto("verdict") /\ UNCHANGED quit
       ELSE /\ pc' = "teardown" /\ reading' = "worker" /\ cont' = "verdict"
            /\ quit' = quit \cup {"worker"}
  /\ UNCHANGED <<queue, disk, given, state, checked, request, interrupted,
                 failures, late, forced, job, worker, finishnow, crashes>>

(* _teardown_worker returns when its worker has exited and its pipe is     *)
(* drained.                                                                *)
TeardownNext ==
  /\ pc = "teardown" /\ worker[reading] = "dead" /\ Unread(reading) = {}
  /\ worker' = [worker EXCEPT ![reading] = "none"]
  /\ finishnow' = finishnow \ {reading}
  /\ IF MorePipes
       THEN /\ reading' = "fakeworker" /\ UNCHANGED <<pc, cont, state>>
            /\ quit' = (quit \ {reading}) \cup {"fakeworker"}
       ELSE /\ Goto(IF cont = "crashed" THEN "crashed" ELSE "verdict")
            /\ quit' = quit \ {reading}
            /\ state' = IF cont = "crashed" THEN "Complete" ELSE state
  /\ UNCHANGED <<queue, disk, given, job, crashes, teardown, checked,
                 request, interrupted, failures, late, forced>>

VerdictComplete ==
  /\ pc = "verdict" /\ state = "Complete"
  /\ Goto("done")
  /\ UNCHANGED <<queue, disk, procs, given, state, teardown, checked,
                 request, interrupted, failures, late, forced>>

(* raise TaskFailure(failed_tids): buildTaskData never passes tryaltconfigs *)
(* on to TaskData, so the other branch is not taken.                       *)
VerdictFailed ==
  /\ pc = "verdict" /\ state = "Failed"
  /\ failures' = Cardinality(failed_tids)
  /\ Goto("done")
  /\ UNCHANGED <<queue, disk, procs, given, state, teardown, checked,
                 request, interrupted, late, forced>>

(* A task's failure was read during the teardown.                          *)
VerdictCleanUp ==
  /\ pc = "verdict" /\ state = "CleanUp"
  /\ Goto("idle")
  /\ UNCHANGED <<queue, disk, procs, given, state, teardown, checked,
                 request, interrupted, failures, late, forced>>

-----------------------------------------------------------------------------
(* bitbake-worker and its children.                                        *)

(* handle_runtask, fork_off_task.                                          *)
Fork(t) ==
  /\ job[t] = "sent" /\ worker[WorkerOf(t)] = "up"
  /\ job' = [job EXCEPT ![t] = "run"]
  /\ UNCHANGED <<cooker, queue, disk, given, worker, finishnow, quit, crashes>>

(* exec_task ran the task's functions and writes the stamp; no task of the *)
(* repository sets the flag `selfstamp', which would leave it to the task. *)
ChildStamp(t) ==
  /\ job[t] = "run"
  /\ job' = [job EXCEPT ![t] = "stamped"]
  /\ IF t \in NoStamp THEN UNCHANGED disk ELSE make_stamp(t)
  /\ UNCHANGED <<cooker, queue, given, worker, finishnow, quit, crashes>>

(* The child exits; the worker reaps it and sends <exitcode>.              *)
ChildExit(t) ==
  /\ job[t] = "stamped"
  /\ job' = [job EXCEPT ![t] = "ok"]
  /\ UNCHANGED <<cooker, queue, disk, given, worker, finishnow, quit, crashes>>

(* The task fails, or make_stamp does after the stamp was written.         *)
ChildFail(t) ==
  /\ job[t] \in {"run", "stamped"} /\ t \in CanFail
  /\ job' = [job EXCEPT ![t] = "fail"]
  /\ UNCHANGED <<cooker, queue, disk, given, worker, finishnow, quit, crashes>>

Children(w) == {t \in Tasks : job[t] \in {"run", "stamped"} /\ WorkerOf(t) = w}

(* handle_finishnow: a killed child's status is swallowed (`lost') or      *)
(* reaped later (`fail'); one that has not called setsid() yet survives.   *)
FinishNow(w) ==
  /\ w \in finishnow /\ worker[w] = "up"
  /\ \E swallowed \in SUBSET Children(w) :
     \E killed \in SUBSET (Children(w) \ swallowed) :
       job' = [t \in Tasks |-> IF t \in swallowed THEN "lost"
                               ELSE IF t \in killed THEN "fail" ELSE job[t]]
  /\ finishnow' = finishnow \ {w}
  /\ UNCHANGED <<cooker, queue, disk, given, worker, quit, crashes>>

InWorkerOf(w) == {t \in Alive : WorkerOf(t) = w}

(* handle_quit: the worker exits, its children get SIGTERM.                *)
Quit(w) ==
  /\ w \in quit \ finishnow /\ worker[w] = "up"
  /\ worker' = [worker EXCEPT ![w] = "dead"]
  /\ job' = [t \in Tasks |-> IF t \in InWorkerOf(w) THEN "lost" ELSE job[t]]
  /\ UNCHANGED <<cooker, queue, disk, given, finishnow, quit, crashes>>

(* The worker is killed: with it go its children and the exit codes its    *)
(* writer thread has not flushed.                                          *)
Crash(w) ==
  /\ crashes < MaxCrash /\ worker[w] = "up"
  /\ crashes' = crashes + 1
  /\ worker' = [worker EXCEPT ![w] = "dead"]
  /\ \E unflushed \in SUBSET Unread(w) :
       job' = [t \in Tasks |-> IF t \in InWorkerOf(w) \cup unflushed
                               THEN "lost" ELSE job[t]]
  /\ UNCHANGED <<cooker, queue, disk, given, finishnow, quit>>

(* stateShutdown, stateForceShutdown: commands run between idle calls; the *)
(* last one counts.                                                        *)
Stop ==
  /\ CanStop /\ pc = "idle"
  /\ request' \in {"shutdown", "forceshutdown"} \ {request}
  /\ UNCHANGED <<queue, disk, procs, given, pc, reading, cont, state,
                 teardown, checked, interrupted, failures, late, forced>>

Over == pc \in {"done", "crashed"}
Terminated == Over /\ UNCHANGED vars

-----------------------------------------------------------------------------
Cooker ==
  \/ IdleRun \/ IdleShutdown \/ IdleForceShutdown \/ DiskLow \/ DiskFine
  \/ Execute \/ ReadNext \/ NothingToStart
  \/ \E t \in Tasks : \/ ReadComplete(t) \/ ReadFail(t)
                      \/ SkipCovered(t) \/ SkipExisting(t) \/ RunNoExec(t)
                      \/ SpawnFails(t) \/ Launch(t) \/ LaunchBroken(t)
  \/ Loop \/ CleanUp \/ Ended \/ Wait \/ Teardown \/ TeardownNext
  \/ VerdictComplete \/ VerdictFailed \/ VerdictCleanUp

Child(t) == Fork(t) \/ ChildStamp(t) \/ ChildExit(t) \/ ChildFail(t)
WorkerStep(w) == FinishNow(w) \/ Quit(w)

Next ==
  \/ Cooker
  \/ \E t \in Tasks : Child(t)
  \/ \E w \in Workers : WorkerStep(w) \/ Crash(w)
  \/ Stop
  \/ Terminated

Spec == Init /\ [][Next]_vars

(* The server's main loop always comes back to the idle callback, workers  *)
(* and children are ordinary processes (a task that never ends is outside  *)
(* the model), and a pipe that is read again and again delivers the next   *)
(* exit code in it.  Crashes, stops and low disks may never happen.        *)
Fairness ==
  /\ WF_vars(Cooker)
  /\ \A t \in Tasks : /\ WF_vars(Child(t))
                      /\ SF_vars(ReadComplete(t) \/ ReadFail(t))
  /\ \A w \in Workers : WF_vars(WorkerStep(w))

FairSpec == Spec /\ Fairness

-----------------------------------------------------------------------------
(* Properties.                                                             *)

Pcs    == {"idle", "dispatch", "execute", "read", "launch", "after", "ended",
           "teardown", "verdict", "done", "crashed"}
States == {"Running", "CleanUp", "Failed", "Complete"}
Stats  == [{"active", "completed", "skipped", "failed"} -> Int]

(* Types of the variables; stats.active may drop below zero because a      *)
(* failed start of the fakeroot worker is counted as a task that ended.    *)
TypeOK ==
  /\ pc \in Pcs /\ cont \in Pcs /\ reading \in Workers
  /\ state \in States
  /\ depends \in [Tasks -> SUBSET Tasks] /\ covered \subseteq Tasks
  /\ runq_buildable \subseteq Tasks /\ runq_running \subseteq Tasks
  /\ runq_complete \subseteq Tasks /\ failed_tids \subseteq Tasks
  /\ build_stamps \subseteq Tasks /\ existing \subseteq Tasks
  /\ stats \in Stats
  /\ late \in Nat /\ forced \in BOOLEAN
  /\ stamp \in [Tasks -> 0 .. New] /\ scene \in [Tasks -> 0 .. New]
  /\ job \in [Tasks -> JobStates]
  /\ worker \in [Workers -> {"none", "up", "dead"}]
  /\ finishnow \subseteq Workers /\ quit \subseteq Workers /\ crashes \in Nat
  /\ teardown \in BOOLEAN /\ checked \in BOOLEAN
  /\ request \in {"run", "shutdown", "forceshutdown"}
  /\ interrupted \in 0 .. 2 /\ failures \in Nat

(* t needs nothing more: it was skipped, or its child's zero exit code has *)
(* been read.                                                              *)
Settled(t) == \/ t \in covered \cup existing
              \/ job[t] = "read" /\ t \notin failed_tids
              \/ t \in NoExec /\ stamp[t] = New

(* A task reaches a worker only when each of its dependencies was skipped  *)
(* as covered or existing, is noexec, or ended with exit code 0 that the   *)
(* server has read (task_completeoutright, next_buildable_task).           *)
DepsSettled ==
  \A t \in Tasks : job[t] # "none" => \A d \in depends[t] : Settled(d)

(* Two tasks that share a stamp file (one work directory) never run at the *)
(* same time (build_stamps in next_buildable_task).                        *)
StampExclusive ==
  \A t, u \in Alive : t # u => StampOf[t] # StampOf[u]

(* There are never more task processes than BB_NUMBER_THREADS, whatever    *)
(* way the counter stats.active went.                                      *)
SlotsBound == Cardinality(Alive) <= NumberTasks

(* At most one task is still started after the build left the Running      *)
(* state: execute() picks one without looking at what its read changed.    *)
LateLaunch == late <= 1

(* A task skipped because its stamp is current is not older than a         *)
(* dependency of the same recipe that this build executed (check_stamp_    *)
(* task).                                                                  *)
StampSkipSound ==
  \A t \in existing : \A d \in depends[t] :
     FnOf[d] = FnOf[t] => stamp[d] # New /\ job[d] = "none"

(* execute() never reaches its sanity errors ("never buildable", "never    *)
(* ran", "never completed"): with nothing active, nothing failed and       *)
(* nothing left to start, every task is complete.                          *)
NeverStuck ==
  (pc = "launch" /\ Candidates = {} /\ stats.active = 0 /\ failed_tids = {})
    => runq_complete = Tasks

SpawnFailed == stats.failed > Cardinality(failed_tids)
Undisturbed == /\ interrupted = 0 /\ crashes = 0
               /\ ~checked /\ ~SpawnFailed

(* A build that reports no failures and was not stopped, cut short by the  *)
(* disk monitor, or robbed of a worker has completed every task.           *)
VerdictSound ==
  (pc = "done" /\ failures = 0 /\ Undisturbed) => runq_complete = Tasks

(* No worker died, nothing aborted the build at once, and, without -k, no  *)
(* fakeroot worker failed to start: then a failure read in the teardown    *)
(* leaves the state at CleanUp with a wrong stats.active, and it is over.  *)
Calm == /\ crashes = 0 /\ ~forced
        /\ ~(checked /\ DiskAction = "ABORT") /\ ~(SpawnFailed /\ Abort)

(* A calm build in which a task failed reports as many failures as there   *)
(* were (the TaskFailure raised by _execute_runqueue).                     *)
FailureReported ==
  (pc = "done" /\ failed_tids # {} /\ Calm)
    => failures = Cardinality(failed_tids)

(* -k builds as much as possible: at its verdict, a task that is not       *)
(* complete failed itself or depends on one that is not complete.          *)
ContinueAsFarAsPossible ==
  (pc \in {"verdict", "done"} /\ ~Abort /\ Undisturbed) =>
     \A t \in Tasks \ runq_complete :
        t \in failed_tids \/ ~(depends[t] \subseteq runq_complete)

(* When the build is reported finished no task process is left running.    *)
Quiescent == pc = "done" => Alive = {}

CompleteKept ==
  \A t \in runq_complete : /\ t \in runq_complete'
                           /\ stamp'[t] = stamp[t] /\ job'[t] = job[t]

(* What a completed task left behind is final: it is never run again and   *)
(* its stamp never changes under the tasks that compare theirs with it.    *)
CompleteIsFinal == [][CompleteKept]_vars

(* Every build ends, whatever fails, dies, fills up or is interrupted.     *)
Termination == <>Over

(* The abstract view of the queue: a task is running from the moment it is *)
(* given to a worker until its exit code is read, or is lost.              *)
status == [t \in Tasks |-> IF t \in runq_complete THEN "done"
                           ELSE IF t \in failed_tids THEN "failed"
                           ELSE IF job[t] = "lost" THEN "lost"
                           ELSE IF t \in build_stamps THEN "running"
                           ELSE "waiting"]

Schedule == INSTANCE BuildSchedule WITH graph <- depends

(* Every step of the server, the workers and the children is one that      *)
(* BuildSchedule allows: in dependency order, within the task limit, one   *)
(* task per stamp file, each settled once (RunQueueExecuteTasks).          *)
ImplementsSchedule == Schedule!Spec

(* What ties the queue's sets to the fate of the tasks given to workers:   *)
(* the inductive invariant behind the properties above.                    *)

(* A build_stamps entry lives exactly as long as its exit code is unread.  *)
StampsHeld ==
  /\ build_stamps = {t \in Tasks : job[t] \notin {"none", "read"}}
  /\ \A t, u \in build_stamps : t # u => StampOf[t] # StampOf[u]

(* Complete tasks ran, running ones were buildable, buildable ones have    *)
(* every dependency complete.                                              *)
QueueOrder ==
  /\ runq_complete \subseteq runq_running
  /\ runq_running \subseteq runq_buildable
  /\ \A t \in runq_buildable : depends[t] \subseteq runq_complete
  /\ \A t \in Tasks : job[t] # "none" => t \in runq_running

Verdicts ==
  /\ \A t \in failed_tids : job[t] = "read" /\ t \notin runq_complete
  /\ \A t \in runq_complete : job[t] \in {"none", "read"} /\ Settled(t)

(* Where the code still relies on it, stats.active counts the tasks whose  *)
(* exit code is unread; they never outnumber the threads.                  *)
Counting == state = "Running" \/ pc = "launch" \/ (pc = "read" /\ cont = "launch")
SlotsCounted ==
  /\ Counting => stats.active = Cardinality(build_stamps)
  /\ Cardinality(build_stamps) <= NumberTasks

(* The server's bookkeeping agrees with what the workers hold.             *)
QueueInv == StampsHeld /\ QueueOrder /\ Verdicts /\ SlotsCounted
=============================================================================
