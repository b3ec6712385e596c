----------------------------- MODULE SceneQueue -----------------------------
(***************************************************************************)
(* The setscene phase of a build: RunQueueExecuteScenequeue, from its      *)
(* collapsed graph to the skip list that RunQueueExecuteTasks.__init__     *)
(* derives from its outcome.  A setscene task fetches what an ordinary     *)
(* task would build; those nearest to the targets go first, so that what   *)
(* only they use need not be fetched at all.                               *)
(*                                                                         *)
(* As in RunQueue the server is one thread, `pc' is its place in the idle  *)
(* callback, and workers act between any two of its steps.  One worker     *)
(* stands for the worker and the fakeroot worker.                          *)
(***************************************************************************)
EXTENDS SceneGraph, Integers

CONSTANTS
  Targets,      \* possible sets rqdata.target_tids
  HardDeps,     \* possible [Setscene -> SUBSET Setscene]: setscene idepends
  Uses,         \* possible sets of <<s, t>>: what s fetched is no good without t
  Found,        \* possible sets of setscene tasks with a setscene stamp
  Built,        \* possible sets of tasks whose ordinary stamp is current
  Available,    \* possible answers of BB_HASHCHECK_FUNCTION
  HashModes,    \* subset of BOOLEAN: whether that function is set
  Configures,   \* <<c, s>>: s = do_populate_sysroot, c = do_configure of a recipe
  NoExec,       \* tasks without anything to execute
  Enforced,     \* setscene tasks BB_SETSCENE_ENFORCE_WHITELIST does not excuse
  StampOf,      \* stamp file of a setscene task (noextra=True: may be shared)
  Forced,       \* -f
  OnlyModes,    \* subset of BOOLEAN: --setscene-only, which is read once
  NumberTasks,  \* BB_NUMBER_THREADS
  CanStop,      \* whether the user may interrupt
  MaxCrash      \* bound: worker deaths

ASSUME HardDepsType == HardDeps \subseteq [Setscene -> SUBSET Setscene]
(* useradd.bbclass declares such dependencies, and base.bbclass that of    *)
(* do_package_setscene on fakeroot's do_populate_sysroot; the tasks they   *)
(* name have none of their own.                                            *)
ASSUME HardDepsFlat == \A h \in HardDeps : \A t \in Setscene :
                         \A u \in h[t] : h[u] = {}
ASSUME UsesType == Uses \subseteq SUBSET (Setscene \X Setscene)
ASSUME StampSetsType == /\ Found \subseteq SUBSET Setscene
                        /\ Available \subseteq SUBSET Setscene
                        /\ Built \subseteq SUBSET Tasks
ASSUME FlagsType == /\ HashModes \subseteq BOOLEAN
                    /\ OnlyModes \subseteq BOOLEAN /\ {Forced, CanStop} \subseteq BOOLEAN
                    /\ Configures \subseteq Tasks \X Setscene
                    /\ Targets \subseteq SUBSET Tasks /\ NoExec \subseteq Tasks
                    /\ Enforced \subseteq Setscene
ASSUME BoundsType == NumberTasks \in Nat \ {0} /\ MaxCrash \in Nat

VARIABLES
  target_tids, idepends, uses, scened, built, hashvalidate, available, \* givens
  order,          \* self.sq_revdeps: what a setscene task waits for
  sq_revdeps2,    \* what it still waits for
  unskippable,
  scenequeue_covered, scenequeue_notcovered, scenequeue_notneeded,
  runq_buildable, runq_running,
  build_stamps,   \* keys of build_stamps: setscene tasks given to a worker
  active,         \* stats.active
  outrightfail,
  job,            \* fate of a setscene task given to the worker
  worker,         \* "up", "dead" or "none"
  crashes,        \* history: worker deaths
  pc, cont,       \* the server's place, and where it goes after a read
  state,          \* rq.state
  request,        \* cooker.state
  stopped,        \* history: the callback has seen a stop request
  skip,           \* rq.scenequeue_covered as RunQueueExecuteTasks changes it
  initial_covered,
  toremove        \* tasks setsceneverify wants run, and what they depend on

givens == <<depends, target_tids, idepends, uses, scened, built, hashvalidate, available>>
queue  == <<sq_revdeps2, scenequeue_covered, scenequeue_notcovered,
            scenequeue_notneeded, runq_buildable, runq_running, outrightfail,
            order, unskippable>>
procs  == <<job, worker, crashes>>
slots  == <<build_stamps, active>>
cooker == <<pc, cont, state, request, stopped>>
cover  == <<skip, initial_covered, toremove>>
collapse == <<sq_revdeps, sq_revdeps_new, endpoints, newendpoints>>
vars   == <<givens, queue, procs, slots, cooker, cover, collapse>>

-----------------------------------------------------------------------------
(* self.sq_harddeps, and self.sq_revdeps as __init__ completes it.         *)
hardfor(t) == {s \in Setscene : t \in idepends[s]}

WaitsFor(t) == (IF hardfor(t) # {} THEN {} ELSE sq_revdeps_new[t]) \cup idepends[t]

(* Setscene tasks that a failure of t takes with it.                       *)
Doomed(t) ==
  Least(Setscene, LAMBDA S : t \in S /\ \A u \in S : hardfor(u) \subseteq S)

(* Mutated form: a failure releases the tasks that cannot do without.      *)
StillWaits_Soft(s, gone, fail) == sq_revdeps2[s] \ gone

(* What s waits for when every task in `gone' is settled; a hard           *)
(* dependency that failed is waited for for ever.                          *)
StillWaits(s, gone, fail) ==
  {u \in sq_revdeps2[s] : u \notin gone \/ (fail /\ u \in idepends[s])}

(* scenequeue_updatecounters, for the tasks in `gone'.                     *)
updatecounters(gone, fail, also) ==
  /\ sq_revdeps2' = [s \in Setscene |-> StillWaits(s, gone, fail)]
  /\ runq_buildable' = runq_buildable \cup also
       \cup {s \in Setscene : /\ sq_revdeps2[s] # StillWaits(s, gone, fail)
                              /\ StillWaits(s, gone, fail) = {}}

task_completeoutright(t, also) ==
  /\ scenequeue_covered' = scenequeue_covered \cup {t}
  /\ updatecounters({t}, FALSE, also)
  /\ UNCHANGED <<scenequeue_notcovered, order, unskippable>>

failed(t, also) ==
  /\ scenequeue_notcovered' = scenequeue_notcovered \cup {t}
  /\ updatecounters(Doomed(t), TRUE, also)
  /\ UNCHANGED <<scenequeue_covered, order, unskippable>>

(* In both, stats.active is lowered and raised again.                      *)
task_skip(t) == /\ runq_running' = runq_running \cup {t}
                /\ task_completeoutright(t, {t})
task_failoutright(t) == /\ runq_running' = runq_running \cup {t}
                        /\ failed(t, {t})

(* Mutated form: a dependent that failed does not keep t.                  *)
NotNeeded_AnyDep(t) ==
  /\ t \notin unskippable /\ order[t] # {} /\ t \notin target_tids
  /\ \A s \in order[t] \ scenequeue_notneeded : <<s, t>> \notin uses

(* Everything that waited is covered and, says setscene_depvalid, none of  *)
(* it that was fetched needs t.  That it may look at the other dependents  *)
(* of t to say so is left out: uses is a relation.                         *)
NotNeeded(t) ==
  /\ t \notin unskippable /\ order[t] # {} /\ t \notin target_tids
  /\ order[t] \subseteq scenequeue_covered
  /\ \A s \in order[t] \ scenequeue_notneeded : <<s, t>> \notin uses

Candidates ==
  IF active >= NumberTasks THEN {}
  ELSE {t \in (runq_buildable \ runq_running) \cap Setscene :
          \A u \in build_stamps : StampOf[u] # StampOf[t]}

-----------------------------------------------------------------------------
Init ==
  /\ GraphInit
  /\ target_tids \in Targets /\ idepends \in HardDeps /\ uses \in Uses
  /\ scened \in Found /\ built \in Built
  /\ hashvalidate \in HashModes
  /\ available \in IF hashvalidate THEN Available ELSE {{}}
  /\ order = [t \in Setscene |-> {}] /\ unskippable = {}
  /\ sq_revdeps2 = [t \in Setscene |-> {}]
  /\ scenequeue_covered = {} /\ scenequeue_notcovered = {}
  /\ scenequeue_notneeded = {}
  /\ runq_buildable = {} /\ runq_running = {} /\ outrightfail = {}
  /\ build_stamps = {} /\ active = 0
  /\ job = [t \in Setscene |-> "none"] /\ worker = "up" /\ crashes = 0
  /\ pc = "collapse" /\ cont = "idle" /\ state = "SceneInit"
  /\ request = "run" /\ stopped = FALSE
  /\ skip = {} /\ initial_covered = {} /\ toremove = {}

Goto(p) == pc' = p /\ UNCHANGED cont

Collapse ==
  /\ pc = "collapse" /\ Process
  /\ UNCHANGED <<target_tids, idepends, uses, scened, built, hashvalidate, available,
                 queue, procs, slots, cooker, cover>>

(* What __init__ finds done already.                                       *)
Present == IF hashvalidate THEN (NoExec \cup scened \cup built) \cap Setscene ELSE {}

SceneInit ==
  /\ pc = "collapse" /\ Collapsed
  /\ order' = [t \in Setscene |-> WaitsFor(t)]
  /\ unskippable' = Unskippable
  /\ sq_revdeps2' = [t \in Setscene |-> WaitsFor(t) \ Present]
  /\ scenequeue_covered' = Present
  /\ runq_running' = Present
  /\ runq_buildable' = Present \cup {t \in Setscene : WaitsFor(t) \subseteq Present}
  /\ scened' = IF hashvalidate THEN scened \cup (NoExec \cap Setscene) ELSE scened
  /\ outrightfail' = IF hashvalidate THEN Setscene \ (available \cup Present) ELSE {}
  /\ state' = IF Setscene = {} THEN "RunInit" ELSE "SceneRun"
  /\ Goto("dispatch")
  /\ UNCHANGED <<depends, target_tids, idepends, uses, built, hashvalidate, available,
                 scenequeue_notcovered, scenequeue_notneeded, procs, slots,
                 request, stopped, cover, collapse>>

-----------------------------------------------------------------------------
(* The callback, as in RunQueue.                                           *)

(* Mutated form: nobody looks whether the worker is still there.           *)
Poll_Blind(s) == state' = s

(* The poll in runQueuePipe.read: finish_now, with no failed_tids ever.    *)
Poll(s) == state' = IF worker = "dead" THEN "Complete" ELSE s
read_workers(s, c) == /\ pc' = "read" /\ cont' = c
                      /\ Poll(s)

finish(c) ==
  IF active > 0 /\ worker # "none"
    THEN read_workers("CleanUp", c)
    ELSE /\ state' = IF active > 0 THEN "CleanUp" ELSE "Complete"
         /\ Goto(c)

Idle ==
  /\ pc = "idle"
  /\ \/ request = "run" /\ Goto("dispatch") /\ UNCHANGED <<state, stopped>>
     \/ request = "shutdown" /\ finish("dispatch") /\ stopped' = TRUE
     \/ /\ request = "forceshutdown" /\ stopped' = TRUE
        /\ state' = "Complete" /\ Goto("dispatch")
  /\ UNCHANGED <<givens, queue, procs, slots, request, cover, collapse>>

(* Mutated form: a stop is noticed only when nothing is left to fetch.     *)
MayExecute_Late == state \in {"SceneRun", "CleanUp"}

MayExecute == state = "SceneRun"

Execute ==
  /\ pc = "dispatch"
  /\ IF MayExecute THEN read_workers(state, "launch")
                   ELSE Goto("after") /\ UNCHANGED state
  /\ UNCHANGED <<givens, queue, procs, slots, request, stopped, cover, collapse>>

Reading == pc \in {"read", "teardown"}

ReadComplete(t) ==
  /\ Reading /\ job[t] = "ok"
  /\ job' = [job EXCEPT ![t] = "read"]
  /\ build_stamps' = build_stamps \ {t} /\ active' = active - 1
  /\ task_completeoutright(t, {})
  /\ UNCHANGED <<givens, scenequeue_notneeded, runq_running, outrightfail,
                 worker, crashes, cooker, cover, collapse>>

(* task_fail and check_taskfail; failed_tids is left alone.                *)
ReadFail(t) ==
  /\ Reading /\ job[t] = "fail"
  /\ job' = [job EXCEPT ![t] = "read"]
  /\ build_stamps' = build_stamps \ {t} /\ active' = active - 1
  /\ failed(t, {})
  /\ state' = IF t \in Enforced THEN "CleanUp" ELSE state
  /\ UNCHANGED <<givens, scenequeue_notneeded, runq_running, outrightfail,
                 worker, crashes, pc, cont, request, stopped, cover, collapse>>

ReadNext ==
  /\ pc = "read" /\ Goto(cont)
  /\ UNCHANGED <<givens, queue, procs, slots, state, request, stopped, cover,
                 collapse>>

-----------------------------------------------------------------------------
(* execute(): the first task of the list that may start; the list has no   *)
(* order that matters here.  check_dependencies adds t to its own          *)
(* sq_revdeps, but t is settled or started before they are read again.     *)

CanStart(t) == pc = "launch" /\ t \in Candidates

Settled == /\ Goto("after")
           /\ UNCHANGED <<givens, procs, slots, state, request, stopped, cover,
                          collapse, outrightfail>>

SkipUnneeded(t) ==
  /\ CanStart(t) /\ NotNeeded(t)
  /\ task_skip(t)
  /\ scenequeue_notneeded' = scenequeue_notneeded \cup {t}
  /\ Settled

Wanted(t) == CanStart(t) /\ ~NotNeeded(t)

(* No artefact, an ordinary stamp that is current, or -f on a target.      *)
Outright == outrightfail \cup built \cup (IF Forced THEN target_tids ELSE {})

FailOutright(t) ==
  /\ Wanted(t) /\ t \in Outright
  /\ task_failoutright(t)
  /\ Settled /\ UNCHANGED scenequeue_notneeded

Fetches(t) == Wanted(t) /\ t \notin Outright

SkipScened(t) ==
  /\ Fetches(t) /\ t \in scened
  /\ task_skip(t)
  /\ Settled /\ UNCHANGED scenequeue_notneeded

Launch(t) ==
  /\ Fetches(t) /\ t \notin scened /\ worker = "up"
  /\ job' = [job EXCEPT ![t] = "sent"]
  /\ build_stamps' = build_stamps \cup {t} /\ active' = active + 1
  /\ runq_running' = runq_running \cup {t}
  /\ IF active + 1 < NumberTasks THEN Goto("after") /\ UNCHANGED state
                                 ELSE read_workers(state, "after")
  /\ UNCHANGED <<givens, sq_revdeps2, scenequeue_covered, scenequeue_notcovered,
                 scenequeue_notneeded, runq_buildable, outrightfail, order, unskippable, worker,
                 crashes, request, stopped, cover, collapse>>

(* Writing to a dead worker raises; execute_runqueue ends the build.       *)
LaunchBroken(t) ==
  /\ Fetches(t) /\ t \notin scened /\ worker = "dead"
  /\ Goto("crashed") /\ state' = "Complete"
  /\ worker' = "none"
  /\ UNCHANGED <<givens, queue, slots, job, crashes, request, stopped, cover,
                 collapse>>

(* Nothing to start.  The state that a failure or a dead worker left is    *)
(* overwritten when nothing is active either.                              *)
NothingToStart ==
  /\ pc = "launch" /\ Candidates = {}
  /\ IF active > 0 THEN read_workers(state, "after")
                   ELSE state' = "RunInit" /\ Goto("after")
  /\ UNCHANGED <<givens, queue, procs, slots, request, stopped, cover, collapse>>

-----------------------------------------------------------------------------
(* The rest of _execute_runqueue.                                          *)

Loop ==
  /\ pc = "after" /\ state = "SceneRun"
  /\ Goto("idle")
  /\ UNCHANGED <<givens, queue, procs, slots, state, request, stopped, cover,
                 collapse>>

CleanUp ==
  /\ pc = "after" /\ state = "CleanUp"
  /\ finish("ended")
  /\ UNCHANGED <<givens, queue, procs, slots, request, stopped, cover, collapse>>

Wait ==
  /\ pc = "ended" /\ state = "CleanUp"
  /\ Goto(IF worker = "none" THEN "done" ELSE "idle")
  /\ UNCHANGED <<givens, queue, procs, slots, state, request, stopped, cover,
                 collapse>>

Teardown ==
  /\ pc \in {"after", "ended"} /\ state = "Complete"
  /\ Goto(IF worker = "none" THEN "done" ELSE "teardown")
  /\ UNCHANGED <<givens, queue, procs, slots, state, request, stopped, cover,
                 collapse>>

(* The worker has quit, its children are gone and its pipe is drained.     *)
TornDown ==
  /\ pc = "teardown" /\ \A t \in Setscene : job[t] \notin {"ok", "fail"}
  /\ worker' = "none"
  /\ job' = [t \in Setscene |-> IF job[t] = "sent" THEN "lost" ELSE job[t]]
  /\ Goto(IF state = "CleanUp" THEN "idle" ELSE "done")
  /\ UNCHANGED <<givens, queue, slots, crashes, state, request, stopped, cover,
                 collapse>>

-----------------------------------------------------------------------------
(* RunQueueExecuteTasks.__init__: the skip list.                           *)

UsedOnlyBy(t, covered) == revdeps(t) # {} /\ revdeps(t) \subseteq covered

(* What the first loop may add, in whatever order the dictionary has: all  *)
(* that qualifies at once, and some of what qualifies through that.        *)
FirstLoop(covered) ==
  {more \in SUBSET Tasks :
     /\ {t \in Tasks : UsedOnlyBy(t, covered)} \subseteq more
     /\ \A t \in more : UsedOnlyBy(t, covered \cup more)}

RunInit ==
  /\ pc = "after" /\ state = "RunInit"
  /\ \/ /\ TRUE \in OnlyModes /\ state' = "Complete"
        /\ UNCHANGED <<pc, cont, cover>>
     \/ /\ FALSE \in OnlyModes /\ initial_covered' = scenequeue_covered
        /\ \E more \in FirstLoop(scenequeue_covered) :
             skip' = scenequeue_covered \cup more
        /\ Goto("cover") /\ UNCHANGED <<state, toremove>>
  /\ UNCHANGED <<givens, queue, procs, slots, request, stopped, collapse>>

(* The while loop: no task that failed is added any more.                  *)
CoverMore(covered) ==
  Least(Tasks, LAMBDA S : /\ covered \subseteq S
                          /\ \A t \in Tasks \ scenequeue_notcovered :
                               UsedOnlyBy(t, S) => t \in S)

(* Tasks whose stamps do not let them pass as done.                        *)
invalidtasks == Tasks \ (NoExec \cup scened \cup built
                         \cup {t \in Setscene : job[t] = "read"
                                            /\ t \in scenequeue_covered})

(* sysroot_checkhashes2: sysroots of recipes that will be configured anew. *)
setsceneverify(covered) ==
  {s \in covered : \E c \in invalidtasks \ covered : <<c, s>> \in Configures}

Covered ==
  /\ pc = "cover"
  /\ skip' = CoverMore(skip)
  /\ toremove' = setsceneverify(CoverMore(skip))
  /\ Goto("verify")
  /\ UNCHANGED <<givens, queue, procs, slots, state, request, stopped,
                 initial_covered, collapse>>

(* Mutated form: what a task that is to run depends on stays covered.      *)
AlsoRemoved_None == {}

AlsoRemoved ==
  {t \in UNION {depends[u] : u \in toremove} :
     t \in skip \ (toremove \cup initial_covered)}

(* One round of removecoveredtask, which deletes setscene stamps too.      *)
Remove ==
  /\ pc = "verify" /\ toremove # {}
  /\ skip' = skip \ toremove
  /\ scened' = scened \ toremove
  /\ toremove' = AlsoRemoved
  /\ UNCHANGED <<depends, target_tids, idepends, uses, built, hashvalidate, available, queue,
                 procs, slots, cooker, initial_covered, collapse>>

(* RunQueueExecuteTasks.execute takes over.                                *)
HandOver ==
  /\ pc = "verify" /\ toremove = {}
  /\ Goto("tasks") /\ state' = "Running"
  /\ UNCHANGED <<givens, queue, procs, slots, request, stopped, cover, collapse>>

-----------------------------------------------------------------------------
(* The worker and its children.                                            *)

ChildExit(t, code) ==
  /\ job[t] = "sent" /\ worker = "up"
  /\ job' = [job EXCEPT ![t] = code]
  /\ UNCHANGED <<givens, queue, slots, worker, crashes, cooker, cover, collapse>>

(* The worker dies with its children and what it has not written.          *)
Crash ==
  /\ crashes < MaxCrash /\ worker = "up"
  /\ worker' = "dead" /\ crashes' = crashes + 1
  /\ \E unwritten \in SUBSET {t \in Setscene : job[t] \in {"ok", "fail"}} :
       job' = [t \in Setscene |-> IF t \in unwritten \/ job[t] = "sent"
                                  THEN "lost" ELSE job[t]]
  /\ UNCHANGED <<givens, queue, slots, cooker, cover, collapse>>

Stop ==
  /\ CanStop /\ pc = "idle"
  /\ request' \in {"shutdown", "forceshutdown"} \ {request}
  /\ UNCHANGED <<givens, queue, procs, slots, pc, cont, state, stopped, cover,
                 collapse>>

Over == pc \in {"tasks", "done", "crashed"}
Terminated == Over /\ UNCHANGED vars

Server ==
  \/ Collapse \/ SceneInit \/ Idle \/ Execute \/ ReadNext \/ NothingToStart
  \/ \E t \in Setscene : \/ ReadComplete(t) \/ ReadFail(t)
                         \/ SkipUnneeded(t) \/ FailOutright(t) \/ SkipScened(t)
                         \/ Launch(t) \/ LaunchBroken(t)
  \/ Loop \/ CleanUp \/ Wait \/ Teardown \/ TornDown
  \/ RunInit \/ Covered \/ Remove \/ HandOver

Child(t) == \E code \in {"ok", "fail"} : ChildExit(t, code)

Next == Server \/ (\E t \in Setscene : Child(t)) \/ Crash \/ Stop \/ Terminated

Spec == Init /\ [][Next]_vars

(* As in RunQueue: the idle callback is called again, children end, and a  *)
(* pipe that is read again and again delivers what is in it.               *)
Fairness == /\ WF_vars(Server)
            /\ \A t \in Setscene : /\ WF_vars(Child(t))
                                   /\ SF_vars(ReadComplete(t) \/ ReadFail(t))

FairSpec == Spec /\ Fairness

-----------------------------------------------------------------------------
(* Properties.                                                             *)

Pcs == {"collapse", "idle", "dispatch", "read", "launch", "after", "ended",
        "teardown", "cover", "verify", "tasks", "done", "crashed"}

(* Types of the variables.                                                 *)
TypeOK ==
  /\ sq_revdeps2 \in [Setscene -> SUBSET Setscene]
  /\ order \in [Setscene -> SUBSET Setscene] /\ unskippable \subseteq Setscene
  /\ {scenequeue_covered, scenequeue_notcovered, scenequeue_notneeded,
      runq_buildable, runq_running, build_stamps, outrightfail}
       \subseteq SUBSET Setscene
  /\ active \in Int /\ crashes \in Nat /\ stopped \in BOOLEAN
  /\ job \in [Setscene -> {"none", "sent", "ok", "fail", "read", "lost"}]
  /\ worker \in {"up", "dead", "none"}
  /\ pc \in Pcs /\ cont \in {"idle", "dispatch", "launch", "after", "ended"}
  /\ state \in {"SceneInit", "SceneRun", "RunInit", "Running", "CleanUp", "Complete"}
  /\ {skip, initial_covered, toremove} \subseteq SUBSET Tasks

(* Artefacts that are really there: fetched, or found.                     *)
Fetched == scenequeue_covered \ scenequeue_notneeded

(* The collapsed graph is right before anything is decided with it.        *)
GraphSound == pc = "collapse" => CollapseSound

(* When the skip list is handed over, no task that is to run depends on a  *)
(* skipped one that is not there, unless setsceneverify took tasks back.   *)
NoHole ==
  (pc = "tasks" /\ initial_covered \subseteq skip) =>
    \A u \in Tasks \ skip : depends[u] \cap skip \subseteq Fetched

(* What setsceneverify takes back pulls along what that depends on, but    *)
(* for what the setscene phase had covered.                                *)
TakenBackWhole ==
  pc = "tasks" =>
    \A u \in Tasks \ skip : depends[u] \cap skip \subseteq initial_covered

(* NoHole whatever setsceneverify did.                                     *)
NoHoleVerified ==
  pc = "tasks" => \A u \in Tasks \ skip : depends[u] \cap skip \subseteq Fetched

(* A setscene task runs only with its hard dependencies there.             *)
HardDepsThere ==
  \A t \in Setscene : job[t] # "none" => idepends[t] \subseteq Fetched

(* Once the callback has seen a stop request no ordinary task is begun.    *)
StopHonoured == stopped => pc \notin {"cover", "verify", "tasks"}

(* The phase ends.                                                         *)
SceneEnds == <>Over
=============================================================================
