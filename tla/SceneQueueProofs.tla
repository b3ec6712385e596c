-------------------------- MODULE SceneQueueProofs --------------------------
(***************************************************************************)
(* Proofs about SceneQueue for any tasks, graphs, hard dependencies that   *)
(* are flat, stamps, artefacts and options.  Each property has an          *)
(* invariant of its own:                                                   *)
(*   DepsInv    a hard dependency is waited for or there, and what may     *)
(*              start waits for nothing;                                   *)
(*   StopInv    from a stop request on the state is CleanUp or Complete;   *)
(*   CoverInv   what the loops add to the skip list is used by skipped     *)
(*              tasks only, and toremove holds what is yet to be taken     *)
(*              back;                                                      *)
(*   NotMissed  what was skipped as not needed is shielded from whatever   *)
(*              may run by tasks that are covered;                         *)
(*   SkipList   all that uses it is on the skip list in the end.           *)
(* The last two rest on SceneGraphProofs and on a graph without a circle.  *)
(***************************************************************************)
EXTENDS SceneQueue, SceneGraphProofs, TLAPS

(* The types of the build's givens; of the graph, SceneGraphProofs.        *)
GivenType ==
  /\ idepends \in [Setscene -> SUBSET Setscene]
  /\ \A t \in Setscene : \A u \in idepends[t] : idepends[u] = {}
  /\ scened \subseteq Setscene /\ available \subseteq Setscene

Types == TypeOK /\ GraphType /\ GivenType

-----------------------------------------------------------------------------
(* What is derived from the graph.                                         *)

LEMMA WaitsForType ==
  ASSUME GraphType, GivenType
  PROVE  \A t \in Setscene : WaitsFor(t) \subseteq Setscene
  BY SetsceneType DEF WaitsFor, GraphType, GivenType

LEMMA UnskippableType == Unskippable \subseteq Setscene
  BY DEF Unskippable

LEMMA PresentType == Present \subseteq Setscene
  BY DEF Present

-----------------------------------------------------------------------------
(* Types.                                                                  *)

LEMMA InitTypes == Init => Types
<1> SUFFICES ASSUME Init PROVE Types
  OBVIOUS
<1> USE SetsceneType, GraphsType, HardDepsType, HardDepsFlat, StampSetsType
<1>1. TypeOK
  <2>1. stopped \in BOOLEAN
    BY DEF Init
  <2> QED BY <2>1 DEF Init, TypeOK, Pcs
<1>2. depends \in [Tasks -> SUBSET Tasks]
  BY DEF Init, GraphInit
<1>3. Roots \cup Below \subseteq Tasks
  BY <1>2 DEF Roots, Below
<1>4. GraphType
  BY <1>2, <1>3 DEF Init, GraphInit, GraphType, Empty
<1>5. GivenType
  BY DEF Init, GivenType
<1> QED BY <1>1, <1>4, <1>5 DEF Types

(* The actions that touch neither the queue, the workers nor the skip list. *)
Server0 == \/ Idle \/ Execute \/ ReadNext \/ NothingToStart \/ Loop \/ CleanUp
           \/ Wait \/ Teardown \/ HandOver \/ Stop

LEMMA ReadTypes ==
  ASSUME Types, NEW t \in Setscene, ReadComplete(t) \/ ReadFail(t)
  PROVE  TypeOK'
<1>1. CASE ReadComplete(t)
  BY <1>1 DEF Types, TypeOK, ReadComplete, task_completeoutright, updatecounters,
              StillWaits, procs, cooker, cover
<1>2. CASE ReadFail(t)
  BY <1>2 DEF Types, TypeOK, ReadFail, failed, updatecounters, StillWaits, procs,
              cover
<1> QED BY <1>1, <1>2

LEMMA SettleTypes ==
  ASSUME Types, NEW t \in Setscene,
         SkipUnneeded(t) \/ FailOutright(t) \/ SkipScened(t)
  PROVE  TypeOK'
<1>1. CASE SkipUnneeded(t)
  BY <1>1 DEF Types, TypeOK, SkipUnneeded, Settled, task_skip,
              task_completeoutright, updatecounters, StillWaits, Goto, Pcs,
              procs, slots, cover
<1>2. CASE FailOutright(t)
  BY <1>2 DEF Types, TypeOK, FailOutright, Settled, task_failoutright, failed,
              updatecounters, StillWaits, Goto, Pcs, procs, slots, cover
<1>3. CASE SkipScened(t)
  BY <1>3 DEF Types, TypeOK, SkipScened, Settled, task_skip,
              task_completeoutright, updatecounters, StillWaits, Goto, Pcs,
              procs, slots, cover
<1> QED BY <1>1, <1>2, <1>3

LEMMA LaunchTypes ==
  ASSUME Types, NEW t \in Setscene, Launch(t) \/ LaunchBroken(t)
  PROVE  TypeOK'
<1>1. CASE Launch(t)
  BY <1>1 DEF Types, TypeOK, Launch, read_workers, Poll, Goto, Pcs, cover
<1>2. CASE LaunchBroken(t)
  BY <1>2 DEF Types, TypeOK, LaunchBroken, Goto, Pcs, queue, slots, cover
<1> QED BY <1>1, <1>2

LEMMA ServerTypes == ASSUME Types, Server0 PROVE TypeOK'
<1> USE DEF Types, TypeOK, queue, procs, slots, cover
<1>1. CASE Idle
  BY <1>1 DEF Idle, finish, read_workers, Poll, Goto, Pcs
<1>2. CASE Execute \/ NothingToStart
  BY <1>2 DEF Execute, NothingToStart, read_workers, Poll, Goto, Pcs
<1>3. CASE ReadNext
  BY <1>3 DEF ReadNext, Goto, Pcs
<1>4. CASE Loop \/ Wait \/ Teardown
  BY <1>4 DEF Loop, Wait, Teardown, Goto, Pcs
<1>5. CASE CleanUp
  BY <1>5 DEF CleanUp, finish, read_workers, Poll, Goto, Pcs
<1>6. CASE HandOver \/ Stop
  BY <1>6 DEF HandOver, Stop, Goto, Pcs
<1> QED BY <1>1, <1>2, <1>3, <1>4, <1>5, <1>6 DEF Server0

LEMMA WorkerTypes ==
  ASSUME Types, TornDown \/ Crash \/ \E t \in Setscene : Child(t)
  PROVE  TypeOK'
<1> USE DEF Types, TypeOK, queue, slots, cover
<1>1. CASE TornDown
  BY <1>1 DEF TornDown, Goto, Pcs
<1>2. CASE Crash
  BY <1>2 DEF Crash, cooker
<1>3. ASSUME NEW t \in Setscene, Child(t) PROVE TypeOK'
  BY <1>3 DEF Child, ChildExit, cooker
<1> QED BY <1>1, <1>2, <1>3

LEMMA SceneTypes ==
  ASSUME Types, Collapse \/ SceneInit
  PROVE  TypeOK'
<1> USE DEF Types, TypeOK
<1>1. CASE Collapse
  BY <1>1 DEF Collapse, queue, procs, slots, cooker, cover
<1>2. CASE SceneInit
  BY <1>2, WaitsForType, UnskippableType, PresentType
     DEF SceneInit, procs, slots, cover, Goto, Pcs
<1> QED BY <1>1, <1>2

LEMMA CoverTypes ==
  ASSUME Types, RunInit \/ Covered \/ Remove
  PROVE  TypeOK'
<1> USE SetsceneType DEF Types, TypeOK
<1>1. CASE RunInit
  BY <1>1 DEF RunInit, FirstLoop, Goto, Pcs, queue, procs, slots, cover
<1>2. CASE Covered
  <2>1. CoverMore(skip) \subseteq Tasks
    BY DEF CoverMore, Least
  <2> QED BY <1>2, <2>1
          DEF Covered, setsceneverify, Goto, Pcs, queue, procs, slots, cover
<1>3. CASE Remove
  BY <1>3 DEF Remove, AlsoRemoved, queue, procs, slots, cooker
<1> QED BY <1>1, <1>2, <1>3

(* What a setscene task undergoes when the server reads or picks it.       *)
Task(t) == \/ ReadComplete(t) \/ ReadFail(t)
           \/ SkipUnneeded(t) \/ FailOutright(t) \/ SkipScened(t)
           \/ Launch(t) \/ LaunchBroken(t)

LEMMA NextCases ==
  ASSUME [Next]_vars
  PROVE  \/ Collapse \/ SceneInit \/ Server0
         \/ \E t \in Setscene : Task(t)
         \/ RunInit \/ Covered \/ Remove
         \/ TornDown \/ Crash \/ \E t \in Setscene : Child(t)
         \/ UNCHANGED vars
  BY DEF Next, Server, Server0, Task, Terminated

LEMMA SameGivens ==
  ASSUME \/ Server0 \/ RunInit \/ Covered \/ TornDown \/ Crash
         \/ \E t \in Setscene : Task(t) \/ Child(t)
         \/ UNCHANGED vars
  PROVE  UNCHANGED <<givens, collapse>>
<1>1. CASE Server0
  BY <1>1 DEF Server0, Idle, Execute, ReadNext, NothingToStart, Loop, CleanUp,
              Wait, Teardown, HandOver, Stop
<1>2. CASE \E t \in Setscene : Task(t)
  BY <1>2 DEF Task, ReadComplete, ReadFail, SkipUnneeded, FailOutright, SkipScened,
              Settled, Launch, LaunchBroken
<1>3. CASE RunInit \/ Covered \/ TornDown \/ Crash
  BY <1>3 DEF RunInit, Covered, TornDown, Crash
<1>4. CASE \E t \in Setscene : Child(t)
  BY <1>4 DEF Child, ChildExit
<1>5. CASE UNCHANGED vars
  BY <1>5 DEF vars
<1> QED BY <1>1, <1>2, <1>3, <1>4, <1>5

LEMMA SameGivenTypes ==
  ASSUME Types, UNCHANGED <<givens, collapse>>
  PROVE  GraphType' /\ GivenType'
  BY DEF Types, GraphType, GivenType, givens, collapse

LEMMA TypesStep == ASSUME Types, [Next]_vars PROVE Types'
<1>1. CASE Collapse
  <2>1. Process /\ UNCHANGED <<idepends, scened, available>>
    BY <1>1 DEF Collapse
  <2> QED BY <1>1, <2>1, SceneTypes, ProcessTypes DEF Types, GivenType
<1>2. CASE SceneInit
  <2>1. scened' \subseteq Setscene
    BY <1>2 DEF SceneInit, Types, GivenType
  <2> QED BY <1>2, <2>1, SceneTypes
          DEF SceneInit, Types, GraphType, GivenType, collapse
<1>3. CASE Remove
  <2>1. UNCHANGED <<depends, idepends, available, collapse>>
        /\ scened' \subseteq scened
    BY <1>3 DEF Remove
  <2> QED BY <1>3, <2>1, CoverTypes DEF Types, GraphType, GivenType, collapse
<1>4. CASE Server0
  BY <1>4, ServerTypes, SameGivens, SameGivenTypes DEF Types
<1>5. ASSUME NEW t \in Setscene, Task(t) PROVE Types'
  <2>1. TypeOK'
    BY <1>5, ReadTypes, SettleTypes, LaunchTypes DEF Task
  <2> QED BY <1>5, <2>1, SameGivens, SameGivenTypes DEF Types
<1>6. CASE RunInit \/ Covered
  BY <1>6, CoverTypes, SameGivens, SameGivenTypes DEF Types
<1>7. CASE TornDown \/ Crash \/ \E t \in Setscene : Child(t)
  BY <1>7, WorkerTypes, SameGivens, SameGivenTypes DEF Types
<1>8. CASE UNCHANGED vars
  BY <1>8, SameGivens, SameGivenTypes
     DEF Types, TypeOK, vars, queue, procs, slots, cooker, cover
<1> QED BY <1>1, <1>2, <1>3, <1>4, <1>5, <1>6, <1>7, <1>8, NextCases

LEMMA TypesInvariant == Spec => []Types
<1>1. Init => Types
  BY InitTypes
<1>2. Types /\ [Next]_vars => Types'
  BY TypesStep
<1> QED BY <1>1, <1>2, PTL DEF Spec

(* Every variable of the setscene phase keeps its type.                    *)
THEOREM TypeCorrect == Spec => []TypeOK
  BY TypesInvariant, PTL DEF Types

-----------------------------------------------------------------------------
(* A stop request.                                                         *)

StopInv ==
  stopped => /\ state \in {"CleanUp", "Complete"}
             /\ pc \notin {"collapse", "launch", "cover", "verify", "tasks"}
             /\ pc = "read" => cont \in {"dispatch", "after", "ended"}

LEMMA InitStop == Init => StopInv
  BY DEF Init, StopInv

LEMMA StopStep == ASSUME StopInv, [Next]_vars PROVE StopInv'
<1> USE DEF StopInv
<1>1. CASE Collapse \/ SceneInit
  BY <1>1 DEF Collapse, SceneInit, cooker
<1>2. CASE Server0
  <2>1. CASE Idle
    BY <2>1 DEF Idle, finish, read_workers, Poll, Goto
  <2>2. CASE Execute \/ NothingToStart
    BY <2>2 DEF Execute, MayExecute, NothingToStart, read_workers, Poll, Goto
  <2>3. CASE ReadNext \/ Loop \/ Wait \/ Teardown \/ HandOver
    BY <2>3 DEF ReadNext, Loop, Wait, Teardown, HandOver, Goto
  <2>4. CASE CleanUp
    BY <2>4 DEF CleanUp, finish, read_workers, Poll, Goto
  <2>5. CASE Stop
    BY <2>5 DEF Stop
  <2> QED BY <1>2, <2>1, <2>2, <2>3, <2>4, <2>5 DEF Server0
<1>3. ASSUME NEW t \in Setscene, Task(t) PROVE StopInv'
  BY <1>3 DEF Task, ReadComplete, ReadFail, SkipUnneeded, FailOutright, SkipScened,
              Settled, Launch, LaunchBroken, Fetches, Wanted, CanStart, cooker
<1>4. CASE RunInit \/ Covered \/ Remove
  BY <1>4 DEF RunInit, Covered, Remove, cooker
<1>5. CASE TornDown
  BY <1>5 DEF TornDown, Goto
<1>6. CASE Crash \/ \E t \in Setscene : Child(t)
  BY <1>6 DEF Crash, Child, ChildExit, cooker
<1>7. CASE UNCHANGED vars
  BY <1>7 DEF vars, cooker
<1> QED BY <1>1, <1>2, <1>3, <1>4, <1>5, <1>6, <1>7, NextCases

(* No ordinary task is begun once the callback has seen a stop request.    *)
THEOREM StopCorrect == Spec => []StopHonoured
<1>1. Init => StopInv
  BY InitStop
<1>2. StopInv /\ [Next]_vars => StopInv'
  BY StopStep
<1>3. StopInv => StopHonoured
  BY DEF StopInv, StopHonoured
<1> QED BY <1>1, <1>2, <1>3, PTL DEF Spec

-----------------------------------------------------------------------------
(* Hard dependencies.                                                      *)

DepsInv ==
  /\ pc = "collapse" =>
       /\ runq_buildable = {} /\ scenequeue_covered = {}
       /\ scenequeue_notneeded = {} /\ \A t \in Setscene : job[t] = "none"
  /\ pc # "collapse" =>
       \A t \in Setscene : \A u \in idepends[t] :
          order[u] = {} /\ (u \in sq_revdeps2[t] \/ u \in Fetched)
  /\ \A x \in scenequeue_notneeded : order[x] # {}
  /\ \A t \in runq_buildable \ runq_running : sq_revdeps2[t] = {}
  /\ HardDepsThere

LEMMA InitDeps == Init => DepsInv
  BY DEF Init, DepsInv, HardDepsThere, Fetched

(* A task is settled: covered, if it did not fail.                         *)
LEMMA SettleDeps ==
  ASSUME Types, DepsInv, NEW t \in Setscene, NEW fail \in BOOLEAN,
         NEW gone, fail \/ gone = {t},
         NEW also, also \subseteq Setscene, also \subseteq runq_running',
         pc # "collapse", pc' # "collapse",
         updatecounters(gone, fail, also),
         scenequeue_covered' = IF fail THEN scenequeue_covered
                                       ELSE scenequeue_covered \cup {t},
         scenequeue_notneeded' \subseteq scenequeue_notneeded \cup {t},
         t \in scenequeue_notneeded' \ scenequeue_notneeded => order[t] # {},
         runq_running \subseteq runq_running',
         UNCHANGED <<order, idepends>>,
         \A s \in Setscene : job'[s] # "none" => job[s] # "none"
  PROVE  DepsInv'
<1>1. \A s \in Setscene : \A u \in idepends[s] : u \in Fetched => u \in Fetched'
  <2> SUFFICES ASSUME NEW s \in Setscene, NEW u \in idepends[s], u \in Fetched
               PROVE  u \in Fetched'
    OBVIOUS
  <2>1. order[u] = {}
    BY DEF DepsInv
  <2> QED BY <2>1 DEF Fetched
<1>2. \A s \in Setscene : \A u \in idepends[s] :
         u \in sq_revdeps2[s] /\ u \notin sq_revdeps2'[s] => u \in Fetched'
  <2> SUFFICES ASSUME NEW s \in Setscene, NEW u \in idepends[s],
                      u \in sq_revdeps2[s], u \notin sq_revdeps2'[s]
               PROVE  u \in Fetched'
    OBVIOUS
  <2>1. u \in gone /\ ~fail
    BY DEF updatecounters, StillWaits
  <2>2. u = t /\ u \in Setscene /\ order[u] = {}
    BY <2>1 DEF DepsInv, Types, GivenType
  <2>3. u \in scenequeue_covered' /\ u \notin scenequeue_notneeded'
    BY <2>1, <2>2 DEF DepsInv
  <2> QED BY <2>3 DEF Fetched
<1>3. \A s \in Setscene : sq_revdeps2'[s] \subseteq sq_revdeps2[s]
  BY DEF updatecounters, StillWaits
<1>4. \A s \in runq_buildable' \ runq_running' : sq_revdeps2'[s] = {}
  <2> SUFFICES ASSUME NEW s \in runq_buildable' \ runq_running'
               PROVE  sq_revdeps2'[s] = {}
    OBVIOUS
  <2>1. CASE s \in runq_buildable
    <3>1. s \in Setscene
      BY <2>1 DEF Types, TypeOK
    <3> QED BY <2>1, <3>1, <1>3 DEF DepsInv
  <2>2. CASE s \notin runq_buildable
    BY <2>2 DEF updatecounters
  <2> QED BY <2>1, <2>2
<1>5. HardDepsThere'
  <2> SUFFICES ASSUME NEW s \in Setscene, job'[s] # "none", NEW u \in idepends[s]
               PROVE  u \in Fetched'
    BY DEF HardDepsThere
  <2>1. u \in Fetched
    BY DEF DepsInv, HardDepsThere
  <2> QED BY <2>1, <1>1
<1>6. \A s \in Setscene : \A u \in idepends[s] :
         order'[u] = {} /\ (u \in sq_revdeps2'[s] \/ u \in Fetched')
  BY <1>1, <1>2 DEF DepsInv
<1>7. \A x \in scenequeue_notneeded' : order'[x] # {}
  BY DEF DepsInv
<1> QED BY <1>4, <1>5, <1>6, <1>7 DEF DepsInv

LEMMA SceneInitDeps == ASSUME Types, DepsInv, SceneInit PROVE DepsInv'
<1>1. order' = [t \in Setscene |-> WaitsFor(t)]
      /\ sq_revdeps2' = [t \in Setscene |-> WaitsFor(t) \ Present]
      /\ scenequeue_covered' = Present /\ scenequeue_notneeded' = {}
      /\ runq_running' = Present
      /\ runq_buildable' = Present \cup {t \in Setscene : WaitsFor(t) \subseteq Present}
      /\ UNCHANGED <<idepends, job>> /\ pc' = "dispatch" /\ pc = "collapse"
  BY DEF SceneInit, DepsInv, Goto, procs
<1>2. ASSUME NEW t \in Setscene, NEW u \in idepends[t]
      PROVE  order'[u] = {} /\ (u \in sq_revdeps2'[t] \/ u \in Fetched')
  <2>1. u \in Setscene /\ idepends[u] = {}
    BY <1>2 DEF Types, GivenType
  <2>2. t \in hardfor(u)
    BY <1>2 DEF hardfor
  <2>3. WaitsFor(u) = {}
    BY <2>1, <2>2 DEF WaitsFor
  <2>4. u \in WaitsFor(t)
    BY <1>2 DEF WaitsFor
  <2> QED BY <1>1, <2>1, <2>3, <2>4 DEF Fetched
<1>3. HardDepsThere'
  BY <1>1 DEF DepsInv, HardDepsThere
<1>4. \A t \in runq_buildable' \ runq_running' : sq_revdeps2'[t] = {}
  BY <1>1
<1> QED BY <1>1, <1>2, <1>3, <1>4 DEF DepsInv

LEMMA SameDeps ==
  ASSUME DepsInv, pc # "collapse" => pc' # "collapse",
         pc = "collapse" => pc' = "collapse",
         \A t \in Setscene : job'[t] # "none" => job[t] # "none",
         UNCHANGED <<order, idepends, sq_revdeps2, runq_buildable, runq_running,
                     scenequeue_covered, scenequeue_notneeded>>
  PROVE  DepsInv'
  BY DEF DepsInv, HardDepsThere, Fetched

LEMMA TaskDeps ==
  ASSUME Types, DepsInv, NEW t \in Setscene, Task(t)
  PROVE  DepsInv'
<1> USE DEF procs, slots, cover, givens, cooker
<1>1. CASE ReadComplete(t)
  <2>1. /\ scenequeue_covered' = scenequeue_covered \cup {t}
        /\ updatecounters({t}, FALSE, {})
        /\ UNCHANGED <<order, idepends, scenequeue_notneeded, runq_running, pc>>
    BY <1>1 DEF ReadComplete, task_completeoutright
  <2>2. \A s \in Setscene : job'[s] # "none" => job[s] # "none"
    BY <1>1 DEF ReadComplete, Types, TypeOK
  <2>3. pc # "collapse" /\ pc' # "collapse"
    BY <1>1, <2>1 DEF ReadComplete, Reading
  <2>4. /\ scenequeue_notneeded' \subseteq scenequeue_notneeded \cup {t}
        /\ t \notin scenequeue_notneeded' \ scenequeue_notneeded
        /\ runq_running \subseteq runq_running'
    BY <2>1
  <2>5. \A also \in SUBSET Setscene :
           updatecounters({t}, FALSE, also) /\ also \subseteq runq_running' => DepsInv'
    BY <2>1, <2>2, <2>3, <2>4, SettleDeps, Zenon
  <2>6. {} \in SUBSET Setscene /\ {} \subseteq runq_running'
    OBVIOUS
  <2> QED BY <2>1, <2>5, <2>6, Zenon
<1>2. CASE ReadFail(t)
  <2>1. /\ updatecounters(Doomed(t), TRUE, {})
        /\ UNCHANGED <<order, idepends, scenequeue_notneeded, runq_running, pc,
                       scenequeue_covered>>
    BY <1>2 DEF ReadFail, failed
  <2>2. \A s \in Setscene : job'[s] # "none" => job[s] # "none"
    BY <1>2 DEF ReadFail, Types, TypeOK
  <2>3. pc # "collapse" /\ pc' # "collapse"
    BY <1>2, <2>1 DEF ReadFail, Reading
  <2>4. /\ scenequeue_notneeded' \subseteq scenequeue_notneeded \cup {t}
        /\ t \notin scenequeue_notneeded' \ scenequeue_notneeded
        /\ runq_running \subseteq runq_running'
    BY <2>1
  <2> QED BY <2>1, <2>2, <2>3, <2>4, SettleDeps, Zenon
<1>3. CASE SkipUnneeded(t)
  <2>1. /\ scenequeue_covered' = scenequeue_covered \cup {t}
        /\ scenequeue_notneeded' = scenequeue_notneeded \cup {t}
        /\ updatecounters({t}, FALSE, {t}) /\ runq_running' = runq_running \cup {t}
        /\ UNCHANGED <<order, idepends, job>> /\ pc' = "after"
    BY <1>3 DEF SkipUnneeded, Settled, Goto, task_skip, task_completeoutright
  <2>2. pc # "collapse" /\ order[t] # {}
    BY <1>3 DEF SkipUnneeded, CanStart, NotNeeded
  <2> QED BY <2>1, <2>2, SettleDeps, Zenon
<1>4. CASE FailOutright(t)
  <2>1. /\ updatecounters(Doomed(t), TRUE, {t}) /\ runq_running' = runq_running \cup {t}
        /\ UNCHANGED <<order, idepends, job, scenequeue_covered,
                       scenequeue_notneeded>> /\ pc' = "after"
    BY <1>4 DEF FailOutright, Settled, Goto, task_failoutright, failed
  <2>2. pc # "collapse"
    BY <1>4 DEF FailOutright, Wanted, CanStart
  <2> QED BY <2>1, <2>2, SettleDeps, Zenon
<1>5. CASE SkipScened(t)
  <2>1. /\ scenequeue_covered' = scenequeue_covered \cup {t}
        /\ updatecounters({t}, FALSE, {t}) /\ runq_running' = runq_running \cup {t}
        /\ UNCHANGED <<order, idepends, job, scenequeue_notneeded>> /\ pc' = "after"
    BY <1>5 DEF SkipScened, Settled, Goto, task_skip, task_completeoutright
  <2>2. pc # "collapse"
    BY <1>5 DEF SkipScened, Fetches, Wanted, CanStart
  <2> QED BY <2>1, <2>2, SettleDeps, Zenon
<1>6. CASE Launch(t)
  <2>1. /\ t \in runq_buildable \ runq_running /\ pc = "launch"
        /\ UNCHANGED <<order, idepends, sq_revdeps2, runq_buildable,
                       scenequeue_covered, scenequeue_notneeded>>
        /\ runq_running' = runq_running \cup {t} /\ pc' # "collapse"
        /\ job' = [job EXCEPT ![t] = "sent"]
    BY <1>6 DEF Launch, Fetches, Wanted, CanStart, Candidates, read_workers, Goto
  <2>2. idepends[t] \subseteq Fetched
    BY <2>1 DEF DepsInv
  <2>3. HardDepsThere'
    BY <2>1, <2>2 DEF DepsInv, HardDepsThere, Fetched, Types, TypeOK
  <2> QED BY <2>1, <2>3 DEF DepsInv, Fetched
<1>7. CASE LaunchBroken(t)
  BY <1>7, SameDeps DEF LaunchBroken, Fetches, Wanted, CanStart, Goto, queue
<1> QED BY <1>1, <1>2, <1>3, <1>4, <1>5, <1>6, <1>7 DEF Task

LEMMA DepsStep == ASSUME Types, DepsInv, [Next]_vars PROVE DepsInv'
<1>1. CASE Collapse
  BY <1>1, SameDeps DEF Collapse, queue, procs, cooker
<1>2. CASE SceneInit
  BY <1>2, SceneInitDeps
<1>3. CASE Server0
  <2>1. UNCHANGED <<queue, procs, idepends>>
    BY <1>3 DEF Server0, Idle, Execute, ReadNext, NothingToStart, Loop, CleanUp,
                Wait, Teardown, HandOver, Stop, givens
  <2>2. pc # "collapse" /\ pc' # "collapse"
    BY <1>3 DEF Server0, Idle, Execute, ReadNext, NothingToStart, Loop, CleanUp,
                Wait, Teardown, HandOver, Stop, Goto, finish, read_workers,
                Types, TypeOK
  <2> QED BY <2>1, <2>2, SameDeps DEF queue, procs
<1>4. ASSUME NEW t \in Setscene, Task(t) PROVE DepsInv'
  BY <1>4, TaskDeps
<1>5. CASE RunInit \/ Covered \/ Remove
  BY <1>5, SameDeps DEF RunInit, Covered, Remove, Goto, queue, procs, givens, cooker
<1>6. CASE TornDown
  BY <1>6, SameDeps DEF TornDown, Goto, queue, procs, givens, Types, TypeOK
<1>7. CASE Crash \/ \E t \in Setscene : Child(t)
  BY <1>7, SameDeps DEF Crash, Child, ChildExit, queue, givens, cooker, Types, TypeOK
<1>8. CASE UNCHANGED vars
  BY <1>8, SameDeps DEF vars, queue, procs, givens, cooker
<1> QED BY <1>1, <1>2, <1>3, <1>4, <1>5, <1>6, <1>7, <1>8, NextCases

(* A setscene task reaches a worker only when every task that it cannot do *)
(* without was fetched or found.                                           *)
THEOREM HardDepsCorrect == Spec => []HardDepsThere
<1>1. Init => DepsInv
  BY InitDeps
<1>2. Types /\ DepsInv /\ [Next]_vars => DepsInv'
  BY DepsStep
<1>3. DepsInv => HardDepsThere
  BY DEF DepsInv
<1> QED BY <1>1, <1>2, <1>3, TypesInvariant, PTL DEF Spec

-----------------------------------------------------------------------------
(* The queue is built before any of it is settled.                         *)

Untouched == pc = "collapse" => scenequeue_notneeded = {}

LEMMA UntouchedStep == ASSUME Types, Untouched, [Next]_vars PROVE Untouched'
<1>1. CASE Collapse
  BY <1>1 DEF Collapse, queue, cooker, Untouched
<1>2. CASE SceneInit
  BY <1>2 DEF SceneInit, Untouched, Goto
<1>3. CASE Server0
  BY <1>3 DEF Server0, Idle, Execute, ReadNext, NothingToStart, Loop, CleanUp,
              Wait, Teardown, HandOver, Stop, Goto, finish, read_workers,
              Types, TypeOK, Untouched
<1>4. ASSUME NEW t \in Setscene, Task(t) PROVE Untouched'
  BY <1>4 DEF Task, ReadComplete, ReadFail, FailOutright, SkipScened,
              SkipUnneeded, Settled, Launch, LaunchBroken, Goto, read_workers,
              cooker, Untouched
<1>5. CASE RunInit \/ Covered \/ Remove
  BY <1>5 DEF RunInit, Covered, Remove, Goto, queue, givens, cooker, Untouched
<1>6. CASE TornDown \/ Crash \/ \E t \in Setscene : Child(t)
  BY <1>6 DEF TornDown, Crash, Child, ChildExit, Goto, queue, givens, cooker,
              Untouched
<1>7. CASE UNCHANGED vars
  BY <1>7 DEF vars, queue, givens, cooker, Untouched
<1> QED BY <1>1, <1>2, <1>3, <1>4, <1>5, <1>6, <1>7, NextCases

-----------------------------------------------------------------------------
(* The skip list.                                                          *)

CoverInv ==
  /\ pc = "cover" => \A t \in skip \ initial_covered : revdeps(t) \subseteq skip
  /\ pc \in {"verify", "tasks"} =>
       \A u \in Tasks \ skip :
         depends[u] \cap skip \subseteq initial_covered \cup toremove
  /\ pc = "tasks" => toremove = {}

(* The least closed set: what the loop adds is used by covered tasks only. *)
LEMMA CoverMoreSound ==
  ASSUME Types, NEW covered, covered \subseteq Tasks
  PROVE  /\ covered \subseteq CoverMore(covered)
         /\ CoverMore(covered) \subseteq Tasks
         /\ \A t \in CoverMore(covered) \ covered :
              revdeps(t) \subseteq CoverMore(covered)
         /\ \A t \in Tasks \ scenequeue_notcovered :
              UsedOnlyBy(t, CoverMore(covered)) => t \in CoverMore(covered)
<1> DEFINE Closed(S) == /\ covered \subseteq S
                        /\ \A t \in Tasks \ scenequeue_notcovered :
                             UsedOnlyBy(t, S) => t \in S
           L == CoverMore(covered)
           T == {t \in L : t \in covered \/ revdeps(t) \subseteq L}
<1>1. L = {t \in Tasks : \A S \in SUBSET Tasks : Closed(S) => t \in S}
  BY DEF CoverMore, Least
<1>2. covered \subseteq L /\ L \subseteq Tasks
  BY <1>1
<1>3. \A t \in Tasks \ scenequeue_notcovered : UsedOnlyBy(t, L) => t \in L
  <2> SUFFICES ASSUME NEW t \in Tasks \ scenequeue_notcovered, UsedOnlyBy(t, L),
                      NEW S \in SUBSET Tasks, Closed(S)
               PROVE  t \in S
    BY <1>1
  <2>1. L \subseteq S
    BY <1>1
  <2> QED BY <2>1 DEF UsedOnlyBy
<1>4. T \in SUBSET Tasks
  BY <1>2
<1>5. Closed(T)
  <2>1. covered \subseteq T
    BY <1>2
  <2>2. ASSUME NEW t \in Tasks \ scenequeue_notcovered, UsedOnlyBy(t, T)
        PROVE  t \in T
    <3>1. revdeps(t) # {} /\ revdeps(t) \subseteq L
      BY <2>2 DEF UsedOnlyBy
    <3> QED BY <3>1, <1>3 DEF UsedOnlyBy
  <2> QED BY <2>1, <2>2
<1>6. L \subseteq T
  BY <1>1, <1>4, <1>5
<1> QED BY <1>2, <1>3, <1>6

LEMMA SameCover ==
  ASSUME CoverInv, UNCHANGED <<skip, initial_covered, toremove, depends>>,
         pc' \in {"cover", "verify", "tasks"} => pc' = pc
  PROVE  CoverInv'
  BY DEF CoverInv, revdeps

LEMMA CoverStep == ASSUME Types, CoverInv, [Next]_vars PROVE CoverInv'
<1>1. CASE Collapse
  BY <1>1 DEF Collapse, CoverInv, cooker
<1>2. CASE SceneInit
  BY <1>2 DEF SceneInit, CoverInv, Goto
<1>3. CASE Server0
  <2>1. CASE HandOver
    BY <2>1 DEF HandOver, CoverInv, Goto, cover, givens
  <2>2. CASE ~HandOver
    <3>1. UNCHANGED <<cover, depends>>
      BY <1>3, <2>2 DEF Server0, Idle, Execute, ReadNext, NothingToStart, Loop,
                        CleanUp, Wait, Teardown, Stop, givens
    <3>2. pc' \in {"cover", "verify", "tasks"} => pc' = pc
      BY <1>3, <2>2 DEF Server0, Idle, Execute, ReadNext, NothingToStart, Loop,
                        CleanUp, Wait, Teardown, Stop, Goto, finish, read_workers,
                        Types, TypeOK
    <3> QED BY <3>1, <3>2, SameCover DEF cover
  <2> QED BY <2>1, <2>2
<1>4. ASSUME NEW t \in Setscene, Task(t) PROVE CoverInv'
  <2>1. UNCHANGED <<cover, depends>>
    BY <1>4 DEF Task, ReadComplete, ReadFail, SkipUnneeded, FailOutright, SkipScened,
                Settled, Launch, LaunchBroken, givens
  <2>2. pc' \in {"cover", "verify", "tasks"} => pc' = pc
    BY <1>4 DEF Task, ReadComplete, ReadFail, SkipUnneeded, FailOutright, SkipScened,
                Settled, Launch, LaunchBroken, Goto, read_workers, cooker
  <2> QED BY <2>1, <2>2, SameCover DEF cover
<1>5. CASE RunInit
  <2>1. CASE pc' = pc
    BY <1>5, <2>1 DEF RunInit, CoverInv, Goto
  <2>2. CASE pc' # pc
    <3>1. PICK more \in FirstLoop(scenequeue_covered) :
            skip' = scenequeue_covered \cup more
      BY <1>5, <2>2 DEF RunInit
    <3>2. initial_covered' = scenequeue_covered /\ pc' = "cover" /\ depends' = depends
      BY <1>5, <2>2 DEF RunInit, Goto, givens
    <3>3. \A t \in more : revdeps(t) \subseteq scenequeue_covered \cup more
      BY DEF FirstLoop, UsedOnlyBy
    <3> QED BY <3>1, <3>2, <3>3 DEF CoverInv, revdeps
  <2> QED BY <2>1, <2>2
<1>6. CASE Covered
  <2>1. /\ skip' = CoverMore(skip) /\ pc' = "verify" /\ pc = "cover"
        /\ UNCHANGED <<initial_covered, depends>>
    BY <1>6 DEF Covered, Goto, givens
  <2>2. skip \subseteq Tasks
    BY DEF Types, TypeOK
  <2>3. \A t \in skip' \ initial_covered : revdeps(t) \subseteq skip'
    BY <2>1, <2>2, CoverMoreSound DEF CoverInv
  <2>4. ASSUME NEW u \in Tasks \ skip', NEW t \in depends[u] \cap skip'
        PROVE  t \in initial_covered
    <3>1. t \in Tasks /\ u \in revdeps(t)
      BY <2>1, <2>2, CoverMoreSound DEF revdeps
    <3> QED BY <2>3, <3>1
  <2> QED BY <2>1, <2>4 DEF CoverInv
<1>7. CASE Remove
  <2>1. /\ skip' = skip \ toremove /\ toremove' = AlsoRemoved /\ pc = "verify"
        /\ UNCHANGED <<pc, initial_covered, depends>>
    BY <1>7 DEF Remove, cooker
  <2>2. ASSUME NEW u \in Tasks \ skip', NEW t \in depends[u] \cap skip'
        PROVE  t \in initial_covered \cup toremove'
    BY <2>1, <2>2 DEF CoverInv, AlsoRemoved
  <2> QED BY <2>1, <2>2 DEF CoverInv
<1>8. CASE TornDown \/ Crash \/ \E t \in Setscene : Child(t)
  BY <1>8, SameCover
     DEF TornDown, Crash, Child, ChildExit, Goto, cover, givens, cooker
<1>9. CASE UNCHANGED vars
  BY <1>9, SameCover DEF vars, cover, givens, cooker
<1> QED BY <1>1, <1>2, <1>3, <1>4, <1>5, <1>6, <1>7, <1>8, <1>9, NextCases

(* A task that is to run depends on no skipped task but what the setscene  *)
(* phase had covered, whatever the verify function takes back.             *)
THEOREM CoverCorrect == Spec => []TakenBackWhole
<1>1. Init => CoverInv
  BY DEF Init, CoverInv
<1>2. Types /\ CoverInv /\ [Next]_vars => CoverInv'
  BY CoverStep
<1>3. CoverInv => TakenBackWhole
  BY DEF CoverInv, TakenBackWhole
<1> QED BY <1>1, <1>2, <1>3, TypesInvariant, PTL DEF Spec

-----------------------------------------------------------------------------
(* The collapsed graph.                                                    *)

(* After SceneInit the graph and what is derived from it are read only.    *)
LEMMA SameGraph ==
  ASSUME [Next]_vars, ~Collapse
  PROVE  UNCHANGED graph /\ UNCHANGED idepends
<1>1. CASE SceneInit \/ Remove
  BY <1>1 DEF SceneInit, Remove, graph, collapse
<1>2. CASE ~SceneInit /\ ~Remove
  BY <1>2, NextCases, SameGivens DEF graph, givens, collapse
<1> QED BY <1>1, <1>2

LEMMA GraphInvariant == Spec => []GraphInv
<1>1. Init => GraphInv
  BY InitGraphInv DEF Init
<1>2. GraphInv /\ [Next]_vars => GraphInv'
  BY GraphStep, SameGraph DEF Collapse
<1> QED BY <1>1, <1>2, PTL DEF Spec

(* The collapse never goes wrong, and stays as it is while the setscene    *)
(* phase works with it (process_endpoints).                                *)
THEOREM GraphCorrect == Spec => []GraphSound
<1>1. GraphInv => GraphSound
  BY GraphInvSound DEF GraphSound
<1> QED BY <1>1, GraphInvariant, PTL

-----------------------------------------------------------------------------
(* What was not needed is not missed.                                      *)

(* What was skipped as not needed had the setscene tasks it waited for     *)
(* covered, and no target leads to it through ordinary tasks alone.        *)
NotMissed ==
  /\ depends \in Graphs
  /\ pc # "collapse" => /\ Collapsed /\ unskippable = Unskippable
                        /\ order = [t \in Setscene |-> WaitsFor(t)]
  /\ \A x \in scenequeue_notneeded :
       order[x] \subseteq scenequeue_covered /\ x \notin unskippable

(* The skip list holds what the setscene phase covered, and in the end     *)
(* whatever uses a task that was not needed, up to the next setscene task, *)
(* as long as no covered task is taken back.                               *)
SkipList ==
  /\ pc \in {"cover", "verify", "tasks"} => initial_covered = scenequeue_covered
  /\ pc = "cover" => scenequeue_covered \subseteq skip
  /\ pc \in {"verify", "tasks"} /\ initial_covered \subseteq skip \ toremove =>
       \A x \in scenequeue_notneeded :
          Upwards(x, Setscene) \subseteq skip \ toremove

(* What the two rest on.                                                   *)
Rest == Types /\ DepsInv /\ Untouched /\ CoverInv /\ GraphInv

LEMMA SameWaits ==
  ASSUME UNCHANGED graph, UNCHANGED idepends
  PROVE  /\ Collapsed' = Collapsed /\ Unskippable' = Unskippable
         /\ \A t : WaitsFor(t)' = WaitsFor(t)
<1>1. UNCHANGED <<depends, sq_revdeps_new, endpoints, newendpoints>>
  BY DEF graph
<1>2. \A t : WaitsFor(t)' = WaitsFor(t)
  BY <1>1 DEF WaitsFor, hardfor
<1>3. Roots' = Roots
  BY <1>1, SameUpwards DEF Roots
<1>4. Unskippable' = Unskippable
  BY <1>1, <1>3, SameUpwards DEF Unskippable
<1> QED BY <1>1, <1>2, <1>4 DEF Collapsed

(* Setscene tasks are only ever added to the covered ones.                 *)
LEMMA QueueStep ==
  ASSUME Types, [Next]_vars, ~Collapse, ~SceneInit
  PROVE  /\ UNCHANGED <<order, unskippable>>
         /\ pc' = "collapse" <=> pc = "collapse"
         /\ scenequeue_covered \subseteq scenequeue_covered'
         /\ \/ scenequeue_notneeded' = scenequeue_notneeded
            \/ \E t \in Setscene : SkipUnneeded(t)
<1>1. CASE Server0
  <2>1. UNCHANGED queue
    BY <1>1 DEF Server0, Idle, Execute, ReadNext, NothingToStart, Loop, CleanUp,
                Wait, Teardown, HandOver, Stop
  <2>2. pc' = "collapse" <=> pc = "collapse"
    BY <1>1 DEF Server0, Idle, Execute, ReadNext, NothingToStart, Loop, CleanUp,
                Wait, Teardown, HandOver, Stop, Goto, finish, read_workers,
                Types, TypeOK
  <2> QED BY <2>1, <2>2 DEF queue
<1>2. ASSUME NEW t \in Setscene, Task(t)
      PROVE  /\ UNCHANGED <<order, unskippable>>
             /\ scenequeue_covered \subseteq scenequeue_covered'
             /\ pc' = "collapse" <=> pc = "collapse"
             /\ scenequeue_notneeded' = scenequeue_notneeded \/ SkipUnneeded(t)
  <2>1. CASE ReadComplete(t) \/ ReadFail(t)
    BY <2>1 DEF ReadComplete, ReadFail, Reading, task_completeoutright, failed, cooker
  <2>2. CASE SkipUnneeded(t) \/ FailOutright(t) \/ SkipScened(t)
    BY <2>2 DEF SkipUnneeded, FailOutright, SkipScened, Fetches, Wanted, CanStart,
                Settled, task_skip, Goto, task_failoutright, task_completeoutright, failed
  <2>3. CASE Launch(t) \/ LaunchBroken(t)
    BY <2>3 DEF Launch, LaunchBroken, Fetches, Wanted, CanStart, queue, Goto,
                read_workers
  <2> QED BY <1>2, <2>1, <2>2, <2>3 DEF Task
<1>3. CASE RunInit \/ Covered \/ Remove \/ TornDown \/ Crash
           \/ \E t \in Setscene : Child(t)
  BY <1>3 DEF RunInit, Covered, Remove, TornDown, Crash, Child, ChildExit, Goto,
              queue, cooker
<1>4. CASE UNCHANGED vars
  BY <1>4 DEF vars, queue, cooker
<1> QED BY <1>1, <1>2, <1>3, <1>4, NextCases

LEMMA MissedStep ==
  ASSUME Rest, NotMissed, [Next]_vars
  PROVE  NotMissed'
<1>1. CASE Collapse
  BY <1>1 DEF Collapse, Process, Point, Deeper, cooker, queue, Rest, Untouched,
              NotMissed
<1>2. CASE SceneInit
  <2>1. UNCHANGED graph /\ UNCHANGED idepends
    BY <1>2 DEF SceneInit, graph, collapse
  <2>2. /\ Collapsed /\ unskippable' = Unskippable
        /\ order' = [t \in Setscene |-> WaitsFor(t)]
        /\ scenequeue_notneeded' = {}
    BY <1>2 DEF SceneInit, Rest, Untouched
  <2> QED BY <2>1, <2>2, SameWaits DEF NotMissed, graph
<1>3. CASE ~Collapse /\ ~SceneInit
  <2>1. UNCHANGED graph /\ UNCHANGED idepends
    BY <1>3, SameGraph
  <2>2. /\ UNCHANGED <<order, unskippable>>
        /\ pc' = "collapse" <=> pc = "collapse"
        /\ scenequeue_covered \subseteq scenequeue_covered'
    BY <1>3, QueueStep DEF Rest
  <2>3. ASSUME NEW t \in Setscene, SkipUnneeded(t)
        PROVE  /\ scenequeue_notneeded' = scenequeue_notneeded \cup {t}
               /\ order[t] \subseteq scenequeue_covered /\ t \notin unskippable
    BY <2>3 DEF SkipUnneeded, NotNeeded
  <2>4. \A x \in scenequeue_notneeded' :
          order[x] \subseteq scenequeue_covered /\ x \notin unskippable
    BY <1>3, <2>3, QueueStep DEF Rest, NotMissed
  <2>5. pc' # "collapse" =>
          /\ Collapsed' /\ unskippable' = Unskippable'
          /\ order' = [t \in Setscene |-> WaitsFor(t)']
    BY <2>1, <2>2, SameWaits DEF NotMissed
  <2> QED BY <2>1, <2>2, <2>4, <2>5 DEF NotMissed, graph
<1> QED BY <1>1, <1>2, <1>3

(* Every setscene task that uses a task not needed is covered, and so are  *)
(* all ways from a target to it.                                           *)
LEMMA Shielded ==
  ASSUME Rest, NotMissed, NEW x \in scenequeue_notneeded
  PROVE  /\ x \in Setscene /\ pc # "collapse"
         /\ Nearest(x) \subseteq scenequeue_covered
         /\ Upwards(x, Setscene) \cap Roots = {}
<1>1. x \in Setscene /\ pc # "collapse"
  BY DEF Rest, Types, TypeOK, Untouched
<1>2. order[x] # {}
  BY DEF Rest, DepsInv
<1>3. hardfor(x) = {}
  <2> SUFFICES ASSUME NEW s \in Setscene, x \in idepends[s] PROVE FALSE
    BY DEF hardfor
  <2> QED BY <1>1, <1>2 DEF Rest, DepsInv
<1>4. sq_revdeps_new[x] \subseteq order[x]
  BY <1>1, <1>3 DEF NotMissed, WaitsFor
<1>5. Nearest(x) \subseteq sq_revdeps_new[x]
  BY <1>1, GraphInvSound, SetsceneType DEF Rest, NotMissed, CollapseSound
<1>6. x \notin Unskippable
  BY <1>1 DEF NotMissed
<1> QED BY <1>1, <1>4, <1>5, <1>6 DEF NotMissed, Unskippable

(* The loop skips all that is used only on the way to x: of what it would  *)
(* leave there, one task is used by no other that it leaves.               *)
LEMMA Filled ==
  ASSUME Rest, NotMissed, NEW x \in scenequeue_notneeded,
         scenequeue_covered \subseteq skip
  PROVE  Upwards(x, Setscene) \subseteq CoverMore(skip)
<1> DEFINE U == Upwards(x, Setscene)
           C == CoverMore(skip)
           B == U \ C
<1>1. skip \subseteq Tasks /\ scenequeue_notcovered \subseteq Setscene
      /\ depends \in [Tasks -> SUBSET Tasks]
  BY DEF Rest, Types, TypeOK, GraphType
<1>2. U \subseteq Tasks /\ \A u \in U \ Setscene : revdeps(u) \subseteq U
  BY UpwardsClosed
<1>3. U \cap Setscene \subseteq C
  BY <1>1, Shielded, CoverMoreSound DEF Rest, Nearest
<1>4. \A u \in U : u \in Setscene \/ revdeps(u) # {}
  BY <1>2, Shielded DEF Roots
<1> SUFFICES ASSUME B # {} PROVE FALSE
  OBVIOUS
<1>5. PICK t \in B : \A u \in B : t \notin depends[u]
  <2>1. B \subseteq Tasks /\ B # {}
    BY <1>2
  <2>2. B \in (SUBSET Tasks) \ {{}}
    <3> HIDE DEF B
    <3> QED BY <2>1
  <2> QED BY <2>2, GraphsAcyclic DEF NotMissed
<1>6. t \in Tasks \ scenequeue_notcovered /\ revdeps(t) # {}
      /\ revdeps(t) \subseteq U
  BY <1>1, <1>2, <1>3, <1>4
<1>7. revdeps(t) \subseteq C
  BY <1>5, <1>6 DEF revdeps
<1> QED BY <1>1, <1>6, <1>7, CoverMoreSound DEF Rest, UsedOnlyBy

(* Only the steps from RunInit on touch the skip list; meanwhile the queue *)
(* is left alone.                                                          *)
LEMMA ListKept ==
  ASSUME Types, [Next]_vars, ~RunInit, ~Covered, ~Remove, ~HandOver,
         pc' \in {"cover", "verify", "tasks"}
  PROVE  pc' = pc /\ UNCHANGED <<cover, scenequeue_notneeded, scenequeue_covered>>
<1>1. ~Collapse /\ ~SceneInit
  BY DEF Collapse, SceneInit, Goto, cooker
<1>2. CASE Server0
  <2>1. UNCHANGED <<cover, queue>>
    BY <1>2 DEF Server0, Idle, Execute, ReadNext, NothingToStart, Loop, CleanUp,
                Wait, Teardown, HandOver, Stop
  <2>2. pc' = pc
    BY <1>2 DEF Server0, Idle, Execute, ReadNext, NothingToStart, Loop, CleanUp,
                Wait, Teardown, Stop, Goto, finish, read_workers, Types, TypeOK
  <2> QED BY <2>1, <2>2 DEF queue
<1>3. ASSUME NEW t \in Setscene PROVE ~Task(t)
  BY DEF Task, ReadComplete, ReadFail, Reading, SkipUnneeded, FailOutright,
         SkipScened, Settled, Launch, LaunchBroken, Goto, read_workers, cooker
<1>4. CASE TornDown \/ Crash \/ \E t \in Setscene : Child(t)
  BY <1>4 DEF TornDown, Crash, Child, ChildExit, Goto, queue, cooker
<1>5. CASE UNCHANGED vars
  BY <1>5 DEF vars, queue, cooker
<1> QED BY <1>1, <1>2, <1>3, <1>4, <1>5, NextCases

LEMMA ListStep ==
  ASSUME Rest, NotMissed, SkipList, [Next]_vars
  PROVE  SkipList'
<1>1. CASE RunInit
  <2>1. CASE pc' = "cover"
    <3>1. /\ scenequeue_covered' = scenequeue_covered
          /\ initial_covered' = scenequeue_covered
          /\ scenequeue_covered \subseteq skip'
      BY <1>1, <2>1 DEF RunInit, queue
    <3> QED BY <2>1, <3>1 DEF SkipList
  <2> QED BY <1>1, <2>1 DEF RunInit, SkipList, Goto
<1>2. CASE Covered
  <2>1. /\ pc = "cover" /\ pc' = "verify" /\ skip' = CoverMore(skip)
        /\ toremove' = setsceneverify(CoverMore(skip))
        /\ UNCHANGED <<initial_covered, scenequeue_covered,
                       scenequeue_notneeded, depends>>
    BY <1>2 DEF Covered, Goto, givens, queue
  <2>2. toremove' \subseteq Setscene
    BY <2>1, FlagsType DEF setsceneverify
  <2>3. initial_covered = scenequeue_covered /\ scenequeue_covered \subseteq skip
    BY <2>1 DEF SkipList
  <2>4. ASSUME NEW x \in scenequeue_notneeded,
               initial_covered \subseteq skip' \ toremove'
        PROVE  Upwards(x, Setscene) \subseteq skip' \ toremove'
    <3>1. Upwards(x, Setscene) \subseteq skip'
      BY <2>1, <2>3, Filled
    <3>2. Upwards(x, Setscene) \cap Setscene \subseteq initial_covered
      BY <2>3, Shielded DEF Nearest
    <3> QED BY <2>2, <2>4, <3>1, <3>2
  <2> QED BY <2>1, <2>3, <2>4, SameUpwards DEF SkipList
<1>3. CASE Remove
  <2>1. /\ pc = "verify" /\ pc' = pc /\ skip' = skip \ toremove
        /\ toremove' = AlsoRemoved
        /\ UNCHANGED <<initial_covered, scenequeue_covered,
                       scenequeue_notneeded, depends>>
    BY <1>3 DEF Remove, cooker, queue
  <2>2. initial_covered = scenequeue_covered
    BY <2>1 DEF SkipList
  <2>3. ASSUME NEW x \in scenequeue_notneeded,
               initial_covered \subseteq skip' \ toremove'
        PROVE  Upwards(x, Setscene) \subseteq skip' \ toremove'
    <3> DEFINE U == Upwards(x, Setscene)
    <3>1. U \subseteq skip \ toremove
      BY <2>1, <2>3 DEF SkipList
    <3>2. U \cap Setscene \subseteq initial_covered
      BY <2>2, Shielded DEF Nearest
    <3>3. ASSUME NEW r \in U \cap AlsoRemoved PROVE FALSE
      <4>1. r \notin initial_covered /\ r \in Tasks
        BY UpwardsClosed DEF AlsoRemoved
      <4>2. revdeps(r) \subseteq U
        BY <3>2, <4>1, UpwardsClosed
      <4>3. PICK u \in toremove : r \in depends[u]
        BY DEF AlsoRemoved
      <4>4. u \in revdeps(r)
        BY <4>3 DEF revdeps, Rest, Types, TypeOK
      <4> QED BY <3>1, <4>2, <4>3, <4>4
    <3> QED BY <2>1, <3>1, <3>3
  <2> QED BY <2>1, <2>2, <2>3, SameUpwards DEF SkipList
<1>4. CASE HandOver
  <2>1. /\ pc = "verify" /\ pc' = "tasks" /\ depends' = depends
        /\ UNCHANGED <<cover, scenequeue_covered, scenequeue_notneeded>>
    BY <1>4 DEF HandOver, Goto, givens, queue
  <2> QED BY <2>1, SameUpwards DEF SkipList, cover
<1>5. CASE ~RunInit /\ ~Covered /\ ~Remove /\ ~HandOver
  <2>1. CASE pc' \notin {"cover", "verify", "tasks"}
    BY <2>1 DEF SkipList
  <2>2. CASE pc' \in {"cover", "verify", "tasks"}
    <3>1. pc' = pc /\ UNCHANGED <<cover, scenequeue_notneeded, scenequeue_covered>>
      BY <1>5, <2>2, ListKept DEF Rest
    <3>2. depends' = depends
      BY <2>2, SameGraph DEF Collapse, cooker, graph, Process, Point, Deeper
    <3> QED BY <3>1, <3>2, SameUpwards DEF SkipList, cover
  <2> QED BY <2>1, <2>2
<1> QED BY <1>1, <1>2, <1>3, <1>4, <1>5

(* A task that is to run depends on no skipped task that is not there:     *)
(* one that was not needed is used by skipped tasks alone.  Unless the     *)
(* verify function takes covered tasks back                                *)
(* (RunQueueExecuteTasks.__init__).                                        *)
THEOREM NoHoleCorrect == Spec => []NoHole
<1> DEFINE I == Rest /\ NotMissed /\ SkipList
<1>1. Init => I
  <2> SUFFICES ASSUME Init PROVE I
    OBVIOUS
  <2>1. Rest
    BY InitTypes, InitDeps, InitGraphInv
       DEF Init, Rest, Untouched, CoverInv
  <2> QED BY <2>1 DEF Init, GraphInit, NotMissed, SkipList
<1>2. I /\ [Next]_vars => I'
  <2> SUFFICES ASSUME I, [Next]_vars PROVE I'
    OBVIOUS
  <2>1. GraphInv'
    BY GraphStep, SameGraph DEF Rest, Collapse
  <2>2. Rest'
    BY <2>1, TypesStep, DepsStep, UntouchedStep, CoverStep DEF Rest
  <2> QED BY <2>2, MissedStep, ListStep
<1>3. I => NoHole
  <2> SUFFICES ASSUME I, pc = "tasks", initial_covered \subseteq skip,
                      NEW u \in Tasks \ skip, NEW t \in depends[u] \cap skip
               PROVE  t \in Fetched
    BY DEF NoHole
  <2>1. toremove = {} /\ t \in initial_covered
    BY DEF Rest, CoverInv
  <2>2. t \in scenequeue_covered
    BY <2>1 DEF SkipList
  <2>3. CASE t \in scenequeue_notneeded
    <3>1. Upwards(t, Setscene) \subseteq skip
      BY <2>1, <2>3 DEF SkipList
    <3>2. u \in revdeps(t)
      BY DEF revdeps
    <3> QED BY <3>1, <3>2, UpwardsClosed
  <2> QED BY <2>2, <2>3 DEF Fetched
<1> QED BY <1>1, <1>2, <1>3, PTL DEF Spec
=============================================================================
