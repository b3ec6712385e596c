----------------------------- MODULE SceneGraph -----------------------------
(***************************************************************************)
(* How RunQueueExecuteScenequeue.__init__ collapses the graph of a build   *)
(* to its setscene tasks: process_endpoints walks from the tasks nothing   *)
(* depends on, and from below every setscene task, towards the             *)
(* dependencies, handing each task the setscene tasks it has met on the    *)
(* way, until it meets another setscene task.  It empties one dictionary   *)
(* of points, in whatever order it iterates, while it fills the next.      *)
(***************************************************************************)
EXTENDS Naturals, FiniteSets

CONSTANTS
  Tasks,     \* rqdata.runtaskentries' keys
  Setscene,  \* rqdata.runq_setscene_tids: tasks with a setscene variant
  Graphs     \* dependency maps of the builds: [Tasks -> SUBSET Tasks]

ASSUME TasksFinite == IsFiniteSet(Tasks)
ASSUME SetsceneType == Setscene \subseteq Tasks
ASSUME GraphsType == Graphs \subseteq [Tasks -> SUBSET Tasks]
(* RunQueueData.calculate_task_weights refuses a build whose tasks depend  *)
(* on each other in a circle: in every set one is no other's dependency.   *)
ASSUME GraphsAcyclic ==
  \A g \in Graphs : \A S \in (SUBSET Tasks) \ {{}} :
     \E t \in S : \A u \in S : t \notin g[u]

VARIABLES
  depends,        \* runtaskentries[t].depends
  sq_revdeps,     \* reverse dependencies process_endpoints has yet to come by
  sq_revdeps_new, \* setscene tasks met on the way to a task
  endpoints,      \* points to process, each with the setscene tasks it brings
  newendpoints    \* those of the next call of process_endpoints

graph == <<depends, sq_revdeps, sq_revdeps_new, endpoints, newendpoints>>

revdeps(t) == {u \in Tasks : t \in depends[u]}

(* What every set that is Closed has in common.                            *)
Least(S, Closed(_)) == {t \in S : \A T \in SUBSET S : Closed(T) => t \in T}

Empty == [p \in {} |-> {}]
Without(f, p) == [q \in DOMAIN f \ {p} |-> f[q]]

-----------------------------------------------------------------------------
Roots == {t \in Tasks : revdeps(t) = {}} \ Setscene
Below == UNION {depends[s] : s \in Setscene}

GraphInit ==
  /\ depends \in Graphs
  /\ sq_revdeps = [t \in Tasks |-> revdeps(t)]
  /\ sq_revdeps_new = [t \in Tasks |-> {}]
  /\ endpoints = [p \in Roots \cup Below |-> revdeps(p) \cap Setscene]
  /\ newendpoints = Empty

(* Mutated form: what another path had brought is forgotten.               *)
Carried_Own(p) == IF p \in Setscene THEN {} ELSE endpoints[p]

(* What point p hands to its dependencies: nothing beyond a setscene task. *)
Carried(p) == IF p \in Setscene THEN {} ELSE endpoints[p] \cup sq_revdeps_new[p]

(* One iteration of process_endpoints.                                     *)
Point(p) ==
  LET met  == endpoints[p] \cup sq_revdeps_new[p]
      left(t) == IF t \in depends[p] THEN sq_revdeps[t] \ {p} ELSE sq_revdeps[t]
      new(t)  == (IF t = p THEN IF p \in Setscene THEN met ELSE {}
                  ELSE sq_revdeps_new[t])
                 \cup IF t \in depends[p] THEN Carried(p) ELSE {}
      next == {t \in depends[p] \ Setscene : left(t) = {} \/ new(t) # {}}
  IN /\ sq_revdeps' = [t \in Tasks |-> left(t)]
     /\ sq_revdeps_new' = [t \in Tasks |-> new(t)]
     /\ newendpoints' = [t \in DOMAIN newendpoints \cup next |->
                           IF t \in next THEN endpoints[p] ELSE newendpoints[t]]
     /\ endpoints' = Without(endpoints, p)
     /\ UNCHANGED depends

(* The recursive call.                                                     *)
Deeper ==
  /\ endpoints = Empty /\ newendpoints # Empty
  /\ endpoints' = newendpoints /\ newendpoints' = Empty
  /\ UNCHANGED <<depends, sq_revdeps, sq_revdeps_new>>

Process == \/ \E p \in DOMAIN endpoints : Point(p)
           \/ Deeper

Collapsed == endpoints = Empty /\ newendpoints = Empty

-----------------------------------------------------------------------------
(* The reference: what lies above a task, up to the first setscene task on *)
(* every path, or all the way.                                             *)
Upwards(t, stops) ==
  Least(Tasks, LAMBDA S : /\ revdeps(t) \subseteq S
                          /\ \A u \in S \ stops : revdeps(u) \subseteq S)

Nearest(t) == Upwards(t, Setscene) \cap Setscene
Above(t)   == Upwards(t, {}) \cap Setscene

(* Setscene tasks the build refers to through ordinary tasks alone         *)
(* (process_endpoints2).                                                   *)
Unskippable == {t \in Setscene : Upwards(t, Setscene) \cap Roots # {}}

(* The collapse never "went badly wrong": an ordinary task keeps nothing,  *)
(* and a setscene task waits at least for the setscene tasks that use it   *)
(* without another in between, and for no task that does not use it.       *)
CollapseSound ==
  Collapsed => \A t \in Tasks :
    IF t \in Setscene
      THEN /\ Nearest(t) \subseteq sq_revdeps_new[t]
           /\ sq_revdeps_new[t] \subseteq Above(t)
      ELSE sq_revdeps_new[t] = {}
=============================================================================
