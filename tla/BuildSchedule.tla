---------------------------- MODULE BuildSchedule ----------------------------
(***************************************************************************)
(* What BitBake promises about a set of tasks, without the machinery that  *)
(* keeps the promise: every task is settled at most once, in dependency    *)
(* order; at most NumberTasks run at a time; two tasks that share a stamp  *)
(* file never do.  A running task may also be abandoned, when the build is *)
(* aborted or its worker dies.  RunQueue implements this specification.    *)
(***************************************************************************)
EXTENDS Naturals, FiniteSets

CONSTANTS Tasks, Graphs, StampOf, NumberTasks

VARIABLES
  graph,   \* the dependencies of the build: [Tasks -> SUBSET Tasks]
  status   \* what has become of each task

vars == <<graph, status>>

InStatus(s) == {t \in Tasks : status[t] = s}
DepsDone(t) == graph[t] \subseteq InStatus("done")

Init == /\ graph \in Graphs
        /\ status = [t \in Tasks |-> "waiting"]

Move(t, from, to) == /\ status[t] = from
                     /\ status' = [status EXCEPT ![t] = to]
                     /\ UNCHANGED graph

(* A task is handed to a worker.                                           *)
Begin(t) == /\ DepsDone(t)
            /\ Cardinality(InStatus("running")) < NumberTasks
            /\ \A u \in InStatus("running") : StampOf[u] # StampOf[t]
            /\ Move(t, "waiting", "running")

(* A task is covered, current or has nothing to execute.                   *)
Skip(t) == DepsDone(t) /\ Move(t, "waiting", "done")

Finish(t) == Move(t, "running", "done")
Fail(t)   == Move(t, "running", "failed")

(* Running tasks whose exit code will never be known.                      *)
Abandon == \E lost \in SUBSET InStatus("running") :
             /\ status' = [t \in Tasks |-> IF t \in lost THEN "lost"
                                           ELSE status[t]]
             /\ UNCHANGED graph

Next == \/ \E t \in Tasks : Begin(t) \/ Skip(t) \/ Finish(t) \/ Fail(t)
        \/ Abandon

Spec == Init /\ [][Next]_vars
=============================================================================
