--------------------------- MODULE SceneGraphProofs ---------------------------
(***************************************************************************)
(* Proofs about SceneGraph, for any tasks and any graph, cyclic ones too:  *)
(* in whatever order process_endpoints takes its points, a setscene task   *)
(* ends up with the setscene tasks that use it without another in between, *)
(* and with none that does not use it.  On the way, a setscene task is     *)
(* always somewhere on each path from it down to the next one.             *)
(***************************************************************************)
EXTENDS SceneGraph, TLAPS

(* The types of the graph.                                                 *)
GraphType ==
  /\ depends \in [Tasks -> SUBSET Tasks]
  /\ sq_revdeps_new \in [Tasks -> SUBSET Setscene]
  /\ \A q \in DOMAIN endpoints : q \in Tasks /\ endpoints[q] \subseteq Setscene
  /\ \A q \in DOMAIN newendpoints : q \in Tasks /\ newendpoints[q] \subseteq Setscene

LEMMA PointTypes ==
  ASSUME GraphType, NEW q \in DOMAIN endpoints, Point(q)
  PROVE  GraphType'
<1> USE SetsceneType
<1> DEFINE met == endpoints[q] \cup sq_revdeps_new[q]
           left(t) == IF t \in depends[q] THEN sq_revdeps[t] \ {q} ELSE sq_revdeps[t]
           new(t) == (IF t = q THEN IF q \in Setscene THEN met ELSE {}
                      ELSE sq_revdeps_new[t])
                     \cup IF t \in depends[q] THEN Carried(q) ELSE {}
           next == {t \in depends[q] \ Setscene : left(t) = {} \/ new(t) # {}}
<1>1. q \in Tasks /\ endpoints[q] \subseteq Setscene /\ met \subseteq Setscene
  BY DEF GraphType
<1>2. Carried(q) \subseteq Setscene
  BY <1>1 DEF Carried
<1>3. \A t \in Tasks : new(t) \subseteq Setscene
  BY <1>1, <1>2 DEF GraphType
<1>4. sq_revdeps_new' = [t \in Tasks |-> new(t)]
  BY DEF Point
<1>5. next \subseteq Tasks
  BY <1>1 DEF GraphType
<1>6. newendpoints' = [t \in DOMAIN newendpoints \cup next |->
                         IF t \in next THEN endpoints[q] ELSE newendpoints[t]]
  BY DEF Point
<1>7. \A t \in DOMAIN newendpoints' :
         t \in Tasks /\ newendpoints'[t] \subseteq Setscene
  <2> HIDE DEF next
  <2> QED BY <1>1, <1>5, <1>6 DEF GraphType
<1>8. depends' = depends /\ endpoints' = Without(endpoints, q)
  BY DEF Point
<1>9. \A t \in DOMAIN endpoints' :
         t \in Tasks /\ endpoints'[t] \subseteq Setscene
  BY <1>8 DEF Without, GraphType
<1>10. sq_revdeps_new' \in [Tasks -> SUBSET Setscene]
  <2> HIDE DEF new
  <2> QED BY <1>3, <1>4
<1> QED BY <1>7, <1>8, <1>9, <1>10 DEF GraphType

LEMMA ProcessTypes == ASSUME GraphType, Process PROVE GraphType'
<1>1. CASE \E q \in DOMAIN endpoints : Point(q)
  BY <1>1, PointTypes
<1>2. CASE Deeper
  BY <1>2 DEF Deeper, Empty, GraphType
<1> QED BY <1>1, <1>2 DEF Process

LEMMA InitGraphType == GraphInit => GraphType
<1> SUFFICES ASSUME GraphInit PROVE GraphType
  OBVIOUS
<1> USE SetsceneType, GraphsType
<1>1. depends \in [Tasks -> SUBSET Tasks]
  BY DEF GraphInit
<1>2. Roots \cup Below \subseteq Tasks
  BY <1>1 DEF Roots, Below
<1> QED BY <1>1, <1>2 DEF GraphInit, GraphType, Empty

-----------------------------------------------------------------------------
(* What lies above a task.                                                 *)

(* The least set above t.                                                  *)
LEMMA UpwardsLeast ==
  ASSUME NEW t, NEW stops
  PROVE  Upwards(t, stops) =
           {u \in Tasks : \A S \in SUBSET Tasks :
              /\ revdeps(t) \subseteq S
              /\ \A v \in S \ stops : revdeps(v) \subseteq S
              => u \in S}
  BY DEF Upwards, Least

(* It holds what uses t, and what uses any task in it but for the stops.   *)
LEMMA UpwardsClosed ==
  ASSUME NEW t, NEW stops
  PROVE  /\ revdeps(t) \subseteq Upwards(t, stops)
         /\ \A u \in Upwards(t, stops) \ stops :
              revdeps(u) \subseteq Upwards(t, stops)
         /\ Upwards(t, stops) \subseteq Tasks
<1>1. \A u : revdeps(u) \subseteq Tasks
  BY DEF revdeps
<1> QED BY <1>1, UpwardsLeast

(* A way down from p to t starts with one of p's dependencies.             *)
LEMMA StepDown ==
  ASSUME NEW t \in Tasks, NEW stops, NEW p \in Upwards(t, stops)
  PROVE  \E v \in depends[p] : v = t \/ v \in Upwards(t, stops) \ stops
<1> SUFFICES ASSUME t \notin depends[p],
                    \A v \in Upwards(t, stops) \ stops : v \notin depends[p]
             PROVE  FALSE
  OBVIOUS
<1> DEFINE S == Upwards(t, stops) \ {p}
<1>1. S \in SUBSET Tasks
  BY UpwardsClosed
<1>2. revdeps(t) \subseteq S
  BY UpwardsClosed DEF revdeps
<1>3. \A v \in S \ stops : revdeps(v) \subseteq S
  BY UpwardsClosed DEF revdeps
<1>4. p \in S
  BY <1>1, <1>2, <1>3, UpwardsLeast
<1> QED BY <1>4

(* Above is transitive.                                                    *)
LEMMA AboveDown ==
  ASSUME NEW p \in Tasks, NEW t \in Tasks, t \in depends[p]
  PROVE  /\ Above(p) \subseteq Above(t)
         /\ p \in Setscene => p \in Above(t)
<1>1. p \in Upwards(t, {})
  BY UpwardsClosed DEF revdeps
<1>2. /\ Upwards(t, {}) \in SUBSET Tasks /\ revdeps(p) \subseteq Upwards(t, {})
      /\ \A v \in Upwards(t, {}) \ {} : revdeps(v) \subseteq Upwards(t, {})
  BY <1>1, UpwardsClosed
<1>3. \A u \in Upwards(p, {}) : u \in Upwards(t, {})
  BY <1>2, UpwardsLeast
<1> QED BY <1>1, <1>3 DEF Above

(* A graph that stays has the same tasks above each other.                 *)
LEMMA SameUpwards ==
  ASSUME depends' = depends
  PROVE  /\ \A t : revdeps(t)' = revdeps(t)
         /\ \A t, stops : Upwards(t, stops)' = Upwards(t, stops)
         /\ \A t : Nearest(t)' = Nearest(t) /\ Above(t)' = Above(t)
<1>1. \A t : revdeps(t)' = revdeps(t)
  BY DEF revdeps
<1>2. ASSUME NEW t, NEW stops PROVE Upwards(t, stops)' = Upwards(t, stops)
  BY <1>1 DEF Upwards, Least
<1> QED BY <1>1, <1>2 DEF Nearest, Above

-----------------------------------------------------------------------------
(* The collapse.                                                           *)

(* What one iteration does, task by task.                                  *)
LEMMA PointDoes ==
  ASSUME GraphType, NEW q \in DOMAIN endpoints, Point(q)
  PROVE  /\ depends' = depends
         /\ DOMAIN endpoints' = DOMAIN endpoints \ {q}
         /\ \A p \in DOMAIN endpoints' : endpoints'[p] = endpoints[p]
         /\ \A t \in Tasks \ {q} : sq_revdeps_new'[t] =
              sq_revdeps_new[t] \cup IF t \in depends[q] THEN Carried(q) ELSE {}
         /\ q \in Setscene =>
              sq_revdeps_new'[q] = endpoints[q] \cup sq_revdeps_new[q]
         /\ q \notin Setscene =>
              sq_revdeps_new'[q] = IF q \in depends[q] THEN Carried(q) ELSE {}
         /\ DOMAIN newendpoints \subseteq DOMAIN newendpoints'
         /\ \A t \in DOMAIN newendpoints' :
              \/ t \in depends[q] /\ newendpoints'[t] = endpoints[q]
              \/ t \in DOMAIN newendpoints /\ newendpoints'[t] = newendpoints[t]
         /\ \A t \in depends[q] \ Setscene :
              sq_revdeps_new'[t] # {} => t \in DOMAIN newendpoints'
<1> DEFINE met == endpoints[q] \cup sq_revdeps_new[q]
           left(t) == IF t \in depends[q] THEN sq_revdeps[t] \ {q} ELSE sq_revdeps[t]
           new(t) == (IF t = q THEN IF q \in Setscene THEN met ELSE {}
                      ELSE sq_revdeps_new[t])
                     \cup IF t \in depends[q] THEN Carried(q) ELSE {}
           next == {t \in depends[q] \ Setscene : left(t) = {} \/ new(t) # {}}
<1>1. /\ depends' = depends /\ endpoints' = Without(endpoints, q)
      /\ sq_revdeps_new' = [t \in Tasks |-> new(t)]
      /\ newendpoints' = [t \in DOMAIN newendpoints \cup next |->
                            IF t \in next THEN endpoints[q] ELSE newendpoints[t]]
  BY DEF Point
<1>2. q \in Tasks /\ depends[q] \subseteq Tasks
  BY DEF GraphType
<1>3. \A t \in Tasks : sq_revdeps_new'[t] = new(t)
  <2> HIDE DEF new
  <2> QED BY <1>1
<1>4. q \in Setscene => Carried(q) = {}
  BY DEF Carried
<1>5. \A t \in depends[q] \ Setscene : sq_revdeps_new'[t] # {} => t \in next
  BY <1>2, <1>3
<1>6. /\ DOMAIN newendpoints' = DOMAIN newendpoints \cup next
      /\ \A t \in DOMAIN newendpoints' :
           newendpoints'[t] = IF t \in next THEN endpoints[q] ELSE newendpoints[t]
  <2> HIDE DEF next
  <2> QED BY <1>1
<1>7. next \subseteq depends[q]
  OBVIOUS
<1>8. /\ \A t \in Tasks \ {q} : sq_revdeps_new'[t] =
           sq_revdeps_new[t] \cup IF t \in depends[q] THEN Carried(q) ELSE {}
      /\ q \in Setscene =>
           sq_revdeps_new'[q] = endpoints[q] \cup sq_revdeps_new[q]
      /\ q \notin Setscene =>
           sq_revdeps_new'[q] = IF q \in depends[q] THEN Carried(q) ELSE {}
  BY <1>2, <1>3, <1>4
<1>9. /\ DOMAIN endpoints' = DOMAIN endpoints \ {q}
      /\ \A p \in DOMAIN endpoints' : endpoints'[p] = endpoints[p]
  BY <1>1 DEF Without
<1> HIDE DEF next, new, left, met
<1> QED BY <1>1, <1>5, <1>6, <1>7, <1>8, <1>9

(* The setscene tasks that have come as far as t.                          *)
At(t) == sq_revdeps_new[t]
         \cup IF t \in DOMAIN endpoints THEN endpoints[t] ELSE {}

(* An ordinary task that has been handed any is a point to process.        *)
Scheduled ==
  \A t \in Tasks \ Setscene :
     sq_revdeps_new[t] # {} => t \in DOMAIN endpoints \cup DOMAIN newendpoints

(* A task is handed only what is above it.                                 *)
FromAbove ==
  /\ \A t \in Tasks : sq_revdeps_new[t] \subseteq Above(t)
  /\ \A t \in DOMAIN endpoints : endpoints[t] \subseteq Above(t)
  /\ \A t \in DOMAIN newendpoints : newendpoints[t] \subseteq Above(t)

(* A setscene task that t must wait for has come to t, or to a task on     *)
(* the way.                                                                *)
OnTheWay ==
  \A t \in Setscene : \A s \in Nearest(t) :
     s \in At(t) \/ \E u \in Upwards(t, Setscene) \ Setscene : s \in At(u)

GraphInv == GraphType /\ Scheduled /\ FromAbove /\ OnTheWay

LEMMA InitGraphInv == GraphInit => GraphInv
<1> SUFFICES ASSUME GraphInit PROVE GraphInv
  OBVIOUS
<1>1. GraphType
  BY InitGraphType
<1>2. /\ sq_revdeps_new = [t \in Tasks |-> {}] /\ newendpoints = Empty
      /\ endpoints = [p \in Roots \cup Below |-> revdeps(p) \cap Setscene]
  BY DEF GraphInit
<1>3. Scheduled
  BY <1>2 DEF Scheduled
<1>4. ASSUME NEW t \in DOMAIN endpoints PROVE endpoints[t] \subseteq Above(t)
  BY <1>2, UpwardsClosed DEF Above
<1>5. FromAbove
  BY <1>2, <1>4 DEF FromAbove, Empty
<1>6. ASSUME NEW t \in Setscene, NEW s \in Nearest(t)
      PROVE  s \in At(t) \/ \E u \in Upwards(t, Setscene) \ Setscene : s \in At(u)
  <2>1. s \in Setscene /\ s \in Upwards(t, Setscene) /\ s \in Tasks /\ t \in Tasks
    BY SetsceneType DEF Nearest
  <2>2. PICK v \in depends[s] : v = t \/ v \in Upwards(t, Setscene) \ Setscene
    BY <2>1, StepDown
  <2>3. v \in DOMAIN endpoints /\ s \in revdeps(v)
    BY <1>2, <2>1 DEF Below, revdeps
  <2>4. s \in At(v)
    BY <1>2, <2>1, <2>3 DEF At
  <2> QED BY <2>2, <2>4
<1> QED BY <1>1, <1>3, <1>5, <1>6 DEF GraphInv, OnTheWay

LEMMA PointScheduled ==
  ASSUME GraphInv, NEW q \in DOMAIN endpoints, Point(q)
  PROVE  Scheduled'
<1> SUFFICES ASSUME NEW t \in Tasks \ Setscene, sq_revdeps_new'[t] # {}
             PROVE  t \in DOMAIN endpoints' \cup DOMAIN newendpoints'
  BY DEF Scheduled
<1>1. CASE t \in depends[q]
  BY <1>1, PointDoes DEF GraphInv
<1>2. CASE t \notin depends[q]
  <2>1. q \notin Setscene /\ q \notin depends[q] => sq_revdeps_new'[q] = {}
    BY PointDoes DEF GraphInv
  <2>2. t # q
    BY <1>2, <2>1
  <2>3. t \in Tasks \ {q}
    BY <2>2
  <2>4. sq_revdeps_new'[t] =
          sq_revdeps_new[t] \cup IF t \in depends[q] THEN Carried(q) ELSE {}
    BY <2>3, PointDoes DEF GraphInv
  <2>5. sq_revdeps_new[t] # {}
    BY <1>2, <2>4
  <2>6. t \in DOMAIN endpoints \cup DOMAIN newendpoints
    BY <2>5 DEF GraphInv, Scheduled
  <2> QED BY <2>2, <2>6, PointDoes DEF GraphInv
<1> QED BY <1>1, <1>2

LEMMA PointFromAbove ==
  ASSUME GraphInv, NEW q \in DOMAIN endpoints, Point(q)
  PROVE  FromAbove'
<1>1. q \in Tasks /\ depends[q] \subseteq Tasks /\ GraphType
  BY DEF GraphInv, GraphType
<1>2. endpoints[q] \subseteq Above(q) /\ Carried(q) \subseteq Above(q)
      /\ sq_revdeps_new[q] \subseteq Above(q)
  BY <1>1 DEF GraphInv, FromAbove, Carried
<1>3. \A t \in depends[q] : Above(q) \subseteq Above(t)
  BY <1>1, AboveDown
<1>4. \A t : Above(t)' = Above(t)
  BY <1>1, PointDoes, SameUpwards
<1>5. ASSUME NEW t \in Tasks PROVE sq_revdeps_new'[t] \subseteq Above(t)
  <2>1. sq_revdeps_new[t] \subseteq Above(t)
    BY DEF GraphInv, FromAbove
  <2>2. t \in depends[q] => Carried(q) \subseteq Above(t)
    BY <1>2, <1>3
  <2>3. CASE t # q
    BY <1>1, <2>1, <2>2, <2>3, PointDoes
  <2>4. CASE t = q /\ q \in Setscene
    BY <1>1, <1>2, <2>4, PointDoes
  <2>5. CASE t = q /\ q \notin Setscene
    BY <1>1, <2>2, <2>5, PointDoes
  <2> QED BY <2>3, <2>4, <2>5
<1>6. ASSUME NEW t \in DOMAIN endpoints' PROVE endpoints'[t] \subseteq Above(t)
  BY <1>1, PointDoes DEF GraphInv, FromAbove
<1>7. ASSUME NEW t \in DOMAIN newendpoints'
      PROVE  newendpoints'[t] \subseteq Above(t)
  BY <1>1, <1>2, <1>3, PointDoes DEF GraphInv, FromAbove
<1> QED BY <1>4, <1>5, <1>6, <1>7 DEF FromAbove

LEMMA PointOnTheWay ==
  ASSUME GraphInv, NEW q \in DOMAIN endpoints, Point(q)
  PROVE  OnTheWay'
<1>1. q \in Tasks /\ depends[q] \subseteq Tasks /\ GraphType
  BY DEF GraphInv, GraphType
<1>2. ASSUME NEW t \in Tasks, NEW s \in At(t), t # q \/ q \in Setscene
      PROVE  s \in At(t)'
  BY <1>1, <1>2, PointDoes DEF At
<1>3. ASSUME NEW s \in At(q), q \notin Setscene, NEW t \in depends[q]
      PROVE  s \in At(t)'
  BY <1>1, <1>3, PointDoes DEF At, Carried
<1>4. ASSUME NEW t \in Setscene, NEW s \in Nearest(t)
      PROVE  \/ s \in At(t)'
             \/ \E u \in Upwards(t, Setscene) \ Setscene : s \in At(u)'
  <2>1. t \in Tasks /\ Upwards(t, Setscene) \subseteq Tasks
    BY SetsceneType, UpwardsClosed
  <2>2. CASE s \in At(t)
    BY <1>2, <2>1, <2>2
  <2>3. ASSUME NEW u \in Upwards(t, Setscene) \ Setscene, s \in At(u), u # q
        PROVE  s \in At(u)'
    BY <1>2, <2>1, <2>3
  <2>4. CASE q \in Upwards(t, Setscene) \ Setscene /\ s \in At(q)
    <3>1. PICK v \in depends[q] : v = t \/ v \in Upwards(t, Setscene) \ Setscene
      BY <2>1, <2>4, StepDown
    <3> QED BY <1>3, <2>4, <3>1
  <2> QED BY <2>2, <2>3, <2>4 DEF GraphInv, OnTheWay
<1>5. /\ \A t : Nearest(t)' = Nearest(t)
      /\ \A t, stops : Upwards(t, stops)' = Upwards(t, stops)
  BY <1>1, PointDoes, SameUpwards
<1> QED BY <1>4, <1>5 DEF OnTheWay

LEMMA GraphStep == GraphInv /\ [Process]_graph => GraphInv'
<1> SUFFICES ASSUME GraphInv, [Process]_graph PROVE GraphInv'
  OBVIOUS
<1>1. ASSUME NEW q \in DOMAIN endpoints, Point(q) PROVE GraphInv'
  BY <1>1, PointTypes, PointScheduled, PointFromAbove, PointOnTheWay
     DEF GraphInv
<1>2. CASE Deeper
  <2>1. /\ depends' = depends /\ sq_revdeps_new' = sq_revdeps_new
        /\ endpoints = Empty /\ endpoints' = newendpoints
        /\ newendpoints' = Empty
    BY <1>2 DEF Deeper
  <2>2. GraphType'
    BY <1>2, ProcessTypes DEF GraphInv, Process
  <2>3. Scheduled' /\ FromAbove'
    BY <2>1, SameUpwards DEF GraphInv, Scheduled, FromAbove, Empty
  <2>4. \A t : At(t) \subseteq At(t)'
    BY <2>1 DEF At, Empty
  <2>5. OnTheWay'
    BY <2>1, <2>4, SameUpwards DEF GraphInv, OnTheWay
  <2> QED BY <2>2, <2>3, <2>5 DEF GraphInv
<1>3. CASE UNCHANGED graph
  <2>1. \A t : At(t)' = At(t)
    BY <1>3 DEF graph, At
  <2> QED BY <1>3, <2>1, SameUpwards
          DEF graph, GraphInv, GraphType, Scheduled, FromAbove, OnTheWay
<1> QED BY <1>1, <1>2, <1>3 DEF Process

(* When no point is left, everything has arrived.                          *)
LEMMA GraphInvSound == GraphInv => CollapseSound
<1> SUFFICES ASSUME GraphInv, Collapsed, NEW t \in Tasks
             PROVE  IF t \in Setscene
                      THEN /\ Nearest(t) \subseteq sq_revdeps_new[t]
                           /\ sq_revdeps_new[t] \subseteq Above(t)
                      ELSE sq_revdeps_new[t] = {}
  BY DEF CollapseSound
<1>1. DOMAIN endpoints = {} /\ DOMAIN newendpoints = {}
  BY DEF Collapsed, Empty
<1>2. \A u \in Tasks \ Setscene : At(u) = {}
  BY <1>1 DEF GraphInv, Scheduled, At
<1>3. At(t) = sq_revdeps_new[t]
  BY <1>1 DEF At
<1>4. Upwards(t, Setscene) \subseteq Tasks
  BY UpwardsClosed
<1> QED BY <1>2, <1>3, <1>4 DEF GraphInv, OnTheWay, FromAbove

(* Whatever the graph, and in whatever order the points are taken, the     *)
(* collapse leaves no setscene task on an ordinary one, and a setscene     *)
(* task waits for all setscene tasks that use it with no other in between, *)
(* and for none that does not use it (process_endpoints).                  *)
THEOREM CollapseCorrect == GraphInit /\ [][Process]_graph => []CollapseSound
  BY InitGraphInv, GraphStep, GraphInvSound, PTL
=============================================================================
