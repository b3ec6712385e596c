---------------------------- MODULE CookerProofs ----------------------------
(***************************************************************************)
(* Proofs about Cooker for any recipes, number of parsers, number of       *)
(* changes and contents that cannot be parsed.  The invariants:            *)
(*   Ordered      the second a recipe is filed under is never later than   *)
(*                that of what was read of it, nor that newer than the     *)
(*                recipe;                                                  *)
(*   Counted      the results that were not taken are as many as recipes   *)
(*                are on their way, so that the counters of parse_next end *)
(*                a parse when everything is loaded (Control);             *)
(*   Halted       a stop is kept until the command that waits is refused;  *)
(*   Tidy         whenever there is nothing to shut down the pool is gone; *)
(*   Known        what the server knows of a recipe is, to the second,     *)
(*                what the recipe says, unless an event is on its way or   *)
(*                the change was missed, and Wanted, the same for what a   *)
(*                command waits for until its parse is complete.           *)
(***************************************************************************)
EXTENDS Cooker, FiniteSetTheorems, TLAPS

-----------------------------------------------------------------------------
(* Seconds.                                                                *)

LEMMA SecondType ==
  ASSUME NEW t \in Nat
  PROVE  Second(t) \in Nat /\ Second(0) = 0
  BY PoolAssumption DEF Second

LEMMA SecondOrder ==
  ASSUME NEW t \in Nat, NEW u \in Nat, t <= u
  PROVE  Second(t) <= Second(u)
  BY PoolAssumption DEF Second

-----------------------------------------------------------------------------
(* Types.                                                                  *)

LEMMA FilesFinite ==
  ASSUME NEW S \in SUBSET Files
  PROVE  IsFiniteSet(S) /\ Cardinality(S) \in Nat
  BY PoolAssumption, FS_Subset, FS_CardinalityType

LEMMA ProcessesType ==
  ASSUME NEW n \in Nat
  PROVE  Processes(n) \in Nat
  BY PoolAssumption DEF Processes

LEMMA RefreshedType ==
  ASSUME TypeOK, NEW changed
  PROVE  Refreshed(changed) \in [Files -> Nat \cup {None}]
  BY SecondType DEF TypeOK, PoolTypeOK, Refreshed

LEMMA NewParserType ==
  ASSUME TypeOK, NEW k \in Confs, NEW changed, NEW part, NewParser(k, changed, part)
  PROVE  PoolTypeOK'
<1> DEFINE found == [f \in Files |-> IF f \in part THEN saved[k][f] ELSE None]
           known == [f \in Files |-> IF found[f] # None /\ Refreshed(changed)[f] = None
                                     THEN Second(disk[f]) ELSE Refreshed(changed)[f]]
           valid == {f \in Files : found[f] # None /\ found[f].stamp = known[f]}
           n     == Cardinality(Files \ valid)
<1>1. found \in [Files -> Info \cup {None}]
  BY DEF TypeOK, PoolTypeOK
<1>2. known \in [Files -> Nat \cup {None}]
  BY RefreshedType, SecondType DEF TypeOK, PoolTypeOK
<1>3. n \in Nat
  BY FilesFinite
<1>4. Processes(n) \in Nat
  BY <1>3, ProcessesType
<1>5. [f \in Files |-> IF f \in valid THEN found[f] ELSE [content |-> 0, stamp |-> 0]]
         \in [Files -> Info]
  BY <1>1 DEF Info
<1>6. [f \in Files |-> IF f \in valid THEN "cached" ELSE "feeder"] \in [Files -> Places]
  BY DEF Places
<1>7. /\ mtime' = known
      /\ place' = [f \in Files |-> IF f \in valid THEN "cached" ELSE "feeder"]
      /\ info' = [f \in Files |-> IF f \in valid THEN found[f]
                                  ELSE [content |-> 0, stamp |-> 0]]
      /\ pcfg' = k /\ toparse' = n /\ parsed' = 0 /\ error' = FALSE
      /\ feeder' = IF n = 0 THEN "none" ELSE "run"
      /\ alive' = Processes(n) /\ tokens' = 0 /\ down' = FALSE
      /\ UNCHANGED <<disk, saved>>
  BY DEF NewParser
<1> HIDE DEF found, known, valid, n
<1> QED BY <1>2, <1>3, <1>4, <1>5, <1>6, <1>7 DEF TypeOK, PoolTypeOK

LEMMA StampType ==
  ASSUME TypeOK, NEW f \in Files
  PROVE  Stamp(f) \in Nat
  BY SecondType DEF Stamp, TypeOK, PoolTypeOK

LEMMA PoolStepType ==
  ASSUME TypeOK, PoolStep
  PROVE  PoolTypeOK'
<1> USE DEF TypeOK, PoolTypeOK, cache, parse, procs, Places
<1>1. CASE FeederEnds
  BY <1>1 DEF FeederEnds
<1>2. CASE ParserEnds
  <2>1. Cardinality(At("parsing")) \in Nat
    BY FilesFinite DEF At
  <2>2. alive - 1 \in Nat /\ tokens - 1 \in Nat
    BY <1>2, <2>1 DEF ParserEnds, IdleParser
  <2> QED BY <1>2, <2>2 DEF ParserEnds
<1>3. ASSUME NEW f \in Files, Feed(f) PROVE PoolTypeOK'
  BY <1>3 DEF Feed
<1>4. ASSUME NEW f \in Files, Take(f) PROVE PoolTypeOK'
  <2>1. info' \in [Files -> Info]
    BY <1>4, StampType DEF Take, Info
  <2> QED BY <1>4, <2>1 DEF Take
<1>5. ASSUME NEW f \in Files, Read(f) PROVE PoolTypeOK'
  <2>1. info' \in [Files -> Info]
    BY <1>5 DEF Read, Info
  <2> QED BY <1>5, <2>1 DEF Read
<1> QED BY <1>1, <1>2, <1>3, <1>4, <1>5 DEF PoolStep

LEMMA SaveType ==
  ASSUME TypeOK, Save
  PROVE  saved' \in [Confs -> [Files -> Info \cup {None}]]
<1> DEFINE new == [f \in Files |-> IF place[f] \in {"cached", "loaded"}
                                   THEN info[f] ELSE None]
<1>1. new \in [Files -> Info \cup {None}]
  BY DEF TypeOK, PoolTypeOK
<1>2. saved' = IF parsed = 0 THEN saved ELSE [saved EXCEPT ![pcfg] = new]
  BY DEF Save
<1> HIDE DEF new
<1> QED BY <1>1, <1>2 DEF TypeOK, PoolTypeOK

LEMMA TellType ==
  ASSUME TypeOK, Tell
  PROVE  /\ down' \in BOOLEAN /\ tokens' \in Nat /\ alive' \in Nat
         /\ feeder' \in {"none", "run", "told", "done"}
  BY DEF Tell, Tokens, TypeOK, PoolTypeOK

LEMMA KnowableType ==
  ASSUME TypeOK
  PROVE  Knowable \in [files : [Files -> Nat], conf : Confs]
<1>1. 0 \in Confs
  BY PoolAssumption DEF Confs
<1> QED BY <1>1, SecondType DEF Knowable, TypeOK, PoolTypeOK

LEMMA NothingType == Nothing \in [files : [Files -> Nat], conf : Confs]
  BY PoolAssumption DEF Nothing, Confs

LEMMA ChangeType ==
  ASSUME TypeOK, Change
  PROVE  now' \in Nat /\ now' \in Confs /\ now' > now
  BY PoolAssumption DEF Change, TypeOK, Confs

LEMMA InitTypes == Init => TypeOK
<1> SUFFICES ASSUME Init PROVE TypeOK
  OBVIOUS
<1>1. [content |-> 0, stamp |-> 0] \in Info
  BY DEF Info
<1>2. 0 \in Confs
  BY PoolAssumption DEF Confs
<1>3. PoolTypeOK
  BY <1>1, <1>2 DEF Init, PoolInit, PoolTypeOK, Places
<1> QED BY <1>2, <1>3, NothingType DEF Init, TypeOK, Stops

-----------------------------------------------------------------------------
(* The steps of Next, one by one.                                          *)

LEMMA NextCases ==
  ASSUME [Next]_vars
  PROVE  \/ Pool \/ EditConf \/ UpdateConfig \/ Signal
         \/ \E f \in Files : Edit(f) \/ Load(f) \/ Raise(f)
         \/ \E c \in {"build", "reset"} : Command(c)
         \/ \E force \in BOOLEAN : Stop(force)
         \/ Stopped \/ Early \/ Inotify \/ Refuse \/ Fail \/ Reset \/ Update \/ Prepare
         \/ Complete \/ Completed \/ Execute \/ BuildEnds
         \/ UNCHANGED vars
  BY DEF Next, World, Client, Serve

LEMMA NextTypes == TypeOK /\ [Next]_vars => TypeOK'
<1> SUFFICES ASSUME TypeOK, [Next]_vars PROVE TypeOK'
  OBVIOUS
<1> USE DEF pool, world, notes, caches, task, server, parse, procs, cache,
            Goto, Finish, Run, Stops
<1>1. CASE Pool
  <2>1. PoolTypeOK'
    BY <1>1, PoolStepType DEF Pool
  <2> QED BY <1>1, <2>1 DEF Pool, TypeOK
<1>2. CASE EditConf
  BY <1>2, ChangeType DEF EditConf, TypeOK, PoolTypeOK
<1>3. CASE UpdateConfig
  <2>1. PoolTypeOK'
    BY <1>3 DEF UpdateConfig, TypeOK, PoolTypeOK
  <2> QED BY <1>3, <2>1, ChangeType DEF UpdateConfig, TypeOK
<1>4. CASE Signal
  BY <1>4 DEF Signal, TypeOK, PoolTypeOK
<1>5. ASSUME NEW f \in Files, Edit(f) PROVE TypeOK'
  <2>1. now' \in Nat /\ disk' \in [Files -> Nat]
    BY <1>5, ChangeType DEF Edit, TypeOK, PoolTypeOK
  <2>2. overflowed' \in BOOLEAN /\ events' \subseteq Files /\ missed' \subseteq Files
    BY <1>5 DEF Edit, TypeOK
  <2> QED BY <1>5, <2>1, <2>2 DEF Edit, TypeOK, PoolTypeOK
<1>6. ASSUME NEW f \in Files, Load(f) PROVE TypeOK'
  BY <1>6 DEF Load, TypeOK, PoolTypeOK, Places
<1>7. ASSUME NEW f \in Files, Raise(f) PROVE TypeOK'
  <2>1. CASE MustStop
    BY <1>7, <2>1, TellType DEF Raise, TypeOK, PoolTypeOK
  <2>2. CASE ~MustStop
    BY <1>7, <2>2, NothingType DEF Raise, TypeOK, PoolTypeOK
  <2> QED BY <2>1, <2>2
<1>8. ASSUME NEW c \in {"build", "reset"}, Command(c) PROVE TypeOK'
  BY <1>8, KnowableType DEF Command, TypeOK, PoolTypeOK
<1>9. ASSUME NEW force \in BOOLEAN, Stop(force) PROVE TypeOK'
  <2>1. CASE MustStop
    BY <1>9, <2>1, TellType DEF Stop, TypeOK, PoolTypeOK
  <2>2. CASE ~MustStop
    BY <1>9, <2>2 DEF Stop, TypeOK, PoolTypeOK
  <2> QED BY <2>1, <2>2
<1>10. CASE Stopped
  BY <1>10, SaveType DEF Stopped, TypeOK, PoolTypeOK
<1>11. CASE Inotify
  BY <1>11 DEF Inotify, TypeOK, PoolTypeOK
<1>22. CASE Early
  BY <1>22 DEF Early, TypeOK, PoolTypeOK
<1>12. CASE Refuse
  <2>1. CASE MustStop
    BY <1>12, <2>1, TellType DEF Refuse, TypeOK, PoolTypeOK
  <2>2. CASE ~MustStop
    <3>1. PoolTypeOK'
      BY <1>12, <2>2 DEF Refuse, TypeOK, PoolTypeOK
    <3>2. Finish /\ UNCHANGED <<world, notes, caches, stopped>>
      BY <1>12, <2>2 DEF Refuse
    <3> QED BY <3>1, <3>2, NothingType DEF Finish, TypeOK
  <2> QED BY <2>1, <2>2
<1>13. CASE Fail
  <2>1. PoolTypeOK'
    BY <1>13, SaveType DEF Fail, TypeOK, PoolTypeOK
  <2> QED BY <1>13, <2>1, NothingType DEF Fail, TypeOK
<1>14. CASE Reset
  BY <1>14, NothingType DEF Reset, TypeOK, PoolTypeOK
<1>15. CASE Update
  BY <1>15 DEF Update, TypeOK, PoolTypeOK
<1>16. CASE Prepare
  <2>1. cfg' \in Confs
    BY <1>16 DEF Prepare, TypeOK
  <2>2. PoolTypeOK'
    <3>1. CASE parseValid /\ baseValid
      BY <1>16, <3>1, RefreshedType DEF Prepare, TypeOK, PoolTypeOK
    <3>2. CASE ~(parseValid /\ baseValid)
      BY <1>16, <3>2, <2>1, NewParserType DEF Prepare
    <3> QED BY <3>1, <3>2
  <2> QED BY <1>16, <2>1, <2>2 DEF Prepare, TypeOK
<1>17. CASE Complete
  <2>1. CASE MustStop
    BY <1>17, <2>1, TellType DEF Complete, TypeOK, PoolTypeOK
  <2>2. CASE ~MustStop
    <3>1. PoolTypeOK'
      BY <1>17, <2>2 DEF Complete, TypeOK, PoolTypeOK
    <3>2. CASE error
      BY <1>17, <2>2, <3>1, <3>2, NothingType DEF Complete, TypeOK
    <3>3. CASE ~error
      BY <1>17, <2>2, <3>1, <3>3 DEF Complete, TypeOK
    <3> QED BY <3>2, <3>3
  <2> QED BY <2>1, <2>2
<1>18. CASE Completed
  BY <1>18, SaveType DEF Completed, TypeOK, PoolTypeOK
<1>19. CASE Execute
  BY <1>19 DEF Execute, TypeOK, PoolTypeOK
<1>20. CASE BuildEnds
  BY <1>20, NothingType DEF BuildEnds, TypeOK, PoolTypeOK
<1>21. CASE UNCHANGED vars
  BY <1>21 DEF vars, TypeOK, PoolTypeOK
<1> QED
  BY NextCases, <1>1, <1>2, <1>3, <1>4, <1>5, <1>6, <1>7, <1>8, <1>9, <1>10, <1>11,
     <1>12, <1>13, <1>14, <1>15, <1>16, <1>17, <1>18, <1>19, <1>20, <1>21, <1>22

(* Every variable of the server, its parsers and its cache files keeps its *)
(* type, whatever changes, stops and fails.                                *)
THEOREM TypeCorrect == Spec => []TypeOK
  BY InitTypes, NextTypes, PTL DEF Spec

-----------------------------------------------------------------------------
(* What the steps do to recipes and to what is known of them.              *)

LEMMA SaveDoes ==
  ASSUME TypeOK, Save, NEW k \in Confs, NEW f \in Files, saved'[k][f] # None
  PROVE  \/ saved'[k][f] = saved[k][f]
         \/ place[f] \in {"cached", "loaded"} /\ saved'[k][f] = info[f]
<1> DEFINE new == [g \in Files |-> IF place[g] \in {"cached", "loaded"}
                                   THEN info[g] ELSE None]
<1>1. saved' = IF parsed = 0 THEN saved ELSE [saved EXCEPT ![pcfg] = new]
  BY DEF Save
<1>2. saved'[k] = saved[k] \/ saved'[k] = new
  BY <1>1 DEF TypeOK, PoolTypeOK
<1> QED BY <1>2

LEMMA NewParserDoes ==
  ASSUME TypeOK, NEW k \in Confs, NEW changed, NEW part, NewParser(k, changed, part)
  PROVE  /\ \A f \in Files :
              /\ \/ place'[f] = "cached" /\ saved[k][f] # None /\ info'[f] = saved[k][f]
                                         /\ saved[k][f].stamp = mtime'[f]
                 \/ place'[f] = "feeder" /\ info'[f] = [content |-> 0, stamp |-> 0]
              /\ \/ mtime'[f] = mtime[f] /\ (f \in changed => mtime[f] = None)
                 \/ mtime'[f] = Second(disk[f])
              /\ place'[f] = "feeder" =>
                   \/ mtime'[f] = mtime[f]
                   \/ mtime[f] # None /\ mtime'[f] = Second(disk[f])
                   \/ saved[k][f] # None /\ saved[k][f].stamp # mtime'[f]
         /\ toparse' = Cardinality({f \in Files : place'[f] = "feeder"})
         /\ toparse' = 0 => alive' = 0 /\ feeder' = "none"
         /\ pcfg' = k /\ parsed' = 0 /\ error' = FALSE /\ down' = FALSE
         /\ UNCHANGED <<disk, saved>>
<1> DEFINE found == [f \in Files |-> IF f \in part THEN saved[k][f] ELSE None]
           known == [f \in Files |-> IF found[f] # None /\ Refreshed(changed)[f] = None
                                     THEN Second(disk[f]) ELSE Refreshed(changed)[f]]
           valid == {f \in Files : found[f] # None /\ found[f].stamp = known[f]}
           n     == Cardinality(Files \ valid)
<1>1. /\ mtime' = known
      /\ place' = [f \in Files |-> IF f \in valid THEN "cached" ELSE "feeder"]
      /\ info' = [f \in Files |-> IF f \in valid THEN found[f]
                                  ELSE [content |-> 0, stamp |-> 0]]
      /\ pcfg' = k /\ toparse' = n /\ parsed' = 0 /\ error' = FALSE
      /\ feeder' = IF n = 0 THEN "none" ELSE "run"
      /\ alive' = Processes(n) /\ down' = FALSE
      /\ UNCHANGED <<disk, saved>>
  BY DEF NewParser
<1>2. {f \in Files : place'[f] = "feeder"} = Files \ valid
  BY <1>1
<1>3. n = 0 => Processes(n) = 0
  BY PoolAssumption DEF Processes
<1>4. ASSUME NEW f \in Files
      PROVE  \/ place'[f] = "cached" /\ saved[k][f] # None /\ info'[f] = saved[k][f]
                                     /\ saved[k][f].stamp = mtime'[f]
             \/ place'[f] = "feeder" /\ info'[f] = [content |-> 0, stamp |-> 0]
  BY <1>1
<1>5. ASSUME NEW f \in Files
      PROVE  \/ mtime'[f] = mtime[f] /\ (f \in changed => mtime[f] = None)
             \/ mtime'[f] = Second(disk[f])
  BY <1>1 DEF Refreshed
<1>9. ASSUME NEW f \in Files, place'[f] = "feeder"
      PROVE  \/ mtime'[f] = mtime[f]
             \/ mtime[f] # None /\ mtime'[f] = Second(disk[f])
             \/ saved[k][f] # None /\ saved[k][f].stamp # mtime'[f]
  <2>1. f \notin valid
    BY <1>1, <1>9
  <2>2. CASE found[f] = None
    BY <1>1, <2>2 DEF Refreshed
  <2>3. CASE found[f] # None
    BY <1>1, <2>1, <2>3
  <2> QED BY <2>2, <2>3
<1>6. toparse' = Cardinality({f \in Files : place'[f] = "feeder"})
  BY <1>1, <1>2
<1>7. toparse' = 0 => alive' = 0 /\ feeder' = "none"
  BY <1>1, <1>3
<1>8. /\ pcfg' = k /\ parsed' = 0 /\ error' = FALSE /\ down' = FALSE
      /\ UNCHANGED <<disk, saved>>
  BY <1>1
<1> HIDE DEF found, known, valid, n
<1> QED BY <1>4, <1>5, <1>6, <1>7, <1>8, <1>9

(* A recipe goes on its way through the queues.                            *)
Forth(f) ==
  \/ place[f] = "feeder" /\ place'[f] = "jobs" /\ info'[f] = info[f]
  \/ place[f] = "jobs" /\ place'[f] = "parsing"
     /\ info'[f].content = info[f].content /\ info'[f].stamp = Stamp(f)
  \/ place[f] = "parsing" /\ place'[f] = "result"
     /\ info'[f].content = disk[f] /\ info'[f].stamp = info[f].stamp

LEMMA PoolStepDoes ==
  ASSUME TypeOK, PoolStep
  PROVE  /\ \A f \in Files : Forth(f) \/ (place'[f] = place[f] /\ info'[f] = info[f])
         /\ UNCHANGED <<disk, mtime, saved, pcfg, toparse, parsed, error, down>>
<1> USE DEF TypeOK, PoolTypeOK, cache, parse, procs, Forth, Info
<1>1. CASE FeederEnds \/ ParserEnds
  BY <1>1 DEF FeederEnds, ParserEnds
<1>2. ASSUME NEW f \in Files, Feed(f)
      PROVE  \A g \in Files : Forth(g) \/ (place'[g] = place[g] /\ info'[g] = info[g])
  BY <1>2 DEF Feed
<1>3. ASSUME NEW f \in Files, Take(f)
      PROVE  \A g \in Files : Forth(g) \/ (place'[g] = place[g] /\ info'[g] = info[g])
  BY <1>3, StampType DEF Take
<1>4. ASSUME NEW f \in Files, Read(f)
      PROVE  \A g \in Files : Forth(g) \/ (place'[g] = place[g] /\ info'[g] = info[g])
  BY <1>4 DEF Read
<1> QED BY <1>1, <1>2, <1>3, <1>4 DEF PoolStep, Feed, Take, Read

LEMMA RefreshedDoes ==
  ASSUME NEW changed, mtime' = Refreshed(changed)
  PROVE  \A f \in Files : \/ mtime'[f] = mtime[f] /\ (f \in changed => mtime[f] = None)
                          \/ mtime'[f] = Second(disk[f])
  BY DEF Refreshed

(* A recipe is loaded.                                                     *)
Loaded(f) == /\ place[f] \in {"cached", "result"} /\ (place[f] = "result" => ~Fails(f))
             /\ place' = [place EXCEPT ![f] = "loaded"]
             /\ parsed' = IF place[f] = "result" THEN parsed + 1 ELSE parsed
             /\ UNCHANGED <<toparse, error>>

(* All the ways a step may have to do with recipes.                        *)
LEMMA RecipeCases ==
  ASSUME TypeOK, [Next]_vars
  PROVE  \/ PoolStep /\ UNCHANGED now
         \/ \E f \in Files : /\ disk' = [disk EXCEPT ![f] = now'] /\ now' > now
                             /\ UNCHANGED <<mtime, saved, parse>>
         \/ \E k \in Confs, part \in SUBSET Files : NewParser(k, modified, part)
                                                    /\ pc = "prepare" /\ UNCHANGED now
         \/ mtime' = Refreshed(modified) /\ UNCHANGED <<disk, now, saved, parse>>
         \/ Save /\ UNCHANGED <<disk, now, mtime, parse>>
         \/ \E f \in Files : /\ Loaded(f) /\ f \in watched'
                             /\ UNCHANGED <<disk, now, mtime, saved, info, pcfg>>
         \/ \E f \in Files : /\ place[f] = "result" /\ error' /\ (MustStop => down')
                             /\ UNCHANGED <<disk, now, mtime, saved, place, info, pcfg,
                                            toparse, parsed>>
         \/ now' >= now /\ UNCHANGED <<disk, mtime, saved, parse>>
<1> USE DEF pool, world, notes, caches, server, task, parse, procs, cache
<1>0. now \in Nat
  BY DEF TypeOK
<1>1. CASE Pool
  BY <1>1 DEF Pool
<1>2. CASE EditConf \/ UpdateConfig \/ Signal
  BY <1>0, <1>2, ChangeType DEF EditConf, UpdateConfig, Signal
<1>3. ASSUME NEW f \in Files, Edit(f)
      PROVE  /\ disk' = [disk EXCEPT ![f] = now'] /\ now' > now
             /\ UNCHANGED <<mtime, saved, parse>>
  BY <1>3, ChangeType DEF Edit
<1>4. ASSUME NEW f \in Files, Load(f)
      PROVE  /\ Loaded(f) /\ f \in watched'
             /\ UNCHANGED <<disk, now, mtime, saved, info, pcfg>>
  BY <1>4 DEF Load, Loaded, Upcoming, At
<1>5. ASSUME NEW f \in Files, Raise(f)
      PROVE  /\ place[f] = "result" /\ error' /\ (MustStop => down')
             /\ UNCHANGED <<disk, now, mtime, saved, place, info, pcfg, toparse, parsed>>
  BY <1>5 DEF Raise, Tell
<1>6. CASE Stopped \/ Fail \/ Completed
  BY <1>6 DEF Stopped, Fail, Completed
<1>7. CASE \/ Early \/ Inotify \/ Refuse \/ Reset \/ Update \/ Complete \/ Execute
           \/ BuildEnds
  BY <1>0, <1>7 DEF Early, Inotify, Refuse, Reset, Update, Complete, Execute, BuildEnds
<1>8. ASSUME NEW c \in {"build", "reset"}, Command(c)
      PROVE  UNCHANGED <<disk, now, mtime, saved, parse>>
  BY <1>8 DEF Command
<1>9. ASSUME NEW force \in BOOLEAN, Stop(force)
      PROVE  UNCHANGED <<disk, now, mtime, saved, parse>>
  BY <1>9 DEF Stop
<1>10. CASE Prepare
  <2>1. CASE parseValid /\ baseValid
    BY <1>10, <2>1 DEF Prepare
  <2>2. CASE ~(parseValid /\ baseValid)
    <3>1. cfg' \in Confs
      BY <1>10 DEF Prepare, TypeOK
    <3>2. PICK part \in {{}, Files} : NewParser(cfg', modified, part)
      BY <1>10, <2>2 DEF Prepare
    <3>3. pc = "prepare" /\ UNCHANGED now
      BY <1>10 DEF Prepare
    <3> QED BY <3>1, <3>2, <3>3
  <2> QED BY <2>1, <2>2
<1>11. CASE UNCHANGED vars
  BY <1>0, <1>11 DEF vars
<1> QED
  BY <1>0, NextCases, <1>1, <1>2, <1>3, <1>4, <1>5, <1>6, <1>7, <1>8, <1>9, <1>10, <1>11

-----------------------------------------------------------------------------
(* Entries of the cache files: the second a recipe is filed under is never *)
(* later than that of what was read of it, which is no newer than the      *)
(* recipe.                                                                 *)
Dated(e, f) == e.stamp <= Second(e.content) /\ e.content <= disk[f]

Ordered == \A f \in Files :
             /\ disk[f] <= now
             /\ mtime[f] # None => mtime[f] <= Second(disk[f])
             /\ info[f].stamp <= Second(disk[f])
             /\ place[f] \in {"cached", "result", "loaded"} => Dated(info[f], f)
             /\ \A k \in Confs : saved[k][f] # None => Dated(saved[k][f], f)

LEMMA StampOrder ==
  ASSUME TypeOK, Ordered, NEW f \in Files
  PROVE  Stamp(f) <= Second(disk[f])
  BY SecondType DEF Stamp, Ordered, TypeOK, PoolTypeOK

LEMMA InitOrdered == Init => Ordered
  BY PoolAssumption, SecondType DEF Init, PoolInit, Ordered, Dated, Confs

LEMMA NextOrdered == TypeOK /\ Ordered /\ [Next]_vars => Ordered'
<1> SUFFICES ASSUME TypeOK, Ordered, [Next]_vars PROVE Ordered'
  OBVIOUS
<1> TypeOK'
  BY NextTypes
<1>1. ASSUME PoolStep, UNCHANGED now PROVE Ordered'
  <2> SUFFICES ASSUME NEW f \in Files
               PROVE  /\ info'[f].stamp <= Second(disk[f])
                      /\ place'[f] \in {"cached", "result", "loaded"} =>
                            /\ info'[f].stamp <= Second(info'[f].content)
                            /\ info'[f].content <= disk[f]
    BY <1>1, PoolStepDoes DEF Ordered, Dated
  <2>1. /\ info[f].stamp <= Second(disk[f]) /\ Stamp(f) <= Second(disk[f])
        /\ place[f] \in {"cached", "result", "loaded"} =>
              info[f].stamp <= Second(info[f].content) /\ info[f].content <= disk[f]
    BY StampOrder DEF Ordered, Dated
  <2>2. disk[f] \in Nat
    BY DEF TypeOK, PoolTypeOK
  <2>3. Forth(f) \/ (place'[f] = place[f] /\ info'[f] = info[f])
    BY <1>1, PoolStepDoes
  <2> QED BY <2>1, <2>2, <2>3 DEF Forth
<1>2. ASSUME NEW f \in Files, disk' = [disk EXCEPT ![f] = now'], now' > now,
             UNCHANGED <<mtime, saved, parse>>
      PROVE  Ordered'
  <2>1. \A g \in Files : disk[g] <= disk'[g] /\ disk'[g] <= now'
    BY <1>2 DEF Ordered, TypeOK, PoolTypeOK
  <2>2. \A g \in Files : disk[g] \in Nat /\ disk'[g] \in Nat /\ mtime[g] \in Nat \cup {None}
                         /\ info[g].stamp \in Nat /\ info[g].content \in Nat
    BY DEF TypeOK, PoolTypeOK, Info
  <2>7. \A g \in Files : /\ Second(disk[g]) \in Nat /\ Second(disk'[g]) \in Nat
                         /\ Second(disk[g]) <= Second(disk'[g])
    BY <2>1, <2>2, SecondType, SecondOrder
  <2>3. \A g \in Files, k \in Confs : saved[k][g] # None =>
           saved[k][g].stamp \in Nat /\ saved[k][g].content \in Nat
    BY DEF TypeOK, PoolTypeOK, Info
  <2>4. \A g \in Files, k \in Confs : saved[k][g] # None => Dated(saved[k][g], g)'
    BY <1>2, <2>1, <2>2, <2>3 DEF Ordered, Dated
  <2>5. \A g \in Files : place[g] \in {"cached", "result", "loaded"} => Dated(info[g], g)'
    BY <1>2, <2>1, <2>2 DEF Ordered, Dated, parse
  <2>6. \A g \in Files : /\ mtime[g] # None => mtime[g] <= Second(disk'[g])
                         /\ info[g].stamp <= Second(disk'[g])
    BY <2>2, <2>7 DEF Ordered
  <2> QED BY <1>2, <2>1, <2>4, <2>5, <2>6 DEF Ordered, Dated, parse
<1>3. ASSUME NEW k \in Confs, NEW part \in SUBSET Files, NewParser(k, modified, part),
             UNCHANGED now
      PROVE  Ordered'
  <2>1. \A f \in Files : disk[f] \in Nat /\ Second(disk[f]) \in Nat
    BY SecondType DEF TypeOK, PoolTypeOK
  <2>2. ASSUME NEW f \in Files
        PROVE  /\ mtime'[f] # None => mtime'[f] <= Second(disk[f])
               /\ info'[f].stamp <= Second(disk[f])
               /\ place'[f] = "cached" => Dated(info'[f], f)
               /\ place'[f] \in {"cached", "feeder"}
    <3>1. mtime'[f] # None => mtime'[f] <= Second(disk[f])
      <4>1. mtime'[f] = mtime[f] \/ mtime'[f] = Second(disk[f])
        BY <1>3, NewParserDoes
      <4> QED BY <2>1, <4>1 DEF Ordered
    <3>2. CASE place'[f] = "cached" /\ saved[k][f] # None /\ info'[f] = saved[k][f]
      <4>1. Dated(info'[f], f) /\ info'[f] \in Info
        BY <3>2 DEF Ordered, TypeOK, PoolTypeOK
      <4>2. info'[f].stamp \in Nat /\ info'[f].content \in Nat
        BY <4>1 DEF Info
      <4>3. /\ Second(info'[f].content) \in Nat
            /\ Second(info'[f].content) <= Second(disk[f])
        BY <2>1, <4>1, <4>2, SecondType, SecondOrder DEF Dated
      <4>4. info'[f].stamp <= Second(disk[f])
        BY <2>1, <4>1, <4>2, <4>3 DEF Dated
      <4> QED BY <3>1, <3>2, <4>1, <4>4
    <3>3. CASE place'[f] = "feeder" /\ info'[f] = [content |-> 0, stamp |-> 0]
      BY <2>1, <3>1, <3>3
    <3> QED BY <1>3, <3>2, <3>3, NewParserDoes
  <2>3. UNCHANGED <<disk, saved>>
    BY <1>3, NewParserDoes
  <2> QED BY <1>3, <2>2, <2>3 DEF Ordered, Dated
<1>4. ASSUME mtime' = Refreshed(modified), UNCHANGED <<disk, now, saved, parse>>
      PROVE  Ordered'
  <2>1. \A f \in Files : Second(disk[f]) \in Nat
    BY SecondType DEF TypeOK, PoolTypeOK
  <2>2. \A f \in Files : mtime'[f] # None => mtime'[f] <= Second(disk[f])
    BY <1>4, <2>1, RefreshedDoes DEF Ordered
  <2> QED BY <1>4, <2>2 DEF Ordered, Dated, parse
<1>5. ASSUME Save, UNCHANGED <<disk, now, mtime, parse>> PROVE Ordered'
  <2>1. \A f \in Files, k \in Confs : saved'[k][f] # None => Dated(saved'[k][f], f)
    BY <1>5, SaveDoes DEF Ordered
  <2> QED BY <1>5, <2>1 DEF Ordered, Dated, parse
<1>6. ASSUME NEW f \in Files, Loaded(f), UNCHANGED <<disk, now, mtime, saved, info, pcfg>>
      PROVE  Ordered'
  <2>1. \A g \in Files : place'[g] \in {"cached", "result", "loaded"} =>
                         place[g] \in {"cached", "result", "loaded"}
    BY <1>6 DEF Loaded, TypeOK, PoolTypeOK
  <2> QED BY <1>6, <2>1 DEF Ordered, Dated
<1>7. ASSUME now' >= now, UNCHANGED <<disk, mtime, saved, place, info>>
      PROVE  Ordered'
  <2>1. \A f \in Files : disk[f] <= now'
    BY <1>7 DEF Ordered, TypeOK, PoolTypeOK
  <2> QED BY <1>7, <2>1 DEF Ordered, Dated
<1>8. now \in Nat
  BY DEF TypeOK
<1> QED BY RecipeCases, <1>1, <1>2, <1>3, <1>4, <1>5, <1>6, <1>7, <1>8 DEF parse

(* However a parse came to its end, an entry of a cache file that goes by  *)
(* the mtime a recipe has holds what the recipe said in the second of its  *)
(* last change (bb.cache.Cache.sync, cacheValidUpdate and the mtimes of    *)
(* bb.parse), for any recipes, number of parsers, changes and ticks of a   *)
(* second: nothing older, but maybe not the last of two changes in that    *)
(* second.                                                                 *)
THEOREM EntriesSoundCorrect == Spec => []EntriesSound
<1>1. TypeOK /\ Ordered => EntriesSound
  <2> SUFFICES ASSUME TypeOK, Ordered, NEW k \in Confs, NEW f \in Files,
                      saved[k][f] # None, saved[k][f].stamp = Second(disk[f])
               PROVE  Second(saved[k][f].content) = Second(disk[f])
    BY DEF EntriesSound
  <2>1. saved[k][f].content \in Nat /\ disk[f] \in Nat
    BY DEF TypeOK, PoolTypeOK, Info
  <2>2. Second(saved[k][f].content) \in Nat /\ Second(disk[f]) \in Nat
    BY <2>1, SecondType
  <2>3. Second(saved[k][f].content) <= Second(disk[f])
    BY <2>1, SecondOrder DEF Ordered, Dated
  <2> QED BY <2>2, <2>3 DEF Ordered, Dated
<1> QED BY InitTypes, NextTypes, InitOrdered, NextOrdered, <1>1, PTL DEF Spec

-----------------------------------------------------------------------------
(* Results are counted right, and only what could be parsed is kept.       *)
Remaining == {f \in Files : place[f] \in {"feeder", "jobs", "parsing", "result"}}

Counted == Cardinality(Remaining) + parsed = toparse

Readable == \A f \in Files :
              /\ place[f] \in {"cached", "loaded"} => info[f].content \notin Broken
              /\ \A k \in Confs : saved[k][f] # None => saved[k][f].content \notin Broken

LEMMA InitCounted == Init => Counted /\ Readable
<1> SUFFICES ASSUME Init PROVE Counted /\ Readable
  OBVIOUS
<1>1. Remaining = {}
  BY DEF Init, PoolInit, Remaining
<1> QED BY <1>1, FS_EmptySet, PoolAssumption DEF Init, PoolInit, Counted, Readable

LEMMA NextCounted == TypeOK /\ Counted /\ [Next]_vars => Counted'
<1> SUFFICES ASSUME TypeOK, Counted, [Next]_vars PROVE Counted'
  OBVIOUS
<1>1. ASSUME PoolStep PROVE Counted'
  <2>1. Remaining' = Remaining
    BY <1>1, PoolStepDoes DEF Remaining, Forth
  <2> QED BY <1>1, <2>1, PoolStepDoes DEF Counted
<1>2. ASSUME NEW k \in Confs, NEW part \in SUBSET Files, NewParser(k, modified, part)
      PROVE  Counted'
  <2>1. Remaining' = {f \in Files : place'[f] = "feeder"}
    BY <1>2, NewParserDoes DEF Remaining
  <2>2. toparse' = Cardinality(Remaining') /\ parsed' = 0
    BY <1>2, <2>1, NewParserDoes
  <2>3. Cardinality(Remaining') \in Nat
    BY <2>1, FilesFinite
  <2> QED BY <2>2, <2>3 DEF Counted
<1>3. ASSUME NEW f \in Files, Loaded(f) PROVE Counted'
  <2>1. Remaining' = Remaining \ {f}
    BY <1>3 DEF Loaded, Remaining, TypeOK, PoolTypeOK
  <2>2. f \in Remaining <=> place[f] = "result"
    BY <1>3 DEF Loaded, Remaining
  <2>3. IsFiniteSet(Remaining) /\ Cardinality(Remaining) \in Nat
    BY FilesFinite DEF Remaining
  <2>4. Cardinality(Remaining') = IF place[f] = "result" THEN Cardinality(Remaining) - 1
                                  ELSE Cardinality(Remaining)
    BY <2>1, <2>2, <2>3, FS_RemoveElement
  <2>5. parsed \in Nat /\ parsed' = IF place[f] = "result" THEN parsed + 1 ELSE parsed
    BY <1>3 DEF Loaded, TypeOK, PoolTypeOK
  <2> QED BY <1>3, <2>3, <2>4, <2>5 DEF Counted, Loaded
<1>4. ASSUME UNCHANGED <<place, toparse, parsed>> PROVE Counted'
  BY <1>4 DEF Counted, Remaining
<1> QED BY RecipeCases, <1>1, <1>2, <1>3, <1>4 DEF parse

LEMMA NextReadable == TypeOK /\ Readable /\ [Next]_vars => Readable'
<1> SUFFICES ASSUME TypeOK, Readable, [Next]_vars PROVE Readable'
  OBVIOUS
<1>1. ASSUME PoolStep PROVE Readable'
  BY <1>1, PoolStepDoes DEF Readable, Forth
<1>2. ASSUME NEW k \in Confs, NEW part \in SUBSET Files, NewParser(k, modified, part)
      PROVE  Readable'
  <2>1. \A f \in Files : place'[f] = "cached" => info'[f].content \notin Broken
    BY <1>2, NewParserDoes DEF Readable
  <2> QED BY <1>2, <2>1, NewParserDoes DEF Readable
<1>3. ASSUME NEW f \in Files, Loaded(f), UNCHANGED <<saved, info>> PROVE Readable'
  BY <1>3 DEF Loaded, Fails, Readable, TypeOK, PoolTypeOK
<1>4. ASSUME Save, UNCHANGED parse PROVE Readable'
  <2>1. \A f \in Files, k \in Confs : saved'[k][f] # None =>
                                       saved'[k][f].content \notin Broken
    BY <1>4, SaveDoes DEF Readable
  <2> QED BY <1>4, <2>1 DEF Readable, parse
<1>5. ASSUME UNCHANGED <<place, info, saved>> PROVE Readable'
  BY <1>5 DEF Readable
<1> QED BY RecipeCases, <1>1, <1>2, <1>3, <1>4, <1>5 DEF parse

-----------------------------------------------------------------------------
(* When a parse is complete.                                               *)
AllLoaded == ~error /\ \A f \in Files : place[f] = "loaded"

Control ==
  /\ error => ~MustStop
  /\ (parseValid \/ st \in {"parsing", "running"} \/ pc \in {"next", "completing"})
        => \A f \in Files : place[f] # "nowhere"
  /\ st = "running" \/ pc = "completing" \/ building => AllLoaded
  /\ st = "running" => pc \in {"main", "idle", "async"}
  /\ building => pc \in {"main", "idle", "stopping", "forcing"}
  /\ late => pc \notin {"idle", "stopping", "forcing"}

LEMMA ExhaustedMeans ==
  ASSUME TypeOK, Counted, Control, pc = "next", Exhausted, ~error
  PROVE  AllLoaded
<1>1. At("cached") = {} /\ parsed >= toparse
  BY DEF Exhausted
<1>2. IsFiniteSet(Remaining) /\ Cardinality(Remaining) \in Nat
  BY FilesFinite DEF Remaining
<1>3. Cardinality(Remaining) = 0
  <2>1. parsed \in Nat /\ toparse \in Nat
    BY DEF TypeOK, PoolTypeOK
  <2> QED BY <1>1, <1>2, <2>1 DEF Counted
<1>4. Remaining = {}
  BY <1>2, <1>3, FS_EmptySet
<1>5. ASSUME NEW f \in Files PROVE place[f] = "loaded"
  <2>1. place[f] \in Places /\ place[f] # "nowhere"
    BY DEF Control, TypeOK, PoolTypeOK
  <2>2. place[f] # "cached" /\ f \notin Remaining
    BY <1>1, <1>4 DEF At
  <2> QED BY <2>1, <2>2 DEF Places, Remaining
<1> QED BY <1>5 DEF AllLoaded

LEMMA InitControl == Init => Control
  BY DEF Init, PoolInit, Control, MustStop, AllLoaded

LEMMA NextControl == TypeOK /\ Counted /\ Control /\ [Next]_vars => Control'
<1> SUFFICES ASSUME TypeOK, Counted, Control, [Next]_vars PROVE Control'
  OBVIOUS
<1> USE DEF pool, world, notes, caches, server, task, parse, procs, cache,
            Goto, Run, MustStop, Stops
<1>1. CASE Pool
  <2>1. \A f \in Files : /\ place[f] = "loaded" => place'[f] = "loaded"
                         /\ place[f] # "nowhere" => place'[f] # "nowhere"
    BY <1>1, PoolStepDoes DEF Pool, Forth
  <2>2. UNCHANGED <<error, toparse, down>>
    BY <1>1, PoolStepDoes DEF Pool
  <2> QED BY <1>1, <2>1, <2>2 DEF Pool, Control, AllLoaded
<1>2. CASE EditConf \/ UpdateConfig \/ Signal
  BY <1>2 DEF EditConf, UpdateConfig, MayCommand, Signal, Control, AllLoaded
<1>3. ASSUME NEW f \in Files, Edit(f) PROVE Control'
  BY <1>3 DEF Edit, Control, AllLoaded
<1>4. ASSUME NEW f \in Files, Load(f) PROVE Control'
  BY <1>4 DEF Load, Control, AllLoaded, TypeOK, PoolTypeOK
<1>5. ASSUME NEW f \in Files, Raise(f) PROVE Control'
  <2>1. CASE MustStop
    BY <1>5, <2>1 DEF Raise, Tell, Control, AllLoaded
  <2>2. CASE ~MustStop
    BY <1>5, <2>2 DEF Raise, Finish, Control, AllLoaded
  <2> QED BY <2>1, <2>2
<1>6. ASSUME NEW c \in {"build", "reset"}, Command(c) PROVE Control'
  BY <1>6 DEF Command, MayCommand, Control, AllLoaded
<1>7. ASSUME NEW force \in BOOLEAN, Stop(force) PROVE Control'
  BY <1>7 DEF Stop, Tell, Control, AllLoaded
<1>8. CASE Stopped \/ Fail
  <2>1. CASE Stopped
    BY <2>1 DEF Stopped, Control, AllLoaded
  <2>2. CASE Fail
    BY <2>2 DEF Fail, Finish, Control, AllLoaded
  <2> QED BY <1>8, <2>1, <2>2
<1>9. CASE Early \/ Inotify
  <2>1. CASE Early
    BY <2>1 DEF Early, Control, AllLoaded
  <2>2. CASE Inotify
    BY <2>2 DEF Inotify, Control, AllLoaded
  <2> QED BY <1>9, <2>1, <2>2
<1>10. CASE Refuse
  BY <1>10 DEF Refuse, Tell, Finish, Control, AllLoaded
<1>11. CASE Reset \/ BuildEnds
  BY <1>11 DEF Reset, BuildEnds, Finish, Control, AllLoaded
<1>12. CASE Update
  BY <1>12 DEF Update, Control, AllLoaded
<1>13. CASE Prepare
  <2>1. CASE parseValid /\ baseValid
    BY <1>13, <2>1 DEF Prepare, Control, AllLoaded
  <2>2. CASE ~(parseValid /\ baseValid)
    <3>1. cfg' \in Confs
      BY <1>13 DEF Prepare, TypeOK
    <3>2. PICK part \in {{}, Files} : NewParser(cfg', modified, part)
      BY <1>13, <2>2 DEF Prepare
    <3>3. error' = FALSE /\ \A f \in Files : place'[f] # "nowhere"
      BY <3>1, <3>2, NewParserDoes
    <3> QED BY <1>13, <3>3 DEF Prepare, Control
  <2> QED BY <2>1, <2>2
<1>14. CASE Complete
  <2>1. CASE error
    BY <1>14, <2>1 DEF Complete, Finish, Control, AllLoaded
  <2>2. CASE ~error
    BY <1>14, <2>2, ExhaustedMeans DEF Complete, Tell, Control, AllLoaded
  <2> QED BY <2>1, <2>2
<1>15. CASE Completed
  BY <1>15 DEF Completed, Control, AllLoaded
<1>16. CASE Execute
  BY <1>16 DEF Execute, Control, AllLoaded
<1>17. CASE UNCHANGED vars
  BY <1>17 DEF vars, Control, AllLoaded
<1> QED
  BY NextCases, <1>1, <1>2, <1>3, <1>4, <1>5, <1>6, <1>7, <1>8, <1>9, <1>10, <1>11,
     <1>12, <1>13, <1>14, <1>15, <1>16, <1>17

(* A command that needs the cache runs with the information of every       *)
(* recipe, each of which could be parsed (CookerParser.parse_next and      *)
(* shutdown, BBCooker.updateCache), for any recipes, number of parsers,    *)
(* changes and contents that cannot be parsed.                             *)
THEOREM CacheCompleteCorrect == Spec => []CacheComplete
<1>1. Control /\ Readable => CacheComplete
  BY DEF Control, Readable, AllLoaded, CacheComplete
<1> QED
  BY InitTypes, NextTypes, InitCounted, NextCounted, NextReadable, InitControl,
     NextControl, <1>1, PTL DEF Spec

-----------------------------------------------------------------------------
(* Stops.                                                                  *)
Halted ==
  /\ pc = "async" => cmd # "none"
  /\ stopped = "stop" => /\ pc \in {"main", "idle", "stopping", "forcing", "async", "refusing"}
                         /\ st \in Stops \/ (cmd = "none" /\ st = "initial")

LEMMA InitHalted == Init => Halted
  BY DEF Init, PoolInit, Halted

LEMMA NextHalted ==
  ASSUME ~Stays PROVE TypeOK /\ Halted /\ [Next]_vars => Halted'
<1> SUFFICES ASSUME TypeOK, Halted, [Next]_vars PROVE Halted'
  OBVIOUS
<1> USE DEF world, notes, caches, server, task, Goto, Run, Finish, Stops, Halted
<1>1. CASE Pool
  BY <1>1 DEF Pool
<1>2. CASE EditConf \/ UpdateConfig \/ Signal
  BY <1>2 DEF EditConf, UpdateConfig, Signal, MayCommand
<1>3. ASSUME NEW f \in Files, Edit(f) \/ Load(f) PROVE Halted'
  BY <1>3 DEF Edit, Load
<1>4. ASSUME NEW f \in Files, Raise(f) PROVE Halted'
  BY <1>4 DEF Raise
<1>5. ASSUME NEW c \in {"build", "reset"}, Command(c) PROVE Halted'
  BY <1>5 DEF Command, MayCommand
<1>6. ASSUME NEW force \in BOOLEAN, Stop(force) PROVE Halted'
  BY <1>6 DEF Stop
<1>7. CASE Stopped \/ Fail
  BY <1>7 DEF Stopped, Fail
<1>8. CASE Early \/ Inotify \/ Reset \/ Update \/ BuildEnds
  BY <1>8 DEF Early, Inotify, Reset, Update, BuildEnds
<1>9. CASE Refuse
  BY <1>9 DEF Refuse
<1>10. CASE Prepare \/ Completed \/ Execute
  BY <1>10 DEF Prepare, Completed, Execute
<1>11. CASE Complete
  BY <1>11 DEF Complete
<1>12. CASE UNCHANGED vars
  BY <1>12 DEF vars
<1> QED
  BY NextCases, <1>1, <1>2, <1>3, <1>4, <1>5, <1>6, <1>7, <1>8, <1>9, <1>10, <1>11, <1>12

(* Only Execute starts a command.                                          *)
LEMMA StartsByExecute ==
  ASSUME TypeOK, [Next]_vars, ~building, building'
  PROVE  Execute
<1> USE DEF world, notes, caches, server, task, Goto, Run, Finish
<1>1. \A f \in Files : ~Edit(f) /\ ~Load(f) /\ ~Raise(f)
  BY DEF Edit, Load, Raise
<1>2. \A c \in {"build", "reset"} : ~Command(c)
  BY DEF Command
<1>3. \A force \in BOOLEAN : ~Stop(force)
  BY DEF Stop
<1>4. ~Pool /\ ~EditConf /\ ~UpdateConfig /\ ~Signal /\ ~(UNCHANGED vars)
  BY DEF Pool, EditConf, UpdateConfig, Signal, vars
<1>5. ~Stopped /\ ~Early /\ ~Inotify /\ ~Refuse /\ ~Fail /\ ~Reset /\ ~Update /\ ~Prepare
  BY DEF Stopped, Early, Inotify, Refuse, Fail, Reset, Update, Prepare
<1>6. ~Complete /\ ~Completed /\ ~BuildEnds
  BY DEF Complete, Completed, BuildEnds
<1> QED BY NextCases, <1>1, <1>2, <1>3, <1>4, <1>5, <1>6

(* After stateShutdown or stateForceShutdown no command that waited for    *)
(* its parse is run (BBCooker.shutdown, Command.runAsyncCommand), whatever *)
(* step of the parse the stop came between, by a server that goes with its *)
(* UI.                                                                     *)
THEOREM StopHonouredCorrect == ASSUME ~Stays PROVE Spec => StopHonoured
<1>1. TypeOK /\ Halted /\ [Next]_vars => [~building /\ building' => stopped # "stop"]_vars
  <2> SUFFICES ASSUME TypeOK, Halted, [Next]_vars, ~building, building'
               PROVE  stopped # "stop"
    OBVIOUS
  <2> QED BY StartsByExecute DEF Execute, Halted, Stops
<1> QED BY InitTypes, NextTypes, InitHalted, NextHalted, <1>1, PTL DEF Spec, StopHonoured

-----------------------------------------------------------------------------
(* Processes that are left.                                                *)
Quiet == alive = 0 /\ feeder \in {"none", "done"}

Tidy ==
  stopped = "no" =>
    /\ st \notin {"shutdown", "forceshutdown"}
    /\ pc \notin {"stopping", "forcing", "refusing"}
    /\ st = "error" => toparse = 0 /\ pc \in {"main", "idle", "async"}
    /\ pc \in {"prepare", "next", "failing", "completing"} => cmd = "build"
    /\ building => cmd = "build" /\ st = "running"
    /\ pc \in {"failing", "completing"} => down
    /\ cmd \in {"none", "reset"} \/ st = "running" => ~MustStop
    /\ ~MustStop /\ pc \notin {"failing", "completing"} => Quiet

LEMMA PoolQuiet ==
  ASSUME TypeOK, PoolStep, Quiet
  PROVE  Quiet'
<1>1. Cardinality(At("parsing")) \in Nat
  BY FilesFinite DEF At
<1>2. ~ParserEnds
  BY <1>1 DEF ParserEnds, IdleParser, Quiet
<1>3. ~FeederEnds
  BY DEF FeederEnds, Quiet
<1> QED BY <1>2, <1>3 DEF PoolStep, Feed, Take, Read, procs, Quiet

LEMMA InitTidy == Init => Tidy
  BY DEF Init, PoolInit, Tidy, MustStop, Quiet

LEMMA NextTidy == TypeOK /\ Control /\ Tidy /\ [Next]_vars => Tidy'
<1> SUFFICES ASSUME TypeOK, Control, Tidy, [Next]_vars, stopped' = "no" PROVE Tidy'
  BY DEF Tidy
<1> USE DEF pool, world, notes, caches, server, task, parse, procs, Goto, Run, MustStop, Stops
<1>1. CASE Pool
  BY <1>1, PoolStepDoes, PoolQuiet DEF Pool, Tidy
<1>2. CASE EditConf \/ UpdateConfig \/ Signal
  BY <1>2 DEF EditConf, UpdateConfig, Signal, MayCommand, Tidy, Quiet, Control
<1>3. ASSUME NEW f \in Files, Edit(f) \/ Load(f) PROVE Tidy'
  BY <1>3 DEF Edit, Load, Tidy, Quiet
<1>4. ASSUME NEW f \in Files, Raise(f) PROVE Tidy'
  <2>1. CASE MustStop
    BY <1>4, <2>1 DEF Raise, Tell, Tidy, Quiet, Control
  <2>2. CASE ~MustStop
    BY <1>4, <2>2 DEF Raise, Finish, Tidy, Quiet, Control
  <2> QED BY <2>1, <2>2
<1>5. ASSUME NEW c \in {"build", "reset"}, Command(c) PROVE Tidy'
  BY <1>5 DEF Command, MayCommand, Tidy, Quiet
<1>6. ASSUME NEW force \in BOOLEAN, Stop(force) PROVE Tidy'
  BY <1>6 DEF Stop
<1>7. CASE Stopped
  BY <1>7 DEF Stopped, Tidy
<1>8. CASE Fail
  BY <1>8 DEF Fail, Finish, Joined, Tidy, Quiet, Control
<1>9. CASE Early \/ Inotify
  BY <1>9 DEF Early, Inotify, Tidy, Quiet
<1>10. CASE Refuse
  BY <1>10 DEF Refuse, Finish, Tidy, Quiet, Control
<1>11. CASE Reset \/ BuildEnds
  BY <1>11 DEF Reset, BuildEnds, Finish, Tidy, Quiet
<1>12. CASE Update
  BY <1>12 DEF Update, Tidy, Quiet
<1>13. CASE Prepare
  <2>1. CASE parseValid /\ baseValid
    BY <1>13, <2>1 DEF Prepare, Tidy, Quiet, Control
  <2>2. CASE ~(parseValid /\ baseValid)
    <3>1. cfg' \in Confs
      BY <1>13 DEF Prepare, TypeOK
    <3>2. PICK part \in {{}, Files} : NewParser(cfg', modified, part)
      BY <1>13, <2>2 DEF Prepare
    <3>3. /\ toparse' = 0 => alive' = 0 /\ feeder' = "none"
          /\ down' = FALSE
      BY <3>1, <3>2, NewParserDoes
    <3>4. toparse' \in Nat
      BY NextTypes DEF TypeOK, PoolTypeOK
    <3> QED BY <1>13, <3>3, <3>4 DEF Prepare, Tidy, Quiet, Control
  <2> QED BY <2>1, <2>2
<1>14. CASE Complete
  <2>1. CASE MustStop
    BY <1>14, <2>1 DEF Complete, Tell, Tidy, Quiet, Control
  <2>2. CASE ~MustStop
    BY <1>14, <2>2 DEF Complete, Finish, Tidy, Quiet, Control
  <2> QED BY <2>1, <2>2
<1>15. CASE Completed
  BY <1>15 DEF Completed, Joined, Tidy, Quiet, Control
<1>16. CASE Execute
  BY <1>16 DEF Execute, Tidy, Quiet
<1>17. CASE UNCHANGED vars
  BY <1>17 DEF vars, Tidy, Quiet
<1> QED
  BY NextCases, <1>1, <1>2, <1>3, <1>4, <1>5, <1>6, <1>7, <1>8, <1>9, <1>10, <1>11,
     <1>12, <1>13, <1>14, <1>15, <1>16, <1>17

(* A server that waits for commands and was not stopped has no feeder and  *)
(* no parsers left, whichever way its last parse ended                     *)
(* (CookerParser.shutdown and its callers), for any number of parsers.     *)
THEOREM NoProcessLeftCorrect == Spec => []NoProcessLeft
<1>1. Tidy => NoProcessLeft
  BY DEF Tidy, Quiet, NoProcessLeft
<1> QED
  BY InitTypes, NextTypes, InitCounted, NextCounted, InitControl, NextControl,
     InitTidy, NextTidy, <1>1, PTL DEF Spec

-----------------------------------------------------------------------------
(* A recipe whose directory is not watched is known by the caches of an    *)
(* earlier server only; what is not loaded from the cache was looked at    *)
(* after it had changed.                                                   *)
Blank == [content |-> 0, stamp |-> 0]

Unwatched == \A f \in Files \ watched :
               /\ \A k \in Confs : saved[k][f] \in {None, Blank}
               /\ mtime[f] = 0 => place[f] = "cached"
               /\ place[f] = "cached" => info[f] = Blank
               /\ place[f] # "loaded"

LEMMA WatchedGrows ==
  ASSUME TypeOK, [Next]_vars
  PROVE  watched \subseteq watched'
<1> USE DEF notes
<1>1. \A f \in Files : Edit(f) \/ Load(f) \/ Raise(f) => watched \subseteq watched'
  BY DEF Edit, Load, Raise
<1>2. Pool \/ EditConf \/ UpdateConfig \/ Signal \/ Stopped \/ Early \/ Inotify
        => watched' = watched
  BY DEF Pool, EditConf, UpdateConfig, Signal, Stopped, Early, Inotify
<1>3. \A c \in {"build", "reset"} : Command(c) => watched' = watched
  BY DEF Command
<1>4. \A force \in BOOLEAN : Stop(force) => watched' = watched
  BY DEF Stop
<1>5. Refuse \/ Fail \/ Reset \/ Update \/ Prepare => watched' = watched
  BY DEF Refuse, Fail, Reset, Update, Prepare
<1>6. Complete \/ Completed \/ Execute \/ BuildEnds => watched' = watched
  BY DEF Complete, Completed, Execute, BuildEnds
<1>7. UNCHANGED vars => watched' = watched
  BY DEF vars
<1> QED BY NextCases, <1>1, <1>2, <1>3, <1>4, <1>5, <1>6, <1>7

(* No parse ends with recipes it had still to load from the cache, but for *)
(* a stop, after which there is no other.                                  *)
CachedFirst ==
  /\ st \in {"parsing", "running"} \/ pc \in {"prepare", "next", "failing", "completing"}
        => cmd = "build"
  /\ pc = "next" /\ stopped = "no" => st = "parsing"
  /\ pc \in {"stopping", "forcing", "refusing"} => st \in Stops
  /\ stopped # "no" /\ st = "initial" => cmd = "none"
  /\ (error \/ pc \in {"prepare", "failing", "completing"}
            \/ (stopped = "no" /\ st # "parsing"))
        => At("cached") = {}

LEMMA InitUnwatched == Init => Unwatched /\ CachedFirst
  BY PoolAssumption DEF Init, PoolInit, Unwatched, CachedFirst, Blank, Stops, At

LEMMA NextUnwatched ==
  TypeOK /\ Ordered /\ CachedFirst /\ Unwatched /\ [Next]_vars => Unwatched'
<1> SUFFICES ASSUME TypeOK, Ordered, CachedFirst, Unwatched, [Next]_vars,
                    NEW f \in Files \ watched'
             PROVE  /\ \A k \in Confs : saved'[k][f] \in {None, Blank}
                    /\ mtime'[f] = 0 => place'[f] = "cached"
                    /\ place'[f] = "cached" => info'[f] = Blank
                    /\ place'[f] # "loaded"
  BY DEF Unwatched
<1>1. /\ f \in Files /\ f \notin watched
      /\ \A k \in Confs : saved[k][f] \in {None, Blank}
      /\ mtime[f] = 0 => place[f] = "cached"
      /\ place[f] = "cached" => info[f] = Blank
      /\ place[f] # "loaded"
  BY WatchedGrows DEF Unwatched
<1>2. /\ Second(disk[f]) \in Nat /\ mtime[f] \in Nat \cup {None}
      /\ mtime[f] # None => mtime[f] <= Second(disk[f])
  BY <1>1, SecondType DEF TypeOK, PoolTypeOK, Ordered
<1>a. None \notin Nat
  BY PoolAssumption
<1>3. CASE PoolStep
  BY <1>1, <1>3, PoolStepDoes DEF Forth
<1>4. ASSUME NEW k \in Confs, NEW part \in SUBSET Files, NewParser(k, modified, part),
             pc = "prepare"
      PROVE  /\ \A j \in Confs : saved'[j][f] \in {None, Blank}
             /\ mtime'[f] = 0 => place'[f] = "cached"
             /\ place'[f] = "cached" => info'[f] = Blank
             /\ place'[f] # "loaded"
  <2>1. place[f] # "cached"
    <3>1. At("cached") = {}
      BY <1>4 DEF CachedFirst
    <3> QED BY <1>1, <3>1 DEF At
  <2>2. mtime[f] # 0
    BY <1>1, <2>1
  <2>3. saved[k][f] # None => saved[k][f].stamp = 0
    BY <1>1 DEF Blank
  <2>4. place'[f] = "feeder" => mtime'[f] # 0
    <3> SUFFICES ASSUME place'[f] = "feeder" PROVE mtime'[f] # 0
      OBVIOUS
    <3>1. \/ mtime'[f] = mtime[f]
          \/ mtime[f] # None /\ mtime'[f] = Second(disk[f])
          \/ saved[k][f] # None /\ saved[k][f].stamp # mtime'[f]
      BY <1>1, <1>4, NewParserDoes
    <3>2. mtime[f] # None => Second(disk[f]) # 0
      BY <1>2, <2>2
    <3> QED BY <2>2, <2>3, <3>1, <3>2
  <2>5. saved' = saved
    BY <1>4, NewParserDoes
  <2>6. \/ place'[f] = "cached" /\ saved[k][f] # None /\ info'[f] = saved[k][f]
        \/ place'[f] = "feeder"
    BY <1>1, <1>4, NewParserDoes
  <2> QED BY <1>1, <2>4, <2>5, <2>6
<1>5. ASSUME mtime' = Refreshed(modified), UNCHANGED <<disk, now, saved, parse>>
      PROVE  /\ \A k \in Confs : saved'[k][f] \in {None, Blank}
             /\ mtime'[f] = 0 => place'[f] = "cached"
             /\ place'[f] = "cached" => info'[f] = Blank
             /\ place'[f] # "loaded"
  <2>1. mtime'[f] = mtime[f] \/ (mtime[f] # None /\ mtime'[f] = Second(disk[f]))
    BY <1>1, <1>5 DEF Refreshed
  <2>2. mtime'[f] = 0 => mtime[f] = 0
    BY <1>2, <1>a, <2>1
  <2> QED BY <1>1, <1>5, <2>2 DEF parse
<1>6. ASSUME Save, UNCHANGED <<disk, now, mtime, parse>>
      PROVE  \A k \in Confs : saved'[k][f] \in {None, Blank}
  BY <1>1, <1>6, SaveDoes
<1>7. ASSUME NEW g \in Files, Loaded(g), g \in watched'
      PROVE  place'[f] = place[f]
  BY <1>1, <1>7 DEF Loaded
<1> QED BY RecipeCases, <1>1, <1>3, <1>4, <1>5, <1>6, <1>7 DEF parse

LEMMA NextCachedFirst ==
  ASSUME ~Stays
  PROVE  TypeOK /\ Counted /\ Control /\ CachedFirst /\ [Next]_vars => CachedFirst'
<1> SUFFICES ASSUME TypeOK, Counted, Control, CachedFirst, [Next]_vars PROVE CachedFirst'
  OBVIOUS
<1> USE DEF pool, world, notes, caches, server, task, parse, procs, cache,
            Goto, Run, Stops, At
<1>1. CASE Pool
  <2>1. At("cached")' = At("cached") /\ error' = error
    BY <1>1, PoolStepDoes DEF Pool, Forth
  <2> HIDE DEF At
  <2> QED BY <1>1, <2>1 DEF Pool, CachedFirst
<1>2. CASE EditConf \/ Signal
  BY <1>2 DEF EditConf, Signal, CachedFirst
<1>3. CASE UpdateConfig
  BY <1>3 DEF UpdateConfig, MayCommand, CachedFirst
<1>4. ASSUME NEW f \in Files, Edit(f) PROVE CachedFirst'
  BY <1>4 DEF Edit, CachedFirst
<1>5. ASSUME NEW f \in Files, Load(f) PROVE CachedFirst'
  <2>1. At("cached") = {} => At("cached")' = {}
    BY <1>5 DEF Load, TypeOK, PoolTypeOK
  <2> HIDE DEF At
  <2> QED BY <1>5, <2>1 DEF Load, CachedFirst
<1>6. ASSUME NEW f \in Files, Raise(f) PROVE CachedFirst'
  <2>1. At("cached") = {} /\ At("cached")' = At("cached")
    BY <1>6 DEF Raise, Upcoming
  <2> HIDE DEF At
  <2>2. CASE MustStop
    BY <1>6, <2>1, <2>2 DEF Raise, CachedFirst
  <2>3. CASE ~MustStop
    BY <1>6, <2>1, <2>3 DEF Raise, Finish, CachedFirst
  <2> QED BY <2>2, <2>3
<1>7. ASSUME NEW c \in {"build", "reset"}, Command(c) PROVE CachedFirst'
  BY <1>7 DEF Command, MayCommand, CachedFirst
<1>8. ASSUME NEW force \in BOOLEAN, Stop(force) PROVE CachedFirst'
  BY <1>8 DEF Stop, CachedFirst
<1>9. CASE Stopped
  BY <1>9 DEF Stopped, CachedFirst
<1>10. CASE Fail
  <2>1. st' = "initial" /\ cmd' = "none" /\ pc' = "main" /\ stopped' = stopped
        /\ error' = error /\ At("cached")' = At("cached")
    BY <1>10 DEF Fail, Finish
  <2>2. stopped = "no" => At("cached") = {}
    BY <1>10 DEF Fail, CachedFirst
  <2> HIDE DEF At
  <2> QED BY <2>1, <2>2 DEF CachedFirst
<1>11. CASE Early \/ Inotify
  BY <1>11 DEF Early, Inotify, CachedFirst
<1>12. CASE Refuse
  BY <1>12 DEF Refuse, Finish, CachedFirst
<1>13. CASE Reset
  BY <1>13 DEF Reset, Finish, CachedFirst
<1>14. CASE BuildEnds
  <2>1. At("cached") = {} /\ At("cached")' = {}
    BY <1>14 DEF BuildEnds, Control, AllLoaded
  <2> HIDE DEF At
  <2> QED BY <1>14, <2>1 DEF BuildEnds, Finish, CachedFirst
<1>15. CASE Update
  BY <1>15 DEF Update, CachedFirst, TypeOK
<1>16. CASE Prepare
  <2>1. CASE parseValid /\ baseValid
    BY <1>16, <2>1 DEF Prepare, CachedFirst
  <2>2. CASE ~(parseValid /\ baseValid)
    <3>1. cfg' \in Confs
      BY <1>16 DEF Prepare, TypeOK
    <3>2. PICK part \in {{}, Files} : NewParser(cfg', modified, part)
      BY <1>16, <2>2 DEF Prepare
    <3>3. error' = FALSE
      BY <3>1, <3>2, NewParserDoes
    <3> QED BY <1>16, <3>3 DEF Prepare, CachedFirst
  <2> QED BY <2>1, <2>2
<1>17. CASE Complete
  <2>1. CASE error
    BY <1>17, <2>1 DEF Complete, Finish, CachedFirst
  <2>2. CASE ~error
    BY <1>17, <2>2 DEF Complete, Exhausted, CachedFirst
  <2> QED BY <2>1, <2>2
<1>18. CASE Completed \/ Execute
  <2>1. CASE Completed
    BY <2>1 DEF Completed, CachedFirst
  <2>2. CASE Execute
    BY <2>2 DEF Execute, CachedFirst
  <2> QED BY <1>18, <2>1, <2>2
<1>19. CASE UNCHANGED vars
  BY <1>19 DEF vars, CachedFirst
<1> QED
  BY NextCases, <1>1, <1>2, <1>3, <1>4, <1>5, <1>6, <1>7, <1>8, <1>9, <1>10, <1>11,
     <1>12, <1>13, <1>14, <1>15, <1>16, <1>17, <1>18, <1>19

-----------------------------------------------------------------------------
(* The configuration that was read, and that of the parse.                 *)
ConfKnown == /\ conf \in 0 .. now
             /\ cfg = conf \/ confevent \/ ~baseValid
             /\ parseValid /\ baseValid /\ ~confevent => pcfg = conf

LEMMA InitConfKnown == Init => ConfKnown
  BY PoolAssumption DEF Init, PoolInit, ConfKnown

LEMMA NextConfKnown == TypeOK /\ ConfKnown /\ [Next]_vars => ConfKnown'
<1> SUFFICES ASSUME TypeOK, ConfKnown, [Next]_vars PROVE ConfKnown'
  OBVIOUS
<1> USE DEF pool, world, notes, caches, server, task, parse, procs, cache, Change
<1>0. now \in Nat
  BY DEF TypeOK
<1>1. CASE Pool
  BY <1>1, PoolStepDoes DEF Pool, ConfKnown
<1>2. CASE EditConf \/ UpdateConfig \/ Signal
  BY <1>0, <1>2 DEF EditConf, UpdateConfig, Signal, ConfKnown
<1>3. ASSUME NEW f \in Files, Edit(f) \/ Load(f) \/ Raise(f) PROVE ConfKnown'
  BY <1>0, <1>3 DEF Edit, Load, Raise, ConfKnown
<1>4. ASSUME NEW c \in {"build", "reset"}, Command(c) PROVE ConfKnown'
  BY <1>4 DEF Command, ConfKnown
<1>5. ASSUME NEW force \in BOOLEAN, Stop(force) PROVE ConfKnown'
  BY <1>5 DEF Stop, ConfKnown
<1>6. CASE Stopped \/ Fail \/ Completed
  <2>1. UNCHANGED <<conf, now, cfg, pcfg, confevent, baseValid, parseValid>>
    BY <1>6 DEF Stopped, Fail, Completed
  <2> QED BY <2>1 DEF ConfKnown
<1>7. CASE Early \/ Inotify \/ Reset
  <2>1. CASE Inotify
    BY <2>1 DEF Inotify, ConfKnown
  <2>2. CASE Reset
    BY <2>2 DEF Reset, ConfKnown
  <2>3. CASE Early
    BY <2>3 DEF Early, ConfKnown
  <2> QED BY <1>7, <2>1, <2>2, <2>3
<1>8. CASE Refuse \/ Update \/ Complete \/ Execute \/ BuildEnds
  BY <1>8 DEF Refuse, Update, Complete, Execute, BuildEnds, ConfKnown
<1>9. CASE Prepare
  <2>1. CASE parseValid /\ baseValid
    BY <1>9, <2>1 DEF Prepare, ConfKnown
  <2>2. CASE ~(parseValid /\ baseValid)
    <3>1. cfg' \in Confs
      BY <1>9 DEF Prepare, TypeOK
    <3>2. PICK part \in {{}, Files} : NewParser(cfg', modified, part)
      BY <1>9, <2>2 DEF Prepare
    <3>3. pcfg' = cfg'
      BY <3>1, <3>2, NewParserDoes
    <3> QED BY <1>9, <3>3 DEF Prepare, ConfKnown
  <2> QED BY <2>1, <2>2
<1>10. CASE UNCHANGED vars
  BY <1>10 DEF vars, ConfKnown
<1> QED
  BY NextCases, <1>1, <1>2, <1>3, <1>4, <1>5, <1>6, <1>7, <1>8, <1>9, <1>10

(* Of a recipe without changes the server has not been told of, what the   *)
(* next parse would take from a cache is, to the second, what it says, and *)
(* so is what was read of it, unless it will be read again.                *)
Underway(f) == place[f] \in {"feeder", "jobs", "parsing"}

Told == Files \ (missed \cup events \cup modified)

Says(e, f) == Second(e.content) = Second(disk[f])

Known == /\ modified # {} => ~parseValid
         /\ \A f \in Told :
              /\ mtime[f] \in {None, Second(disk[f])} \/
                   \A k \in Confs : saved[k][f] # None /\ saved[k][f].stamp = mtime[f]
                                       => Says(saved[k][f], f)
              /\ \/ Underway(f) \/ place[f] = "nowhere" \/ Says(info[f], f)
                 \/ mtime[f] = None /\ ~parseValid

LEMMA InitKnown == Init => Known
  BY DEF Init, PoolInit, Known, Told, Underway, Says

(* A recipe keeps what Known says of it while nothing of it changes but    *)
(* its way through the parse.                                              *)
KnownOf(f) ==
  /\ mtime[f] \in {None, Second(disk[f])} \/
       \A k \in Confs : saved[k][f] # None /\ saved[k][f].stamp = mtime[f]
                           => Says(saved[k][f], f)
  /\ \/ Underway(f) \/ place[f] = "nowhere" \/ Says(info[f], f)
     \/ mtime[f] = None /\ ~parseValid

LEMMA EditKnown ==
  ASSUME TypeOK, Unwatched, Known, NEW f \in Files, Edit(f)
  PROVE  Known'
<1> USE DEF pool, parse, cache, caches
<1>1. /\ modified' = modified /\ parseValid' = parseValid
      /\ UNCHANGED <<mtime, saved, place, info>>
      /\ \A g \in Files : g # f => disk'[g] = disk[g]
      /\ \A g \in Files : g # f /\ g \in Told' => g \in Told
  BY DEF Edit, TypeOK, PoolTypeOK, Told
<1>2. \A g \in Files : g # f /\ g \in Told' => KnownOf(g)'
  BY <1>1 DEF Known, KnownOf, Underway, Says
<1>3. ASSUME f \in Told' PROVE KnownOf(f)'
  <2>1. f \notin watched /\ Ahead(f)
    BY <1>3 DEF Edit, Told
  <2>2. CASE Underway(f)
    <3>1. mtime[f] # 0
      BY <2>1, <2>2 DEF Unwatched, Underway
    <3>2. \A k \in Confs : saved[k][f] = None \/ saved[k][f].stamp = 0
      BY <2>1 DEF Unwatched, Blank
    <3> QED BY <1>1, <2>2, <3>1, <3>2 DEF KnownOf, Underway
  <2>3. CASE ~parseValid /\ mtime[f] = None
    BY <1>1, <2>3 DEF KnownOf
  <2> QED BY <2>1, <2>2, <2>3 DEF Ahead, Underway
<1> QED BY <1>1, <1>2, <1>3 DEF Known, KnownOf, Told

LEMMA NewParserKnown ==
  ASSUME TypeOK, Ordered, Known, NEW k \in Confs, NEW part,
         NewParser(k, modified, part), NEW f \in Files, f \notin missed \cup events
  PROVE  KnownOf(f)'
<1>1. /\ UNCHANGED <<disk, saved>>
      /\ \/ place'[f] = "cached" /\ saved[k][f] # None /\ info'[f] = saved[k][f]
                                 /\ saved[k][f].stamp = mtime'[f]
         \/ place'[f] = "feeder"
      /\ \/ mtime'[f] = mtime[f] /\ (f \in modified => mtime[f] = None)
         \/ mtime'[f] = Second(disk[f])
  BY NewParserDoes
<1>2. \/ mtime'[f] \in {None, Second(disk[f])}
      \/ mtime'[f] = mtime[f] /\ \A j \in Confs :
            saved[j][f] # None /\ saved[j][f].stamp = mtime[f] => Says(saved[j][f], f)
  <2>1. CASE f \in modified
    BY <1>1, <2>1
  <2>2. CASE f \notin modified
    BY <1>1, <2>2 DEF Known, Told
  <2> QED BY <2>1, <2>2
<1>3. ASSUME place'[f] = "cached" PROVE Says(info'[f], f)
  <2>1. /\ saved[k][f] \in Info /\ saved[k][f] # None /\ info'[f] = saved[k][f]
        /\ saved[k][f].stamp = mtime'[f] /\ disk[f] \in Nat
    BY <1>1, <1>3 DEF TypeOK, PoolTypeOK
  <2>2. saved[k][f].stamp <= Second(saved[k][f].content) /\ saved[k][f].content <= disk[f]
    BY <2>1 DEF Ordered, Dated
  <2>3. saved[k][f].stamp \in Nat /\ saved[k][f].content \in Nat
    BY <2>1 DEF Info
  <2>4. mtime'[f] # None
    BY <2>1, <2>3, PoolAssumption
  <2>5. CASE mtime'[f] = Second(disk[f])
    <3>1. /\ Second(saved[k][f].content) \in Nat /\ Second(disk[f]) \in Nat
          /\ Second(saved[k][f].content) <= Second(disk[f])
      BY <2>1, <2>2, <2>3, SecondType, SecondOrder
    <3> QED BY <2>1, <2>2, <2>5, <3>1 DEF Says
  <2> QED BY <1>2, <2>1, <2>4, <2>5
<1> QED BY <1>1, <1>2, <1>3 DEF KnownOf, Underway, Says

LEMMA SaveKnown ==
  ASSUME TypeOK, Known, Save, UNCHANGED <<disk, mtime, parse, missed, events, modified, parseValid>>
  PROVE  Known'
<1> SUFFICES ASSUME NEW f \in Told PROVE KnownOf(f)'
  BY DEF Known, KnownOf, Told
<1>1. f \in Files /\ KnownOf(f)
  BY DEF Known, KnownOf, Told
<1>2. UNCHANGED <<disk, mtime, place, info, parseValid>>
  BY DEF parse
<1>3. CASE mtime[f] \in {None, Second(disk[f])}
  BY <1>1, <1>2, <1>3 DEF KnownOf, Underway, Says
<1>4. CASE mtime[f] \notin {None, Second(disk[f])}
  <2>1. place[f] \in {"cached", "loaded"} => Says(info[f], f)
    BY <1>1, <1>4 DEF KnownOf, Underway
  <2>2. \A k \in Confs : saved'[k][f] # None /\ saved'[k][f].stamp = mtime[f]
                            => Says(saved'[k][f], f)
    BY <1>1, <1>4, <2>1, SaveDoes DEF KnownOf
  <2> QED BY <1>1, <1>2, <2>2 DEF KnownOf, Underway, Says
<1> QED BY <1>3, <1>4

LEMMA NextKnown ==
  TypeOK /\ Ordered /\ Unwatched /\ Known /\ [Next]_vars => Known'
<1> SUFFICES ASSUME TypeOK, Ordered, Unwatched, Known, [Next]_vars PROVE Known'
  OBVIOUS
<1> USE DEF pool, world, notes, caches, parse, procs, cache
<1>1. CASE Pool
  <2>1. /\ UNCHANGED <<disk, mtime, saved, missed, events, modified, parseValid>>
        /\ \A f \in Files : Forth(f) \/ (place'[f] = place[f] /\ info'[f] = info[f])
    BY <1>1, PoolStepDoes DEF Pool
  <2> SUFFICES ASSUME NEW f \in Told PROVE KnownOf(f)'
    BY <2>1 DEF Known, KnownOf, Told
  <2>2. f \in Files /\ KnownOf(f)
    BY DEF Known, KnownOf, Told
  <2> QED BY <2>1, <2>2 DEF KnownOf, Underway, Forth, Says
<1>2. ASSUME NEW f \in Files, Edit(f) PROVE Known'
  BY <1>2, EditKnown
<1>3. ASSUME NEW f \in Files, Load(f) PROVE Known'
  <2>1. /\ UNCHANGED <<disk, mtime, saved, info, missed, events, modified, parseValid>>
        /\ \A g \in Files : place'[g] = place[g] \/ (g = f /\ place[f] \in {"cached", "result"})
    BY <1>3 DEF Load, Upcoming, At, TypeOK, PoolTypeOK
  <2> SUFFICES ASSUME NEW g \in Told PROVE KnownOf(g)'
    BY <2>1 DEF Known, KnownOf, Told
  <2>2. g \in Files /\ KnownOf(g)
    BY DEF Known, KnownOf, Told
  <2> QED BY <2>1, <2>2 DEF KnownOf, Underway, Says
<1>4. CASE Inotify
  <2>1. /\ UNCHANGED <<disk, mtime, saved, place, info>> /\ Told' = Told
        /\ parseValid' => parseValid
    BY <1>4 DEF Inotify, Told
  <2>2. modified' # {} => ~parseValid'
    BY <1>4 DEF Inotify, Known
  <2> SUFFICES ASSUME NEW f \in Told PROVE KnownOf(f)'
    BY <2>1, <2>2 DEF Known, KnownOf
  <2>3. f \in Files /\ KnownOf(f)
    BY DEF Known, KnownOf, Told
  <2> QED BY <2>1, <2>3 DEF KnownOf, Underway, Says
<1>5. CASE Prepare
  <2>1. modified' = {} /\ UNCHANGED <<missed, events>>
    BY <1>5 DEF Prepare
  <2> SUFFICES ASSUME NEW f \in Files, f \notin missed \cup events PROVE KnownOf(f)'
    BY <2>1 DEF Known, KnownOf, Told
  <2>2. CASE parseValid /\ baseValid
    <3>1. mtime' = Refreshed(modified) /\ parseValid'
          /\ UNCHANGED <<disk, saved, place, info>>
      BY <1>5, <2>2 DEF Prepare
    <3>2. KnownOf(f)
      BY <2>2 DEF Known, KnownOf, Told
    <3> QED BY <2>2, <3>1, <3>2, RefreshedDoes DEF KnownOf, Underway, Says
  <2>3. CASE ~(parseValid /\ baseValid)
    <3>1. cfg' \in Confs
      BY <1>5 DEF Prepare, TypeOK
    <3>2. PICK part \in {{}, Files} : NewParser(cfg', modified, part)
      BY <1>5, <2>3 DEF Prepare
    <3> QED BY <3>1, <3>2, NewParserKnown
  <2> QED BY <2>2, <2>3
<1>6. CASE Stopped \/ Fail \/ Completed
  <2>1. Save /\ UNCHANGED <<disk, mtime, parse, missed, events, modified, parseValid>>
    BY <1>6 DEF Stopped, Fail, Completed
  <2> QED BY <2>1, SaveKnown
<1>7. ASSUME UNCHANGED <<disk, mtime, saved, place, info, missed, events, modified, parseValid>>
      PROVE  Known'
  BY <1>7 DEF Known, Told, Underway, Says
<1>8. CASE EditConf \/ UpdateConfig \/ Signal
  BY <1>7, <1>8 DEF EditConf, UpdateConfig, Signal
<1>9. ASSUME NEW f \in Files, Raise(f) PROVE Known'
  BY <1>7, <1>9 DEF Raise
<1>10. ASSUME NEW c \in {"build", "reset"}, Command(c) PROVE Known'
  BY <1>7, <1>10 DEF Command
<1>11. ASSUME NEW force \in BOOLEAN, Stop(force) PROVE Known'
  BY <1>7, <1>11 DEF Stop
<1>12. CASE Early \/ Refuse \/ Reset \/ Update
  BY <1>7, <1>12 DEF Early, Refuse, Reset, Update
<1>13. CASE Complete \/ Execute \/ BuildEnds
  BY <1>7, <1>13 DEF Complete, Execute, BuildEnds
<1>14. CASE UNCHANGED vars
  BY <1>7, <1>14 DEF vars
<1> QED
  BY NextCases, <1>1, <1>2, <1>3, <1>4, <1>5, <1>6, <1>8, <1>9, <1>10, <1>11, <1>12,
     <1>13, <1>14

(* The same for what the command wants, on its way to the parse.           *)
Waits == cmd = "build" /\ ~building

Cached(f) == mtime[f] = None \/
               \A k \in Confs : saved[k][f] # None /\ saved[k][f].stamp = mtime[f]
                                  => Second(saved[k][f].content) >= wanted.files[f]

Has(f) == Underway(f) \/ Second(info[f].content) >= wanted.files[f]

Noticed(f) == (f \in modified \/ Cached(f)) /\ (parseValid => Has(f))

Wanted ==
  /\ Waits => /\ wanted.conf <= conf /\ \A f \in Files : wanted.files[f] <= Second(disk[f])
              /\ pc = "main" => st # "initial"
  /\ Waits /\ (st \in {"parsing", "running"} \/ pc \in {"next", "completing"})
       => wanted.conf <= pcfg /\ \A f \in Files : Has(f)
  /\ Waits /\ (pc = "prepare" \/ (pc = "async" /\ st = "initial"))
       => /\ wanted.conf <= cfg \/ ~baseValid
          /\ parseValid /\ baseValid => wanted.conf <= pcfg
          /\ \A f \in Files : Noticed(f)
  /\ Waits /\ pc = "idle" /\ st = "initial"
       => /\ wanted.conf <= cfg \/ (InOrder /\ confevent) \/ ~baseValid
          /\ parseValid /\ baseValid /\ ~(InOrder /\ confevent) => wanted.conf <= pcfg
          /\ \A f \in Files : (InOrder /\ f \in events) \/ Noticed(f)

Coming == st \in {"parsing", "running"} \/ pc \in {"next", "completing"}

Ready == pc = "prepare" \/ (pc = "async" /\ st = "initial")

LEMMA InitWanted == Init => Wanted
  BY DEF Init, PoolInit, Wanted, Waits

LEMMA CommandWanted ==
  ASSUME TypeOK, Ordered, Control, CachedFirst, ConfKnown, Known,
         NEW c \in {"build", "reset"}, Command(c)
  PROVE  Wanted'
<1> USE DEF pool, world, notes, caches, parse, cache
<1> SUFFICES ASSUME Waits' PROVE Wanted'
  BY DEF Wanted
<1>1. /\ pc' = "idle" /\ st' = st /\ cmd = "none"
      /\ wanted'.conf = IF ~InOrder /\ confevent THEN 0 ELSE conf
      /\ \A f \in Files : wanted'.files[f] = IF f \in missed \/ (~InOrder /\ f \in events)
                                             THEN 0 ELSE Second(disk[f])
      /\ UNCHANGED <<disk, conf, cfg, confevent, baseValid, parseValid, pcfg, events,
                     modified, mtime, saved, place, info>>
  BY DEF Command, MayCommand, Knowable
<1>2. ~Coming'
  BY <1>1 DEF CachedFirst, Coming
<1>3. /\ conf \in Nat /\ cfg \in Nat /\ pcfg \in Nat
      /\ \A f \in Files : Second(disk[f]) \in Nat
  BY SecondType DEF TypeOK, PoolTypeOK, Confs
<1>4. /\ wanted'.conf <= conf' /\ \A f \in Files : wanted'.files[f] <= Second(disk'[f])
  BY <1>1, <1>3
<1>5. /\ wanted'.conf <= cfg' \/ (InOrder /\ confevent') \/ ~baseValid'
      /\ parseValid' /\ baseValid' /\ ~(InOrder /\ confevent') => wanted'.conf <= pcfg'
  BY <1>1, <1>3 DEF ConfKnown
<1>6. ASSUME NEW f \in Files, ~(InOrder /\ f \in events) PROVE Noticed(f)'
  <2>1. /\ Second(info[f].content) \in Nat /\ mtime[f] \in Nat \cup {None}
        /\ \A k \in Confs : saved[k][f] # None =>
             /\ saved[k][f].stamp \in Nat /\ saved[k][f].content \in Nat
             /\ Second(saved[k][f].content) \in Nat
    BY SecondType DEF TypeOK, PoolTypeOK, Info
  <2>2. CASE f \in missed \cup events
    BY <1>1, <1>6, <2>1, <2>2 DEF Noticed, Cached, Has
  <2>3. CASE f \in modified
    BY <1>1, <2>3 DEF Known, Noticed
  <2>4. CASE f \in Told
    <3>1. \A k \in Confs : saved[k][f] # None /\ saved[k][f].stamp = mtime[f]
                              => mtime[f] = None \/ Says(saved[k][f], f)
      <4> SUFFICES ASSUME NEW k \in Confs, saved[k][f] # None, mtime[f] = Second(disk[f]),
                          saved[k][f].stamp = mtime[f]
                   PROVE  Says(saved[k][f], f)
        BY <2>4 DEF Known
      <4>1. Dated(saved[k][f], f) /\ disk[f] \in Nat
        BY DEF Ordered, TypeOK, PoolTypeOK
      <4>2. Second(saved[k][f].content) <= Second(disk[f])
        BY <2>1, <4>1, SecondOrder DEF Dated
      <4> QED BY <1>3, <2>1, <4>1, <4>2 DEF Dated, Says
    <3>2. Cached(f)'
      BY <1>1, <1>3, <2>4, <3>1 DEF Cached, Told, Says
    <3>3. parseValid => Underway(f) \/ Says(info[f], f)
      BY <2>4 DEF Known, Control
    <3>4. parseValid' => Has(f)'
      BY <1>1, <1>3, <2>4, <3>3 DEF Has, Underway, Told, Says
    <3> QED BY <3>2, <3>4 DEF Noticed
  <2> QED BY <2>2, <2>3, <2>4 DEF Told
<1> QED BY <1>1, <1>2, <1>4, <1>5, <1>6 DEF Wanted, Coming

LEMMA PrepareWanted ==
  ASSUME TypeOK, Ordered, CachedFirst, Wanted, Prepare, Waits
  PROVE  wanted.conf <= pcfg' /\ \A f \in Files : Has(f)'
<1> USE DEF pool, world, notes, caches, parse, cache
<1>1. /\ pc = "prepare" /\ wanted' = wanted /\ disk' = disk
      /\ wanted.conf <= conf /\ \A f \in Files : wanted.files[f] <= Second(disk[f])
      /\ wanted.conf <= cfg \/ ~baseValid
      /\ parseValid /\ baseValid => wanted.conf <= pcfg
      /\ \A f \in Files : Noticed(f)
  BY DEF Prepare, Wanted
<1>2. CASE parseValid /\ baseValid
  <2>1. UNCHANGED <<place, info, pcfg>>
    BY <1>2 DEF Prepare
  <2> QED BY <1>1, <1>2, <2>1 DEF Noticed, Has, Underway
<1>3. CASE ~(parseValid /\ baseValid)
  <2>1. cfg' \in Confs /\ wanted.conf <= cfg'
    BY <1>1 DEF Prepare, TypeOK
  <2>2. PICK part \in {{}, Files} : NewParser(cfg', modified, part)
    BY <1>3 DEF Prepare
  <2>3. pcfg' = cfg'
    BY <2>1, <2>2, NewParserDoes
  <2>4. ASSUME NEW f \in Files PROVE Has(f)'
    <3>1. /\ \/ /\ place'[f] = "cached" /\ saved[cfg'][f] # None /\ info'[f] = saved[cfg'][f]
                /\ saved[cfg'][f].stamp = mtime'[f]
             \/ place'[f] = "feeder"
          /\ \/ mtime'[f] = mtime[f] /\ (f \in modified => mtime[f] = None)
             \/ mtime'[f] = Second(disk[f])
      BY <2>1, <2>2, NewParserDoes
    <3>2. CASE place'[f] = "feeder"
      BY <3>2 DEF Has, Underway
    <3>3. CASE place'[f] = "cached"
      <4>1. saved[cfg'][f] \in Info /\ saved[cfg'][f] # None
        BY <2>1, <3>1, <3>3 DEF TypeOK, PoolTypeOK
      <4>2. /\ saved[cfg'][f].stamp \in Nat /\ Second(saved[cfg'][f].content) \in Nat
            /\ wanted.files[f] \in Nat /\ Second(disk[f]) \in Nat
        BY <4>1, SecondType DEF Info, TypeOK, PoolTypeOK
      <4>3. saved[cfg'][f].stamp <= Second(saved[cfg'][f].content)
        BY <2>1, <4>1 DEF Ordered, Dated
      <4>4. mtime'[f] # None
        BY <3>1, <3>3, <4>2, PoolAssumption
      <4>5. Second(saved[cfg'][f].content) >= wanted.files[f]
        <5>1. CASE mtime'[f] = Second(disk[f])
          BY <1>1, <3>1, <3>3, <4>2, <4>3, <5>1
        <5>2. CASE mtime'[f] = mtime[f] /\ f \notin modified
          BY <1>1, <2>1, <3>1, <3>3, <4>1, <4>4, <5>2 DEF Noticed, Cached
        <5> QED BY <3>1, <4>4, <5>1, <5>2
      <4> QED BY <1>1, <3>1, <3>3, <4>5 DEF Has
    <3> QED BY <3>1, <3>2, <3>3
  <2> QED BY <2>1, <2>3, <2>4
<1> QED BY <1>2, <1>3

(* Steps that leave a waiting command's recipes and configuration alone    *)
(* and do not bring it nearer to its parse.                                *)
LEMMA WantedKept ==
  ASSUME TypeOK, Wanted, wanted' = wanted, Waits' => Waits,
         UNCHANGED <<disk, conf, cfg, confevent, baseValid, parseValid, pcfg, events,
                     modified, mtime, saved, place, info>>,
         Waits' /\ pc' = "main" => st' # "initial",
         Coming' => Coming, Ready' => Ready,
         pc' = "idle" /\ st' = "initial" => Ready \/ (pc = "idle" /\ st = "initial")
  PROVE  Wanted'
<1>1. \A f \in Files : Has(f)' <=> Has(f)
  BY DEF Has, Underway
<1>2. \A f \in Files : Noticed(f)' <=> Noticed(f)
  BY <1>1 DEF Noticed, Cached
<1> QED BY <1>1, <1>2 DEF Wanted, Coming, Ready

LEMMA NextWanted ==
  TypeOK /\ Ordered /\ Control /\ CachedFirst /\ ConfKnown /\ Known /\ Wanted
    /\ [Next]_vars => Wanted'
<1> SUFFICES ASSUME TypeOK, Ordered, Control, CachedFirst, ConfKnown, Known, Wanted,
                    [Next]_vars, Waits'
             PROVE  Wanted'
  BY DEF Wanted
<1> USE DEF pool, world, notes, caches, server, task, parse, procs, cache, Goto, Run
<1>0. \A f \in Files : Second(disk[f]) \in Nat /\ wanted.files[f] \in Nat
  BY SecondType DEF TypeOK, PoolTypeOK
<1>1. CASE Pool
  <2>1. /\ UNCHANGED <<disk, mtime, saved, pcfg, wanted, conf, cfg, confevent, baseValid,
                       parseValid, events, modified, pc, st, cmd, building>>
        /\ \A f \in Files : Forth(f) \/ (place'[f] = place[f] /\ info'[f] = info[f])
    BY <1>1, PoolStepDoes DEF Pool
  <2>2. Waits
    BY <2>1 DEF Waits
  <2>3. \A f \in Files : Has(f) => Has(f)'
    BY <1>0, <2>1, <2>2 DEF Wanted, Has, Underway, Forth
  <2>4. \A f \in Files : Noticed(f) => Noticed(f)'
    BY <2>1, <2>3 DEF Noticed, Cached
  <2> QED BY <2>1, <2>2, <2>3, <2>4 DEF Wanted
<1>2. CASE EditConf
  <2>1. /\ now < conf' /\ confevent' /\ conf' \in Nat /\ now \in Nat
        /\ UNCHANGED <<disk, mtime, saved, pcfg, wanted, cfg, baseValid, place, info,
                       parseValid, events, modified, pc, st, cmd, building>>
    BY <1>2, ChangeType DEF EditConf, TypeOK
  <2>2. Waits /\ wanted.conf <= conf' /\ wanted.conf \in Nat
    BY <2>1 DEF Waits, Wanted, ConfKnown, TypeOK, Confs
  <2>3. \A f \in Files : (Has(f) <=> Has(f)') /\ (Noticed(f) <=> Noticed(f)')
    BY <2>1 DEF Noticed, Cached, Has, Underway
  <2> QED BY <2>1, <2>2, <2>3 DEF Wanted
<1>3. CASE UpdateConfig
  BY <1>3 DEF UpdateConfig, MayCommand, Waits
<1>4. CASE Signal
  BY <1>4, WantedKept DEF Signal, Waits, Coming, Ready
<1>5. ASSUME NEW f \in Files, Edit(f) PROVE Wanted'
  <2>1. /\ events \subseteq events'
        /\ UNCHANGED <<mtime, saved, pcfg, wanted, conf, cfg, confevent, baseValid, place,
                       info, parseValid, modified, pc, st, cmd, building>>
    BY <1>5 DEF Edit
  <2>2. \A g \in Files : disk[g] <= disk'[g]
    BY <1>5, ChangeType DEF Edit, Ordered, TypeOK, PoolTypeOK
  <2>3. Waits /\ \A g \in Files : /\ Second(disk'[g]) \in Nat
                                  /\ Second(disk[g]) <= Second(disk'[g])
    <3>1. disk \in [Files -> Nat] /\ disk' \in [Files -> Nat] /\ Waits
      BY <1>5, <2>1, NextTypes DEF TypeOK, PoolTypeOK, Waits
    <3> QED BY <2>2, <3>1, SecondType, SecondOrder
  <2>4. \A g \in Files : (Has(g) <=> Has(g)') /\ (Noticed(g) <=> Noticed(g)')
    BY <2>1 DEF Noticed, Cached, Has, Underway
  <2>5. \A g \in Files : wanted.files[g] <= Second(disk'[g])
    BY <1>0, <2>3 DEF Wanted
  <2> QED BY <2>1, <2>3, <2>4, <2>5 DEF Wanted
<1>6. ASSUME NEW f \in Files, Load(f) PROVE Wanted'
  <2>1. /\ pc = "next" /\ pc' = "main"
        /\ UNCHANGED <<disk, mtime, saved, info, pcfg, wanted, conf, cfg, confevent,
                       baseValid, parseValid, events, modified, st, cmd, building>>
        /\ \A g \in Files : place'[g] = place[g] \/ (g = f /\ place[f] \in {"cached", "result"})
    BY <1>6 DEF Load, Upcoming, At, TypeOK, PoolTypeOK
  <2>2. Waits /\ st # "initial"
    BY <2>1 DEF Waits, CachedFirst
  <2>3. \A g \in Files : Has(g) => Has(g)'
    BY <2>1 DEF Has, Underway
  <2> QED BY <2>1, <2>2, <2>3 DEF Wanted
<1>7. ASSUME NEW f \in Files, Raise(f) PROVE Wanted'
  <2>1. CASE MustStop
    BY <1>7, <2>1, WantedKept DEF Raise, Waits, Coming, Ready
  <2>2. CASE ~MustStop
    BY <1>7, <2>2 DEF Raise, Finish, Waits
  <2> QED BY <2>1, <2>2
<1>8. ASSUME NEW c \in {"build", "reset"}, Command(c) PROVE Wanted'
  BY <1>8, CommandWanted
<1>9. ASSUME NEW force \in BOOLEAN, Stop(force) PROVE Wanted'
  BY <1>9, WantedKept DEF Stop, Waits, Coming, Ready
<1>10. CASE Stopped
  <2>1. /\ pc' = "idle" /\ st' = st /\ st \in Stops
        /\ UNCHANGED <<disk, conf, pcfg, wanted, place, info, cmd, building>>
    BY <1>10 DEF Stopped, CachedFirst
  <2> QED BY <2>1 DEF Wanted, Waits, Stops, Has, Underway
<1>11. CASE Inotify
  <2>1. /\ pc \in {"main", "idle"} /\ st' = st
        /\ baseValid' = (baseValid /\ ~confevent)
        /\ parseValid' => parseValid /\ events = {}
        /\ modified' = modified \cup events
        /\ UNCHANGED <<disk, mtime, saved, pcfg, wanted, conf, cfg, place, info, cmd, building>>
    BY <1>11 DEF Inotify
  <2>2. Waits /\ pc' = IF late THEN "main" ELSE "async"
    BY <1>11, <2>1 DEF Inotify, Waits
  <2>3. \A f \in Files : (Has(f) <=> Has(f)') /\ (Cached(f) <=> Cached(f)')
    BY <2>1 DEF Cached, Has, Underway
  <2>4. CASE late
    <3>1. st # "initial"
      BY <2>1, <2>2, <2>4 DEF Control, Wanted
    <3> QED BY <2>1, <2>2, <2>3, <2>4, <3>1 DEF Wanted
  <2>5. CASE st = "initial" /\ ~late
    <3>1. pc = "idle"
      BY <2>1, <2>2, <2>5 DEF Wanted
    <3>2. \A f \in Files : Noticed(f)'
      BY <2>1, <2>2, <2>3, <2>5, <3>1 DEF Wanted, Noticed
    <3> QED BY <2>1, <2>2, <2>3, <2>5, <3>1, <3>2 DEF Wanted
  <2>6. CASE st # "initial" /\ ~late
    BY <2>1, <2>2, <2>3, <2>6 DEF Wanted
  <2> QED BY <2>4, <2>5, <2>6
<1>20. CASE Early
  <2>1. /\ ~InOrder /\ pc \in {"main", "idle"} /\ pc' = "async" /\ st' = st /\ Waits
        /\ UNCHANGED <<disk, mtime, saved, pcfg, wanted, conf, cfg, confevent, baseValid,
                       place, info, parseValid, events, modified, cmd, building>>
    BY <1>20 DEF Early, Waits
  <2>2. \A f \in Files : (Has(f) <=> Has(f)') /\ (Noticed(f) <=> Noticed(f)')
    BY <2>1 DEF Noticed, Cached, Has, Underway
  <2> QED BY <2>1, <2>2 DEF Wanted
<1>12. CASE Refuse
  <2>1. CASE MustStop
    BY <1>12, <2>1, WantedKept DEF Refuse, Waits, Coming, Ready, Stops
  <2>2. CASE ~MustStop
    BY <1>12, <2>2 DEF Refuse, Finish, Waits
  <2> QED BY <2>1, <2>2
<1>13. CASE Fail \/ Reset \/ BuildEnds
  BY <1>13 DEF Fail, Reset, BuildEnds, Finish, Waits
<1>14. CASE Update
  BY <1>14, WantedKept DEF Update, Waits, Coming, Ready, Stops, TypeOK
<1>15. CASE Prepare
  <2>1. /\ Waits /\ pc' = "next" /\ UNCHANGED <<wanted, conf>>
    BY <1>15 DEF Prepare, Waits
  <2>2. disk' = disk
    <3>1. CASE parseValid /\ baseValid
      BY <1>15, <3>1 DEF Prepare
    <3>2. CASE ~(parseValid /\ baseValid)
      BY <1>15, <3>2 DEF Prepare
    <3> QED BY <3>1, <3>2
  <2> QED BY <1>15, <2>1, <2>2, PrepareWanted DEF Wanted
<1>16. CASE Complete
  <2>1. pc = "next" /\ Waits /\ UNCHANGED <<disk, pcfg, conf, place, info>>
    BY <1>16 DEF Complete, Finish, Waits
  <2>2. wanted' = wanted /\ (pc' = "completing" \/ (pc' = "main" /\ st' = "running"))
    BY <1>16 DEF Complete, Finish, Waits
  <2> QED BY <2>1, <2>2 DEF Wanted, Has, Underway
<1>17. CASE Completed
  BY <1>17 DEF Completed, Wanted, Waits, Has, Underway
<1>18. CASE Execute
  BY <1>18 DEF Execute, Waits
<1>19. CASE UNCHANGED vars
  BY <1>19, WantedKept DEF vars, Waits, Coming, Ready, Wanted
<1> QED
  BY NextCases, <1>1, <1>2, <1>3, <1>4, <1>5, <1>6, <1>7, <1>8, <1>9, <1>10, <1>11,
     <1>12, <1>13, <1>14, <1>15, <1>16, <1>17, <1>18, <1>19, <1>20

(* A command works on a configuration and, to the second, on recipes no    *)
(* older than they were when it was given, but for changes the server had  *)
(* not been told of (BBCooker.notifications, updateCacheSync, updateCache  *)
(* and Cache.cacheValidUpdate), for any recipes, changes, earlier caches   *)
(* and interleaving with the parsers, in a server that goes with its UI.   *)
(* Unread events are told when the idle functions keep their order.        *)
THEOREM FreshCorrect == ASSUME ~Stays PROVE Spec => Fresh
<1> DEFINE Current == /\ wanted.conf <= pcfg
                      /\ \A f \in Files : wanted.files[f] <= Second(info[f].content)
<1>1. TypeOK /\ Control /\ Wanted /\ [Next]_vars => [~building /\ building' => Current]_vars
  <2> SUFFICES ASSUME TypeOK, Control, Wanted, [Next]_vars, ~building, building'
               PROVE  Current
    OBVIOUS
  <2>1. st = "running" /\ Waits
    BY StartsByExecute DEF Execute, Waits
  <2>2. wanted.conf <= pcfg /\ \A f \in Files : Has(f) /\ place[f] = "loaded"
    BY <2>1 DEF Wanted, Control, AllLoaded
  <2>3. \A f \in Files : wanted.files[f] \in Nat /\ Second(info[f].content) \in Nat
    BY SecondType DEF TypeOK, PoolTypeOK, Info
  <2> QED BY <2>2, <2>3 DEF Has, Underway
<1> QED
  BY InitTypes, NextTypes, InitOrdered, NextOrdered, InitCounted, NextCounted,
     InitControl, NextControl, InitUnwatched, NextUnwatched, NextCachedFirst,
     InitConfKnown, NextConfKnown, InitKnown, NextKnown, InitWanted, NextWanted, <1>1,
     PTL DEF Spec, Fresh
=============================================================================
