------------------------------- MODULE Cooker -------------------------------
(***************************************************************************)
(* The server's main loop around bb.cooker.BBCooker: commands, inotify     *)
(* events, the parse a command waits for (bb.command.runAsyncCommand and   *)
(* BBCooker.updateCache), stops and signals.  All of it runs in one        *)
(* thread, which waits inside parse_next for the parsers and inside        *)
(* shutdown for their ends; a signal handler may run between any two of    *)
(* its steps.                                                              *)
(*                                                                         *)
(* The command itself is the run queue's affair: here it ends some time.   *)
(***************************************************************************)
EXTENDS ParserPool

CONSTANTS
  InOrder, \* idle functions run in the order they were registered in
  Stays    \* a server that was told to stop outlives its UI

ASSUME CookerAssumption == InOrder \in BOOLEAN /\ Stays \in BOOLEAN

VARIABLES
  now,        \* the time of the last change
  conf,       \* the change that made the base configuration
  watched,    \* recipes whose directory inotify watches
  events,     \* recipes there are unread events for
  confevent,  \* an unread event for a configuration file
  overflowed, \* an unread overflow of the recipes' queue
  missed,     \* recipes changed without an event after they were looked at
  late,       \* inotify's idle function is still to run in this pass
  pc,         \* where the server is
  st,         \* cooker.state
  cmd,        \* currentAsyncCommand: "none", "build" or "reset"
  building,   \* it is being executed
  stopped,    \* how the server was told to stop: "no", "signal" or "stop"
  cfg,        \* the configuration of cooker.data
  baseValid,  \* baseconfig_valid
  parseValid, \* parsecache_valid
  modified,   \* inotify_modified_files
  wanted      \* what there was and the server could know when the command came

pool   == <<mtime, saved, parse, procs>>
world  == <<disk, now, conf>>
notes  == <<watched, events, confevent, overflowed, missed, late>>
caches == <<cfg, baseValid, parseValid, modified>>
task   == <<st, cmd, building, wanted>>
server == <<pc, task, stopped>>
vars   == <<pool, world, notes, caches, server>>

Stops == {"shutdown", "forceshutdown", "error"}

Nothing == [files |-> [f \in Files |-> 0], conf |-> 0]

Goto(l) == pc' = l /\ UNCHANGED task

-----------------------------------------------------------------------------
(* Files change.  The clock does not go back, and no change gives a file   *)
(* an older mtime.                                                         *)

Change == now < MaxTime /\ now' \in now + 1 .. MaxTime

(* A recipe that will still be read, or looked at, is not missed.          *)
Ahead(f) == \/ place[f] \in {"feeder", "jobs", "parsing"}
            \/ ~parseValid /\ mtime[f] = None

Edit(f) ==
  /\ Change /\ disk' = [disk EXCEPT ![f] = now']
  /\ \/ /\ f \in watched
        /\ events' = events \cup {f} /\ missed' = missed \ {f}
        /\ UNCHANGED overflowed
     \/ /\ f \in watched
        /\ overflowed' = TRUE /\ missed' = missed \cup {f}
        /\ UNCHANGED events
     \/ /\ f \notin watched
        /\ missed' = IF Ahead(f) THEN missed ELSE missed \cup {f}
        /\ UNCHANGED <<events, overflowed>>
  /\ UNCHANGED <<pool, conf, watched, confevent, late, caches, server>>

EditConf == /\ Change /\ conf' = now' /\ confevent' = TRUE
            /\ UNCHANGED <<pool, disk, watched, events, overflowed, missed,
                           late, caches, server>>

-----------------------------------------------------------------------------
(* command.runCommand, after the pass of the idle functions.  A server     *)
(* that was stopped is given no more commands when it goes with its UI.    *)

MayCommand == pc = "main" /\ ~late /\ cmd = "none" /\ (Stays \/ stopped = "no")

(* What the server knows of, or will before it looks: an unread event is   *)
(* sure to be read first only if the idle functions run in their order.    *)
Knowable == [files |-> [f \in Files |-> IF f \in missed \/ (~InOrder /\ f \in events)
                                        THEN 0 ELSE Second(disk[f])],
             conf  |-> IF ~InOrder /\ confevent THEN 0 ELSE conf]

(* An asynchronous command is noted for the idle loop.                     *)
Command(c) == /\ MayCommand
              /\ cmd' = c /\ pc' = "idle"
              /\ wanted' = Knowable
              /\ UNCHANGED <<pool, world, notes, caches, st, building, stopped>>

(* updateConfig, sent when a UI connects, with a changed environment:      *)
(* baseconfig_valid is cleared and the configuration read again.           *)
UpdateConfig == /\ MayCommand /\ Change
                /\ conf' = now' /\ cfg' = now'
                /\ baseValid' = FALSE
                /\ st' = "initial" /\ pc' = "idle"
                /\ UNCHANGED <<pool, disk, notes, parseValid, modified,
                               cmd, building, stopped, wanted>>

(* stateShutdown and stateForceShutdown: BBCooker.shutdown, which waits    *)
(* for the parsers.                                                        *)
Stop(force) ==
  /\ pc = "main" /\ ~late /\ stopped' = "stop"
  /\ st' = IF force THEN "forceshutdown" ELSE "shutdown"
  /\ IF MustStop THEN /\ Tell /\ pc' = IF force THEN "forcing" ELSE "stopping"
                 ELSE /\ UNCHANGED procs /\ pc' = "idle"
  /\ UNCHANGED <<mtime, saved, parse, world, notes, caches, cmd, building, wanted>>

Stopped == /\ pc \in {"stopping", "forcing"} /\ Joined(pc = "forcing")
           /\ Save /\ Goto("idle")
           /\ UNCHANGED <<mtime, parse, procs, world, notes, caches, stopped>>

(* sigterm_exception, for SIGTERM and SIGHUP.                              *)
Signal == /\ st' = "forceshutdown"
          /\ stopped' = IF stopped = "no" THEN "signal" ELSE stopped
          /\ UNCHANGED <<pool, world, notes, caches, pc, cmd, building, wanted>>

-----------------------------------------------------------------------------
(* The idle functions.  They are kept in a dictionary, which is in the     *)
(* order of registration, inotify first, from CPython 3.6 on only.         *)

(* runCommands before inotify's functions.                                 *)
Early == /\ ~InOrder /\ pc \in {"main", "idle"} /\ ~late
         /\ cmd # "none" /\ ~building
         /\ late' = TRUE /\ Goto("async")
         /\ UNCHANGED <<pool, world, watched, events, confevent, overflowed, missed,
                        caches, stopped>>

(* _process_inotify_updates, config_notifications, notifications.          *)
Inotify == /\ pc \in {"main", "idle"}
           /\ baseValid' = (baseValid /\ ~confevent)
           /\ parseValid' = (parseValid /\ ~overflowed /\ events = {})
           /\ modified' = modified \cup events
           /\ events' = {} /\ confevent' = FALSE /\ overflowed' = FALSE
           /\ Goto(IF cmd # "none" /\ ~building /\ ~late THEN "async" ELSE "main")
           /\ late' = FALSE
           /\ UNCHANGED <<pool, world, watched, missed, cfg, stopped>>

(* finishAsyncCommand and finishcommand.                                   *)
Finish == /\ cmd' = "none" /\ building' = FALSE /\ st' = "initial" /\ pc' = "main"
          /\ wanted' = Nothing

(* Mutated form: the refused command is forgotten instead of answered.     *)
Refuse_Unanswered == /\ pc = "async" /\ st \in Stops
                     /\ IF MustStop THEN Tell /\ Goto("refusing")
                                    ELSE Goto("main") /\ UNCHANGED procs
                     /\ UNCHANGED <<mtime, saved, parse, world, notes, caches, stopped>>

(* runAsyncCommand in a server that was stopped: updateCache shuts the     *)
(* parser down by force and raises, which ends the command.                *)
Refuse == /\ pc = "async" /\ st \in Stops
          /\ IF MustStop THEN Tell /\ Goto("refusing") ELSE Finish /\ UNCHANGED procs
          /\ UNCHANGED <<mtime, saved, parse, world, notes, caches, stopped>>

(* The end of a command after its parser was shut down.                    *)
Fail == /\ \/ pc = "refusing" /\ Joined(TRUE)
           \/ pc = "failing" /\ Joined(FALSE)
        /\ Save /\ Finish
        /\ UNCHANGED <<mtime, parse, procs, world, notes, caches, stopped>>

(* resetCooker: the configuration is read again and nothing else.          *)
Reset == /\ pc = "async" /\ cmd = "reset" /\ st \notin Stops
         /\ cfg' = conf /\ Finish
         /\ UNCHANGED <<pool, world, notes, baseValid, parseValid, modified, stopped>>

(* Mutated form: updateCache does not look whether the server was stopped. *)
Update_Regardless == /\ pc = "async" /\ cmd = "build" /\ st # "running"
                     /\ Goto(IF st = "parsing" THEN "next" ELSE "prepare")
                     /\ UNCHANGED <<pool, world, notes, caches, stopped>>

(* A command that needs the cache goes through updateCache until it is     *)
(* complete.                                                               *)
Update == /\ pc = "async" /\ cmd = "build" /\ st \notin Stops \cup {"running"}
          /\ Goto(IF st = "parsing" THEN "next" ELSE "prepare")
          /\ UNCHANGED <<pool, world, notes, caches, stopped>>

(* updateCacheSync, and a new parser unless the last one's result is       *)
(* valid.                                                                  *)
Prepare == /\ pc = "prepare"
           /\ baseValid' = TRUE /\ modified' = {}
           /\ cfg' = IF baseValid THEN cfg ELSE conf
           /\ IF parseValid /\ baseValid
                THEN mtime' = Refreshed(modified) /\ UNCHANGED <<saved, parse, procs>>
                ELSE \E part \in {{}, Files} : NewParser(cfg', modified, part)
           /\ parseValid' = TRUE
           /\ st' = "parsing" /\ pc' = "next"
           /\ UNCHANGED <<world, notes, cmd, building, stopped, wanted>>

-----------------------------------------------------------------------------
(* parse_next.                                                             *)

(* The next of chain(load_cached(), parse_generator()), if there is one.   *)
Upcoming == IF At("cached") # {} THEN At("cached")
            ELSE IF parsed < toparse THEN At("result") ELSE {}

(* Mutated form: the last result is not waited for.                        *)
Exhausted_Early == error \/ (At("cached") = {} /\ parsed + 1 >= toparse)

Exhausted == error \/ (At("cached") = {} /\ parsed >= toparse)

(* A recipe is loaded: add_info adds it to the recipe cache and watches    *)
(* its directory.                                                          *)
Load(f) ==
  /\ pc = "next" /\ ~error /\ f \in Upcoming /\ (place[f] = "result" => ~Fails(f))
  /\ parsed' = IF place[f] = "result" THEN parsed + 1 ELSE parsed
  /\ place' = [place EXCEPT ![f] = "loaded"]
  /\ watched' = watched \cup {f}
  /\ Goto("main")
  /\ UNCHANGED <<mtime, saved, procs, info, pcfg, toparse, error, world, events,
                 confevent, overflowed, missed, late, caches, stopped>>

(* The next of the generators raises: the recipe could not be parsed.      *)
Raise(f) ==
  /\ pc = "next" /\ ~error /\ f \in Upcoming /\ place[f] = "result" /\ Fails(f)
  /\ error' = TRUE
  /\ IF MustStop THEN Tell /\ Goto("failing") ELSE Finish /\ UNCHANGED procs
  /\ UNCHANGED <<mtime, saved, place, info, pcfg, toparse, parsed, world, notes, caches, stopped>>

Run == st' = "running" /\ pc' = "main" /\ UNCHANGED <<cmd, building, wanted>>

(* StopIteration.  The error of an earlier call is not forgotten.          *)
Complete == /\ pc = "next" /\ Exhausted
            /\ IF MustStop THEN Tell /\ Goto("completing")
                           ELSE UNCHANGED procs /\ IF error THEN Finish ELSE Run
            /\ UNCHANGED <<mtime, saved, parse, world, notes, caches, stopped>>

Completed == /\ pc = "completing" /\ Joined(FALSE)
             /\ Save /\ Run
             /\ UNCHANGED <<mtime, parse, procs, world, notes, caches, stopped>>

-----------------------------------------------------------------------------
(* The command runs; buildTargets and its kind leave an idle function.     *)
Execute == /\ pc = "async" /\ cmd = "build" /\ st = "running"
           /\ building' = TRUE /\ pc' = "main"
           /\ UNCHANGED <<pool, world, notes, caches, st, cmd, stopped, wanted>>

BuildEnds == /\ pc \in {"main", "idle"} /\ building
             /\ Finish
             /\ UNCHANGED <<pool, world, notes, caches, stopped>>

-----------------------------------------------------------------------------
Init == /\ PoolInit
        /\ now = 0 /\ conf = 0
        /\ watched = {} /\ events = {} /\ confevent = FALSE /\ overflowed = FALSE
        /\ missed = {} /\ late = FALSE
        /\ pc = "main" /\ st \in {"initial", "error"}
        /\ cmd = "none" /\ building = FALSE /\ stopped = "no"
        /\ cfg = 0 /\ baseValid = TRUE /\ parseValid = FALSE /\ modified = {}
        /\ wanted = Nothing

Pool == PoolStep /\ UNCHANGED <<now, conf, notes, caches, server>>

World == EditConf \/ \E f \in Files : Edit(f)

Client == \/ \E c \in {"build", "reset"} : Command(c)
          \/ UpdateConfig \/ \E force \in BOOLEAN : Stop(force)

Serve == \/ Stopped \/ Early \/ Inotify \/ Refuse \/ Fail \/ Reset \/ Update \/ Prepare
         \/ Complete \/ Completed \/ Execute \/ BuildEnds
         \/ \E f \in Files : Load(f) \/ Raise(f)

Next == Pool \/ World \/ Client \/ Signal \/ Serve

Spec == Init /\ [][Next]_vars

(* The loop and the processes go on; a command that runs ends.             *)
FairSpec == /\ Spec
            /\ WF_vars(Serve) /\ WF_vars(BuildEnds)
            /\ WF_vars(Pool)

-----------------------------------------------------------------------------
(* Properties.                                                             *)

(* Types of the variables.                                                 *)
TypeOK == /\ PoolTypeOK
          /\ now \in Nat /\ conf \in Confs
          /\ watched \subseteq Files /\ events \subseteq Files
          /\ missed \subseteq Files /\ modified \subseteq Files
          /\ confevent \in BOOLEAN /\ overflowed \in BOOLEAN /\ late \in BOOLEAN
          /\ pc \in {"main", "idle", "async", "prepare", "next", "stopping", "forcing",
                     "refusing", "failing", "completing"}
          /\ st \in Stops \cup {"initial", "parsing", "running"}
          /\ cmd \in {"none", "build", "reset"} /\ building \in BOOLEAN
          /\ stopped \in {"no", "signal", "stop"}
          /\ cfg \in Confs /\ baseValid \in BOOLEAN /\ parseValid \in BOOLEAN
          /\ wanted \in [files : [Files -> Nat], conf : Confs]

(* A command that needs the cache runs with the information of every       *)
(* recipe, each of which could be parsed: results, quit tokens, counters   *)
(* and the error of an earlier attempt agree on when a parse is complete.  *)
CacheComplete ==
  building => /\ ~error
              /\ \A f \in Files : place[f] = "loaded" /\ info[f].content \notin Broken

(* What is left in the cache files, by whatever end a parse came to: an    *)
(* entry that goes by the mtime a recipe has holds what the recipe said in *)
(* the second of its last change, never anything older.                    *)
EntriesSound ==
  \A c \in Confs, f \in Files : LET e == saved[c][f]
    IN e # None /\ e.stamp = Second(disk[f]) => Second(e.content) = Second(disk[f])

(* A server that waits for commands and was not stopped has no feeder and  *)
(* no parsers left, whichever way its last parse ended.                    *)
NoProcessLeft ==
  (pc = "main" /\ cmd = "none" /\ stopped = "no")
    => alive = 0 /\ feeder \in {"none", "done"}

(* A command works on a configuration and, to the second, on recipes no    *)
(* older than they were when it was given, but for changes that had not    *)
(* been told to the server: made before the directory was watched, lost in *)
(* an overflow, or still unread where nothing has them read first.         *)
Fresh ==
  [][~building /\ building' => /\ wanted.conf <= pcfg
                              /\ \A f \in Files : wanted.files[f] <= Second(info[f].content)]_vars

(* After stateShutdown or stateForceShutdown the command that waits for    *)
(* its parse is not run any more.                                          *)
StopHonoured == [][~building /\ building' => stopped # "stop"]_vars

(* Every command is answered: with its end, a failure, or a stop.          *)
Answered == cmd # "none" ~> cmd = "none"

(* Once it is shut down, by force or not, the feeder and the parsers end,  *)
(* although SIGTERM does not end them.                                     *)
PoolEnds == down ~> (alive = 0 /\ feeder = "done")
=============================================================================
