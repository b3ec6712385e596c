# A TLA+ model of BitBake, as used by the Tinker Board Yocto tree

This directory specifies and verifies the part of the repository that is a
concurrent program: BitBake (`src/sources/poky/bitbake`), the tool that decides
which tasks a build needs, runs them in worker processes and keeps their stamps,
locks and revision numbers. The rest of the repository is recipes, patches, board
files and vendored code; it is data for BitBake, or scripts run by its tasks.

All paths below are relative to `src/sources/poky/bitbake/` unless they start with
`meta/` (then `src/sources/poky/meta/`).

## 1. The system

```
 UI  -- commands -->  server process (one thread, idle loop)       lib/bb/server, command.py
 UI <-- events  ---        |
                       cooker.buildTargetsIdle                     lib/bb/cooker.py
                           |  one call per idle round
                       RunQueue.execute_runqueue                   lib/bb/runqueue.py
                        /  |  \
        <runtask>, <finishnow>, <quit>      disk monitor           lib/bb/monitordisk.py
                        \  |  ^
              bitbake-worker, fakeroot worker                      bin/bitbake-worker
                           |  fork               ^ <exitcode>, <event>
                       task child: exec_task, make_stamp           lib/bb/build.py
                           |            |            |
                      lock files    PR service    stamps, sstate, downloads
                    lib/bb/utils.py  lib/prserv    (file system)
```

### Inventory

| component | state it keeps | operations | hard behaviour | what makes it correct |
|---|---|---|---|---|
| Task execution queue (`runqueue.py`, `RunQueueExecuteTasks`) | buildable/running/complete sets, failed list, `build_stamps`, `stats`, `state` | pick, skip, launch, read exit codes, finish, finish_now, teardown | exit codes arrive in any order and in the middle of calls; workers die; stops, disk monitor and failures race | dependency order, task limit, one task per stamp, correct verdict, always ends, nothing left running |
| Worker (`bin/bitbake-worker`) | children by pid, output queue | runtask, finishnow, quit, waitpid, flush | dies with unread input and unwritten exit codes | every child is reported, or the queue knows its worker died |
| Stamps (`build.py`, `check_stamp_task`) | files and their times | make_stamp, check | a crash between steps; stamps of an earlier build | a skipped task is really current |
| Disk monitor (`monitordisk.py`) | `checked` per path | check | fires between any two idle calls | acts once |
| Lock files (`utils.py`) | a file per lock | lockfile, unlockfile | file removed and recreated while others wait for it | reader/writer exclusion, no leftovers, no livelock |
| PR service (`lib/prserv`) | SQLite table, request queue, dirty flag | getPR, importone, dump_db, quit, signals | two threads and signal handlers on one connection; commits after answers; death | numbers of a version never go down (no-history), are never shared (history); little is lost |
| Setscene queue (`runqueue.py`, `RunQueueExecuteScenequeue`; `meta/classes/sstate.bbclass`, `staging.bbclass`) | collapsed graph, covered, not covered and not needed sets, skip list | collapse, skip, fail outright, launch, read exit codes, hand over, take back | a failure changes what others may skip; loops run over what they change; stops and deaths in between | what a task that runs depends on runs too or is there; nothing is fetched without what it needs |
| Preparation and schedulers (`RunQueueData.prepare`) | task graph, weights, priorities | add dependencies, find cycles, prune | recursive dependencies | the graph handed over is acyclic and complete |
| Target resolution (`taskdata.py`, `providers.py`) | targets with their providers, failed targets and recipes | add_provider, add_tasks, add_unresolved, fail_fn, remove_buildtarget | cascades of removals, and an exception that leaves one half done | what is left has all it needs; a requested target is never lost without NoProvider |
| Server and commands (`server/`, `command.py`, `cooker.py`) | idle functions, current command, `cooker.state`, validity flags | runCommand, runAsyncCommand, updateCache, shutdown, reset, inotify, SIGTERM | commands, idle calls and signals interleave; a stop meets a parse | every command is answered; what is stopped does not run; what runs is current |
| Parser processes and caches (`cooker.py` CookerParser, `cache.py`) | job and result queues, quit tokens, counters, cache file, mtime cache | start, feed, parse, next, shutdown, load, save | a parse that fails or is stopped with processes at work | complete or reported; no stale or half-read entry; no process left |
| Events (`event.py`) | handlers, queue before a UI attaches | register, fire | none that is concurrent | order |
| Fetcher (`fetch2/__init__.py`) | done stamps, lock files, mirrors | download, verify, mirror | concurrent downloads, bad checksums | a done stamp implies a verified file |
| Persistent data, siggen, datastore, parser | tables, hashes, variables | — | sequential | — |
| UIs, Toaster, devtool/wic, layers, vendored libraries | — | — | outside this model | — |

`PROJECT.json` holds the same list with the status of each part, and the hazards:
the places where a step of another actor, a death or a boundary can hurt, each with
the properties that would notice.

## 2. Modules

| module | models | of |
|---|---|---|
| `BuildSchedule` | abstract: a set of tasks settled once each, in dependency order, within the limits | what a build promises |
| `RunQueue` | the task queue with its workers, children, stamps, disk monitor and stops | `runqueue.py`, `bin/bitbake-worker`, `build.py`, `monitordisk.py`, `cooker.py` |
| `RunQueueProofs` | proofs about `RunQueue`: its inductive invariant, the schedule | |
| `RunQueueVerdictProofs` | proofs about what a build reports, and what it may rely on | |
| `MCRunQueue` | graphs, stamps and skip lists for TLC | |
| `LockFile` | `lockfile` and `unlockfile`, a system call per step | `utils.py` 453-520 |
| `LockFileProofs`, `MCLockFile` | proofs; argument combinations for TLC | |
| `PRServ` | the PR service, a statement, socket or queue operation per step | `lib/prserv/db.py`, `serv.py` |
| `PRServProofs`, `MCPRServ` | proofs; symmetry for TLC | |
| `SceneGraph` | the collapse of the task graph to its setscene tasks, with its reference definition | `runqueue.py` 1876-1962 |
| `SceneQueue` | the setscene phase, and the skip list made of it | `runqueue.py` 1502-1604, 1845-2241; `sstate.bbclass`, `staging.bbclass` |
| `SceneGraphProofs`, `SceneQueueProofs`, `MCSceneQueue` | proofs; graphs, stamps and artefacts for TLC | |
| `TaskData` | which recipes a build needs | `taskdata.py`, `cooker.py` 702-738 |
| `TaskDataProofs`, `MCTaskData` | proofs; recipes and requests for TLC | |
| `ParserPool` | CookerParser, its processes and its cache files | `cooker.py` 1976-2240, `cache.py` |
| `Cooker` | the server's loop: commands, inotify, the parse a command waits for, stops, signals | `cooker.py`, `command.py`, `server/process.py` |
| `CookerProofs`, `MCCooker` | proofs; contents that cannot be parsed, for TLC | |

How they fit together: a command waits in `Cooker` until the parse of `ParserPool`
is complete; `TaskData` says what to build; `SceneQueue` begins with the graph made
of it and ends with a skip list; `RunQueue` begins with a graph and a skip list
(`CoveredSets`, any subset). `LockFile` and `PRServ` are used by the tasks.

### RunQueue

`pc` is the place of the server's only thread in `buildTargetsIdle`
(cooker.py 1457-1490) and the calls below it: `idle` between calls, `dispatch`
(`_execute_runqueue`), `execute` and `launch` (`RunQueueExecuteTasks.execute`),
`read` (`read_workers`, with `reading` the worker and `cont` where to go on),
`after`, `ended`, `teardown` (`_teardown_worker`), `verdict`, `done`, and `crashed`
when an exception ends the server without a BuildCompleted. The queue's variables
keep the source's names (`runq_buildable`, `runq_running`, `runq_complete`,
`failed_tids`, `build_stamps`, `stats`, `state`). `job[t]` is the fate of the task
on the other side of the pipe, from `sent` over `run` and `stamped` to an unread
exit code or `lost`. Between any two steps of the server workers, children, the
user and the kernel may take theirs. Each exit code is a step of its own, because
`runQueuePipe.read` handles it with its full consequence (`task_complete`,
`task_fail`, and through the latter `rq.state`) before it looks for the next.

Stamps are age classes: 0 no file, 1 and 2 found at the start, 3 written by this
build. That is exact for the comparisons `check_stamp_task` makes as long as a
build starts more than a clock tick after the last one ended. A nostamp task is
given no stamp at the start: it writes none, and its stamp's name holds a taint that
is new in every build (siggen.py 214-219).

What is abstracted: a scheduler may prefer any candidate (`Candidates`), so what
holds is true of the `speed` and the `completion` scheduler (`basic` does not work,
section 5); a read may deliver any prefix of what is in the pipe; the bytes, the events and the log
messages are left out; a queued runtask can still be in the pipe when finishnow is
handled. A later stop request overwrites an earlier one, a forced one too
(cooker.py 1740-1744); `forced` remembers it for `Calm`. No task of the repository sets the flag `selfstamp`
(build.py 619), so every child that succeeds writes its stamp unless its task is a
nostamp task. A child killed before its `setsid`, or by its parent's death before its
prctl call took effect, is not modelled. `-a` does not occur: `buildTaskData` (cooker.py 706) never passes
it on, so that runqueue.py 1244-1247 is dead.

### LockFile

A process is in `lockfile` (`open`, `flock`, `exists`, `stat`, `close`), holds the
lock (`held`) or is in `unlockfile` (`promote`, `unlink`, `drop`); `refused` is a
call that returned None. `path` is the inode the name refers to, `fd` and `lock`
what the process has open and locked. Inode numbers are reused as soon as neither a
name nor an open file refers to them. `AtomicConversion` says whether the kernel
turns a shared flock into an exclusive one in one step; flock(2) leaves it open.
Signals (`MayInterrupt`) break off a blocking flock, and a process may die anywhere
or close its lock without unlocking, as `cooker.post_serve` does (`MayDie`).
An interrupted flock is modelled for callers with `block=True` only: `post_serve` is
the one, under an alarm of its own. An `open` that fails, and the directory that is
not writable (`sys.exit`), are left out.

### PRServ

`rows` is the table as the one connection sees it, `committed` what is on disk,
`inTx` whether a transaction is open, `dirty` the flag of `PRTable`. The handler
thread's place is `th` (`check`, `get`, `serve`, `reply`, `commit`, `begin`, and
`errcommit`, `errbegin` for the sync after a failed answer); the main thread's is
`main`, with `sig` the statement of a signal handler that runs on it. `queue` is
the request queue, `asked` how far each client's request is. `issued` is history:
the values clients received. `CommitFirst` is the behaviour of Python's sqlite3
module before version 3.6, which commits ahead of a BEGIN; later ones let it fail
inside a transaction. `dump_db`'s sync is one step, since its failure changes
nothing. `export` and `ping` only read. `Gone` is the end of the process: with it
the transaction, the queue and the connections.

Not modelled: two servers on one database, and with them "database is locked";
a power failure (`pragma synchronous = off` would then lose more); the pidfile; what
the exception raised by a signal handler does above `work_forever` (`main = "dead"`).

### SceneGraph and SceneQueue

`Process` is one iteration or one recursive call of `process_endpoints`; the
dictionary may give the points in any order. `Nearest`, `Above` and `Unskippable`
say what it should find, by closures. `SceneQueue` goes on with the queue's
variables under their own names; `order` is `sq_revdeps` as `__init__` completes
it with the hard dependencies, `job` the fate of a task given to the worker, `pc`
the server's place as in `RunQueue`. `uses` stands for `setscene_depvalid`, which
decides by the names of tasks; any relation is allowed in the proofs. A relation on
pairs cannot say that the verdict on a task hangs on which other tasks need it, as
it may for a few (sstate.bbclass 911-915). `updatecounters` is
`scenequeue_updatecounters` with its recursion over hard dependencies as a closure
(`Doomed`). After the queue comes `RunQueueExecuteTasks.__init__`: `FirstLoop` gives
every set that the first loop can end with, since it adds to the set it reads while
it runs over a dictionary; `CoverMore` is the `while` loop's fixed point;
`toremove` holds what `sysroot_checkhashes2` takes back and what that pulls along.
`Found`, `Built` and `Available` are what the disk and the mirrors hold.
`HardDepsFlat` is an assumption about metadata: `useradd.bbclass` (164-165) and
`base.bbclass` (461, do_package_setscene on fakeroot's do_populate_sysroot) declare
dependencies of setscene tasks on such tasks, and those have none of their own.

### TaskData

A `World` is what was parsed and asked for: the providers of a name as
`providers.py` orders and filters them, the dependencies of recipes and of single tasks, the
requested targets and the options. `targets` stands for `build_targets` and
`run_targets`, `failed` for `failed_deps` and `failed_rdeps`, `seen` and `seenfns`
for the keys of the tables. `fail_fn` and `remove_buildtarget` call each other; their recursion
is a stack, so that the exception raised for a requested target (`Raise`) leaves
the removals under way undone, as it does in the code. Loops over dictionaries
may take any order; loops over lists and the order of two loops are kept.

### ParserPool and Cooker

`place` is where a recipe is on its way through the pool, from the generator of
the feeder over the job queue, a parser and the result queue to `loaded`. Time
is counted in ticks, `Ticks` of them to a second. A file's content is the time of the
change that made it, and `disk` holds it; mtimes, in `mtime` and in the entries' `stamp`,
are whole seconds (`Second`), as `os.stat(f)[stat.ST_MTIME]` gives them
(parse/__init__.py 62, 68, 75): two changes within a second cannot be told apart. Of
the clock it is assumed that it does not go back, and of changes that none gives a
file an older mtime (`Change`). `tokens` are those
written to `parser_quit`; a parser takes one when it is idle. `saved` is the cache
file of each configuration (its `data_hash`). `Cooker` adds the server's place
(`pc`; `main` where the loop takes commands, `idle` where it runs idle functions,
`next` in `parse_next`, and `stopping`, `forcing`, `refusing`, `failing`,
`completing` in the joins of `shutdown`), `cooker.state` (`st`), the command, the
two validity flags, inotify's watches and unread events. The idle functions are the
items of a plain dict (server/__init__.py 39, process.py 140). It is in the order of
registration, inotify before runCommands, from CPython 3.6 on (`InOrder`); on the older
versions BitBake accepts, a command may be looked at before the events (`Early`, and
`late` until they are read in the same pass). `missed` and `wanted` are history:
recipes changed without the server being told, and what there was when the command was
given and the server was going to know of (`Knowable`: without `InOrder` not what is in
an unread event). `Stays` says what becomes of a server that was told to stop: with
its UI the default one goes too and gets no more commands, as in `parse`; one that
stays gets them (section 5).
The command itself is
`RunQueue`'s affair, here it ends some time. A configuration change is either an event
or comes with `updateConfig`. A cache file can be read as a whole or not at all
(`part`).

## 3. What the runs check

| run | instance | shows |
|---|---|---|
| `rq_continue` | 4 tasks in a diamond or two chains, `-k`, any may fail, two share a stamp; all stamp ages, skip lists, a noexec and a nostamp task, ABORT | StampSkipSound, VerdictSound, CompleteIsFinal, StampExclusive, NeverStuck, ContinueAsFarAsPossible |
| `rq_hard` | chain, fork and join of 3 tasks; fakeroot worker that may not start, one worker death, STOPTASKS, user stops; fair | DepsSettled, the inductive invariant QueueInv, LateLaunch, FailureReported, Quiescent; RunQueue implements BuildSchedule; every build ends (Termination) |
| `lock_safe` | 3 processes, 3 inodes, every combination of arguments in use, signals, deaths | Exclusion, CleanedUp, LockInv |
| `lock_live` | shared and exclusive callers that retry, fair | SomebodyGetsIt |
| `lock_convert` | non-atomic conversion | violated: Exclusion |
| `pr_nohist` | 2 clients, get, import, dump, time-outs, a signal, a death, BEGIN that may fail | UnlessKilled, LosesOneAnswer, PRInv |
| `pr_hist` | history mode, 2 checksums, 4 requests, quit, a signal; fair | Historical, Answered |
| `scene` | 4 graphs of 7 tasks with 3 setscene tasks; hard dependencies, stamps and artefacts in all combinations, `-f`, `--setscene-only`, an enforced task, stops, a death; fair | GraphSound, NoHole, TakenBackWhole, HardDepsThere, StopHonoured; the phase ends (SceneEnds) |
| `scene_verify` | the same without stops and deaths | violated: NoHoleVerified |
| `taskdata` | 6 recipes, 7 names, alternatives, cycles, missing providers, dependencies of tasks: 7776 worlds; fair | Consistent, Complete; the resolution ends (Resolves) |
| `taskdata_lost` | the same worlds | violated: KeptOrRaised |
| `parse` | 2 recipes, 2 parsers, idle functions in any order, 2 changes at any time in 2 seconds, overflow, a content that cannot be parsed, stops, signals; fair | CacheComplete, EntriesSound, NoProcessLeft, Fresh, StopHonoured, every command is answered (Answered), the pool ends (PoolEnds) |

The type invariants are part of LockInv and PRInv there; those of RunQueue,
SceneQueue, TaskData and Cooker are proved (`TypeCorrect`), and no run repeats them.

Bounds. Three tasks contain the shapes of dependency that matter to a step of the
queue (a chain, a fork, a join, more tasks than threads), four the diamond and the two independent chains
that `-k` separates; two threads make the limit bind. Which
tasks exist plays no other role in the code, and the proofs cover every finite set.
One worker death and one disk event are enough for each to meet every other
disturbance; both workers dying is left to a larger instance. Three processes are
needed for the lock's races (one that unlocks, one that waits on the old file, one
that creates the new), three inodes for a number to be free for reuse at that
moment; the proofs cover any number. Three or four requests let one number be
asked, raised and asked again. `MaxCrash`, `MaxSignals` and `MaxRequests` bound
history and nothing else.

Three setscene tasks are two that wait for a third, one of them with a hard
dependency on it, or three in a row through ordinary tasks: enough for a skipped, a
failed and a fetched one to meet below one task, and for the collapse to meet a
point twice. Six recipes hold an alternative, a chain of two removals, a cycle and
a second requested target whose recipe goes while another is resolved. Two recipes
and two parsers separate "read" from "still to be read" with the queue full or
empty; two changes are one before and one after a parse, or one of a recipe and one
of the configuration, so that an older cache file of another configuration is met.
With two ticks to a second, a change at time 1 is within the second of what was there
at the start, one at time 2 is not. `InOrder` is FALSE: every order of the idle functions
occurs, and `Fresh` says the less of its two meanings. The proofs cover the other one, and
other numbers, of ticks too.

`CHECK_DEADLOCK FALSE` is said only in `pr_nohist`: a server whose main thread was
ended by a signal handler's failed BEGIN really stops when its handler thread has
too. A build, a setscene phase or a resolution that is over stutters (`Terminated`)
instead.

Fairness. `rq_hard`: the server's loop comes back to the idle callback (weak
fairness on its steps), workers and children are processes the kernel schedules
(weak), and a pipe that is read again and again delivers the next exit code
(strong fairness on reading each task's code: a read may return before it arrives
any finite number of times). Stops, deaths, low disks and failures are never
forced. `lock_live`: each process goes on with its own call; no fairness is
assumed between waiters, as the code says itself ("This implementation is unfair").
`pr_hist`: the two threads run. Clients are never forced to ask.
`scene`: as `rq_hard`. `taskdata`: the one thread goes on. `parse`: the server's
loop goes on, the pool's processes are scheduled, and a command that is executed
ends (`WF_vars(BuildEnds)`, which `rq_hard` shows of a build); commands, changes,
stops and signals are never forced.

## 4. What is proved

TLAPS checks the proofs for every value of the constants allowed by the modules'
named assumptions.

`RunQueueProofs`. The invariant is `QueueInv`: build_stamps holds exactly the tasks
whose exit code is unread, no two with one stamp (`StampsHeld`); complete tasks
were running, running ones buildable, buildable ones have their dependencies
complete (`QueueOrder`); failed and complete tasks are settled and disjoint
(`Verdicts`); `stats.active` counts build_stamps wherever the scheduler relies on
it (`SlotsCounted`). The last part carries the weight: the counter goes wrong when a
fakeroot worker fails to start, but only on the way out, and `Counting` names the
places where it must still be right. From it follow `TypeCorrect`, `InvCorrect`,
`DepsSettledCorrect`, `StampExclusiveCorrect`, `SlotsBoundCorrect`, and
`ScheduleImplemented`: RunQueue implements BuildSchedule under the mapping `status`.
Finiteness of the task set is needed to count; these theorems assume nothing of the
graphs, which may even be cyclic, of the stamps or of the number of deaths.

`RunQueueVerdictProofs` goes on from `QueueInv`.
- `CompleteIsFinalCorrect` needs no more than it: a complete task is not in
  `build_stamps`, so no child of it is left to write a stamp.
- `LateLaunchCorrect`: after a late launch the state is no longer Running and
  `execute()` is over (`LateInv`).
- `StampSkipSoundCorrect` (`StampAges`): a task with a stamp of this build was
  started by it, a covered one never was, and a task whose child succeeded has such a
  stamp or is a nostamp task, which has no older one (`NoStampFresh`).
- `QuiescentCorrect`: a task process lives in a worker that is up (`Manned`), and
  none is up once the pipes were torn down (`TornDown`).
- `NeverStuckCorrect`: what is running is complete, failed or in `build_stamps`
  (`Started`), what is not buildable waits for a dependency (`Ready`). If nothing can
  be started and nothing is active, all that is not complete depends on something
  else that is not; `GraphsAcyclic` says that this cannot be. `prepare` refuses
  circles before the queue is made (`calculate_task_weights`).
- `FailureReportedCorrect` (`CalmInv`): the teardown follows the end of the queue, and only it
  leads to the verdict (`Routes`); `stats.active` is wrong only after a fakeroot
  worker failed to start, and a build that ends otherwise ends with nothing held
  (`Counts`); no worker is gone before the teardown (`Staffed`); so a calm build has
  read every failure when it reports them (`Reported`).
- `VerdictSoundCorrect` and `ContinueCorrect` (`SureInv`): an undisturbed build
  cleans up only after a failure without `-k`, and ends otherwise only when all that
  was buildable has been started. The rest is
  the argument of `NeverStuckCorrect`.

`LockFileProofs`. `LockInv` is `Granted` (what flock guarantees and who has what
open) and `Linked`: a file somebody has locked and checked is the one the name
refers to. So all holders hold one inode, and whoever removes the name has it
exclusively. For `CleanedUp` two more are needed: who closes what he has locked closes a
file the name no longer refers to (`Stale`), and as long as nothing was lost a file
that is there has somebody in charge of it, who has it open and is yet to check it,
to use it or to remove it (`Owned`). `LockInvCorrect`,
`ExclusionCorrect` and `CleanedUpCorrect` assume `AtomicConversion`; `lock_convert`
shows that exclusion fails without.

`PRServProofs`. `PRInv` is `Served` (a client is in the queue once, or being
served), `Synced` (rows not on disk make the table dirty until the commit; nothing
is uncommitted when the handler thread waits or has ended), `Ready` (the value about
to be answered is the version's highest row) and, until a death, `Reached` (a row
reaches every value issued). `PRInvCorrect` and `UnlessKilledCorrect` hold in
no-history mode, for both behaviours of BEGIN and any number of requests, signals
and orderly restarts. One death is enough to lose the property (section 5).
Without the assumption of a mode there are `Served`, `Synced`, an answer that is the
value of its row (`ReadyRow`), and a table on disk that is never ahead of the
connection's (`Behind`). `Bounded` counts with them what the disk lacks: one answer for each
death, and one more only while the handler thread has its commit before it; hence
`LosesOneAnswerCorrect`, for any number of deaths. In history mode every answer is in
its row until the first death (`Recorded`), because a row once there is never changed,
so that a query repeats its answer (`SameAgainCorrect`); numbers stay `Distinct` as
long as nothing is imported, because `_importHist` takes any number it is given
(`HistoricalCorrect`).

`SceneQueueProofs`. Each property has an invariant of its own. `DepsInv`: a hard
dependency is still waited for or is there, and what may start waits for nothing;
it needs `HardDepsFlat`, since a failure's recursion is only shown to reach what
waits directly. `StopInv`: after a stop the state is CleanUp or Complete.
`CoverInv`: what the two loops add to the skip list is used by skipped tasks only,
and `toremove` holds what is yet to be taken back. From them follow
`HardDepsCorrect`, `StopCorrect` and `CoverCorrect`, for any graph,
stamps, artefacts and number of deaths. With hard dependencies of any depth one
that has some of its own could be skipped as not needed: plan, item 7.

`SceneGraphProofs` shows the collapse right. On each way down from a setscene task to
the next one, the upper one has always come to some task of the way (`OnTheWay`):
either it is in what that task was handed, or in what it brings as a point. A task
that was handed any is a point still to be processed (`Scheduled`), so that in the
end everything has arrived; and nothing is handed on that is not above (`FromAbove`).
`Upwards` is a least closed set, so that no induction is needed: that a way down begins
with a dependency (`StepDown`) follows from taking the task out of the set. This
gives `CollapseCorrect`, `GraphCorrect`, and with it `NoHoleCorrect`: a task that was
not needed had all of `Nearest` covered, and no target leads to it through ordinary
tasks alone (`NotMissed`). So the `while` loop adds every ordinary task above it: of
those left out one would be used by none of the others (`GraphsAcyclic`), and that one
the loop adds. (It takes `HardDepsFlat` too: then what others cannot do without is
never skipped as not needed.) Taking back (`SkipList`) can only reach those tasks through a covered
one; that is the exception `NoHole` makes, and `scene_verify` shows it is needed.

`TaskDataProofs`. Everything is said as long as no requested target was lost
(`Kept`), because `taskdata_lost` shows that what comes after is not consistent.
`StackThrown`: what is on the stack has been thrown out. `Cascade`: a list that
still names a recipe thrown out, or a recipe that still needs a name thrown out,
has that recipe or name on the stack; with an empty stack that is `Consistent`.
`Lists`: a list holds eligible providers only, and all of them once its loop is
over. `Mention`: every name a recipe left needs has been seen. `OpenRounds`: what
is unresolved is still to be looked at in this round, unless it added something;
`Closed` concludes when a round added nothing. Together they give `CompleteCorrect`.

`CookerProofs`. `SecondOrder` is what division does to the order of times.
`Dated` and `Ordered`: the mtime a recipe is filed under is never later than the second
of what was read, nor that than the recipe's. `Counted`: `parsed` and the recipes on
their way add up to `toparse`, which makes `parse_next`'s counters right (`Control`)
and needs the cardinality of finite sets. `Halted`: a stop is kept until the
waiting command was refused. `Tidy`: whenever there is nothing to shut down the
pool is gone. `Known`: what the server takes a recipe for is, to the second, what the
recipe says, unless an event is unread, noted in `inotify_modified_files` or was missed;
`Wanted`: the same for the command that waits, until its parse is complete. From
them follow `EntriesSoundCorrect`, `CacheCompleteCorrect` and `NoProcessLeftCorrect`,
and for a server that goes with its UI (`~Stays`) `StopHonouredCorrect` and
`FreshCorrect`. They hold for any number of ticks in a second and either value of
`InOrder`; without it `Fresh` itself says less.

Every invariant and every action property of the passing runs is stated by one of these
theorems. Only model-checked: what must eventually happen (Termination,
SomebodyGetsIt, SceneEnds, Resolves, PoolEnds and the two Answered), because fairness
and ENABLED are out of the prover's reach. The sequences, sets and functions of the
models need no induction: where a chain or a closure matters it is written as a least
closed set, or as the minimal element of a set that the acyclic graph provides.

## 5. Where the code and its documentation disagree

- `lock_convert`: if the kernel's conversion of a flock is not atomic, unlockfile can
  remove the file of somebody else's lock (utils.py 515, comments 480-483, 513-514).
- `scene_verify`: a task taken back by the verify function pulls its dependencies
  along except those in `initial_covered`, which also holds setscene tasks that were
  only marked as not needed and never fetched: it runs without them
  (runqueue.py 1600, 2173; comment 1559).
- `taskdata_lost`: a requested target can be lost without NoProvider, because the
  exception raised for it is caught where another target is resolved
  (taskdata.py 517; runqueue.py 734 asks to report that as a bug). An error is
logged (482), the build is not refused.

Met on the way and kept in the model, without a document that says otherwise: a
worker's death found by the read of the same call that then writes to it ends the
server loop without BuildCompleted (`crashed`); a build stopped at once, aborted by
the disk monitor or robbed of a worker may report no failures (the exceptions in
`FailureReported` and `VerdictSound`); `lockfile(retry=False, block=True)` returns
None without the lock when the file was removed while it waited (its one caller
loops); a fakeroot worker that does not start counts
as a failed task in `stats` but not in `failed_tids`, and reports none; when such a start ends the build (without `-k`), a task's failure that is
read only in the teardown is not reported either, nor are the tasks lost with it (met
in a proof: `Calm` is the exception, four tasks and four threads the smallest
instance); one task may
still be launched after the build has been told to stop (`LateLaunch`); an answer of
the PR service precedes its commit, so that a killed server forgets it and may give a
lower number later (serv.py 90-99; `LosesOneAnswer` is what is true); on Python 3.6
and later a SIGINT or SIGTERM can end its handler thread, through the sync that
stands outside its try (serv.py 99).

Read in the code, and visible in no property:

- `-a` (main.py 151, docstring runqueue.py 1166) has no effect, see `RunQueue` above.
- `RunQueueExecuteTasks.__init__` tests `revdeps` against the skip list twice, once
  without looking at `scenequeue_notcovered` (1540) and once with it (1552): a failed
  setscene task that only skipped tasks use is skipped or run depending on where the
  dictionary has it. Both are right for what depends on it.
- A dependency of a single task (`idepends`) on a name already thrown out when the
  task is first seen is dropped without a word (`Complete` excepts it); the same
  through a dependency of the recipe fails the recipe (taskdata.py 156-165).
- A runtime dependency of a task on an ASSUME_PROVIDED name makes `prepare` take the
  first element of an empty list (runqueue.py 564-568).
- A stop during a parse, in a server that stays: the exception of `updateCache` is
  caught in `runAsyncCommand`, which does not "trigger an exit" (comment command.py
  92-93), and `parsecache_valid` is still true; the next command that needs the cache
  waits in `parse_generator` for results of parsers that are gone. With `Stays = TRUE`,
  `Threads = 1` and `MaxTime = 0` in `parse.cfg` TLC shows it as a counterexample to
  `Answered`. A server one of whose parsers was killed would wait in the same way.
- A recipe read between two changes within a second leaves a cache entry with the
  older content and the mtime it still has: it stays valid until a third change, even
  when an event tells of the second (parse/__init__.py 75, cache.py 584). `EntriesSound`
  and `Fresh` promise the second, not the change.
- On a Python whose dict has no order, a command may be executed before the events that
  came ahead of it are read (process.py 140): it works on what was parsed before.
- The `basic` scheduler raises ValueError once two tasks are buildable: its `prio_map` is
  a list of one element, the dict's keys (runqueue.py 133, 161).
- `bb.parse.__mtime_cache = {}` in cooker.py 192 has its name mangled and does
  nothing; an overflow clears a validity flag but no mtime, so that recipes whose
  events were lost are taken for unchanged (`missed`).
- `resetCooker` and `setFeatures` read the configuration again but do not force the
  reparse their docstrings speak of (command.py 468, 324).
- SIGTERM between `updateCache`'s check and its own assignment of the state is
  overwritten (cooker.py 1642, 1652). `StopHonoured` is stated of stateShutdown only.
- After a failed parse neither the failing recipe's directory is watched nor the
  parser's error cleared while `parsecache_valid` holds: repairing the recipe is not
  noticed. Skipped recipes are never watched, and a change between a recipe's reading
  and its watch is missed.
- `cooker.state` "error" is forgotten after one refused command, since its end sets
  the state to initial.

## 6. Plan

Done: the task queue, the lock files, the PR service, the setscene queue with its
graph, the target resolution, the parser with the server's loop; in this order for
the rest, each module with its MC module, runs, and proofs where noted.

1. `Fetch`: done stamps, mirrors, checksums, two fetching tasks over `LockFile`.
2. `MultiCache` over `LockFile`: save_extras and save_merge, deaths while pickling.
3. `Stamps`: two successive builds with `make_stamp`, `del_stamp`, taints, a death
   between its steps; lifts the clock assumption of `RunQueue`.
4. `Prepare`: `calculate_task_weights`, cycle detection, `mark_active`, recursive
   dependencies; weights against longest paths over all graphs of four tasks.
5. `Server`: the pipes of commands and events, `event.py`'s queue, the UI's death.
6. `PRServ`, second part: two servers on one database, `auto_start` and
   `auto_shutdown`.
7. Hard dependencies of any depth (without `HardDepsFlat`), first as a run: whether
   `HardDepsThere` still holds; and proofs for each new module.

Not modelled, and why: see the notes of `PROJECT.json`'s components. In short:
Left out for good are string processing (recipe parsing, variable expansion, digests),
presentation (knotty, Toaster's pages), calls of external programs (git, wget, the
flashing tools), vendored libraries, and the recipes themselves. They make up most of
the repository's lines; the modelled programs are `runqueue.py`, `taskdata.py`, the
parser and server parts of `cooker.py` and `command.py`, `prserv`, the lock
functions of `utils.py` and the worker.

## 7. Running it

```
tlc -config rq_hard.cfg MCRunQueue          # the others: see PROJECT.json
tlapm RunQueueProofs.tla                    # and the other ...Proofs modules
```

`PROJECT.json` maps every definition to the lines it models, and names for every
property a mutated definition (`..._NoAge`, `..._Blind`) that breaks it.
