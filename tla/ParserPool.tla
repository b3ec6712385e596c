----------------------------- MODULE ParserPool -----------------------------
(***************************************************************************)
(* bb.cooker.CookerParser with its Feeder and Parser processes, and the    *)
(* cache files they fill.  A feeder puts the recipes that must be parsed   *)
(* into a short queue, parsers take them from it and put what they read,   *)
(* or the exception it raised, into an unbounded one, from which the       *)
(* server takes it.  To stop them the server puts a token for each into    *)
(* a queue of its own; a token is there for them only when the server's    *)
(* queue thread has written it, so that either may go on for a while.      *)
(*                                                                         *)
(* A file's content is the time of the change that made it, its mtime the  *)
(* second that time is in: of two changes in one second the mtime tells    *)
(* nothing.  A recipe stands for its .bb file, its variants and its        *)
(* appends.                                                                *)
(***************************************************************************)
EXTENDS Naturals, FiniteSets

CONSTANTS
  Files,   \* the recipes collect_bbfiles finds
  Threads, \* BB_NUMBER_PARSE_THREADS
  MaxTime, \* bound on the time, and so on changes
  Ticks,   \* what fits into a second
  Broken,  \* the contents that cannot be parsed (the first can)
  None     \* nothing known of a file

ASSUME PoolAssumption == /\ IsFiniteSet(Files) /\ Threads \in Nat \ {0}
                         /\ MaxTime \in Nat /\ Ticks \in Nat \ {0}
                         /\ Broken \subseteq Nat \ {0} /\ None \notin Nat

VARIABLES
  disk,    \* the content of each recipe
  mtime,   \* __mtime_cache of bb.parse, in the server
  saved,   \* the cache files, by configuration (data_hash)
  place,   \* where each recipe of the current parse is
  info,    \* what was read of it
  pcfg,    \* the configuration of the parse
  toparse, \* how many recipes must be parsed
  parsed,  \* how many results were taken
  error,   \* parse_next met an exception
  feeder,  \* the Feeder: "none", "run", "told" to stop, "done"
  alive,   \* Parser processes that have not ended
  tokens,  \* in parser_quit
  down     \* haveshutdown

parse == <<place, info, pcfg, toparse, parsed, error>>
procs == <<feeder, alive, tokens, down>>
cache == <<mtime, saved>>

(* CoreRecipeInfo as far as the cache looks at it: the content it was read *)
(* from and the mtime it is filed under.                                   *)
Info  == [content : Nat, stamp : Nat]
Confs == 0..MaxTime

(* os.stat's ST_MTIME of a file changed at time t: whole seconds.          *)
Second(t) == t \div Ticks

At(l) == {f \in Files : place[f] = l}

(* The length of the jobs queue, and the number of parsers at the start.   *)
Processes(n) == IF n < Threads THEN n ELSE Threads

Fails(f) == info[f].content \in Broken

-----------------------------------------------------------------------------
(* Feeder.run; on queue.Full it takes the job back and starts again.       *)
Feed(f) == /\ feeder \in {"run", "told"} /\ place[f] = "feeder"
           /\ Cardinality(At("jobs")) < Processes(toparse)
           /\ place' = [place EXCEPT ![f] = "jobs"]
           /\ UNCHANGED <<disk, cache, procs, info, pcfg, toparse, parsed, error>>

FeederEnds == /\ feeder = "told" \/ (feeder = "run" /\ At("feeder") = {})
              /\ feeder' = "done"
              /\ UNCHANGED <<disk, cache, parse, alive, tokens, down>>

IdleParser == Cardinality(At("parsing")) < alive

(* resolve_file takes the mtime, from the server's as it was at the fork,  *)
(* before the file is opened.                                              *)
Stamp(f) == IF mtime[f] = None THEN Second(disk[f]) ELSE mtime[f]

Take(f) == /\ place[f] = "jobs" /\ IdleParser
           /\ place' = [place EXCEPT ![f] = "parsing"]
           /\ info' = [info EXCEPT ![f].stamp = Stamp(f)]
           /\ UNCHANGED <<disk, cache, procs, pcfg, toparse, parsed, error>>

(* Parser.parse: every exception becomes a result.                         *)
Read(f) == /\ place[f] = "parsing"
           /\ place' = [place EXCEPT ![f] = "result"]
           /\ info' = [info EXCEPT ![f].content = disk[f]]
           /\ UNCHANGED <<disk, cache, procs, pcfg, toparse, parsed, error>>

(* Terminated or not, a parser ends when it finds a token: it has the      *)
(* server's handler for SIGTERM, which only sets a variable.               *)
ParserEnds == /\ tokens > 0 /\ IdleParser
              /\ alive' = alive - 1 /\ tokens' = tokens - 1
              /\ UNCHANGED <<disk, cache, parse, feeder, down>>

PoolStep == FeederEnds \/ ParserEnds \/ \E f \in Files : Feed(f) \/ Take(f) \/ Read(f)

-----------------------------------------------------------------------------
(* What the server does with it, as parts of its own actions.              *)

(* Mutated form: the files there were notifications for keep their mtime.  *)
Refreshed_Not(changed) == mtime

(* updateCacheSync: bb.parse.update_cache of the files that changed.       *)
Refreshed(changed) ==
  [f \in Files |-> IF f \in changed /\ mtime[f] # None
                   THEN Second(disk[f]) ELSE mtime[f]]

(* CookerParser.__init__ and start: load what can be read of the cache of  *)
(* this configuration (part); take what is valid by its mtime from it and  *)
(* start processes for the rest.                                           *)
NewParser(conf, changed, part) ==
  LET found == [f \in Files |-> IF f \in part THEN saved[conf][f] ELSE None]
      known == [f \in Files |-> IF found[f] # None /\ Refreshed(changed)[f] = None
                                THEN Second(disk[f]) ELSE Refreshed(changed)[f]]
      valid == {f \in Files : found[f] # None /\ found[f].stamp = known[f]}
      n     == Cardinality(Files \ valid)
  IN /\ mtime' = known
     /\ place' = [f \in Files |-> IF f \in valid THEN "cached" ELSE "feeder"]
     /\ info' = [f \in Files |-> IF f \in valid THEN found[f]
                                 ELSE [content |-> 0, stamp |-> 0]]
     /\ pcfg' = conf /\ toparse' = n /\ parsed' = 0 /\ error' = FALSE
     /\ feeder' = IF n = 0 THEN "none" ELSE "run"
     /\ alive' = Processes(n) /\ tokens' = 0 /\ down' = FALSE
     /\ UNCHANGED <<disk, saved>>

(* Mutated form: the parsers are only shut down when there is nothing left *)
(* to parse.                                                               *)
MustStop_Complete == toparse > 0 /\ ~down /\ parsed = toparse

(* shutdown() up to its joins, and whether it has to do anything.          *)
MustStop == toparse > 0 /\ ~down

(* Mutated form: the parser that has just finished gets no token.          *)
Tokens_Short == alive - 1

Tokens == alive

Tell == /\ down' = TRUE /\ tokens' = Tokens
        /\ feeder' = IF feeder = "run" THEN "told" ELSE feeder
        /\ UNCHANGED alive

(* With force the parsers are not waited for.                              *)
Joined(force) == feeder = "done" /\ (force \/ alive = 0)

(* Mutated form: recipes that are just being read are saved, too.          *)
Save_All == saved' = IF parsed = 0 THEN saved
                     ELSE [saved EXCEPT ![pcfg] =
                            [f \in Files |-> IF place[f] \notin {"feeder", "jobs"}
                                             THEN info[f] ELSE None]]

(* The thread that saves the cache, unless nothing was parsed; the time it *)
(* takes is not modelled.                                                  *)
Save == saved' = IF parsed = 0 THEN saved
                 ELSE [saved EXCEPT ![pcfg] =
                        [f \in Files |-> IF place[f] \in {"cached", "loaded"}
                                         THEN info[f] ELSE None]]

(* The cache files are those an earlier server left: what it could parse.  *)
PoolInit == /\ disk = [f \in Files |-> 0]
            /\ mtime = [f \in Files |-> None]
            /\ saved = [c \in Confs |-> [f \in Files |-> [content |-> 0, stamp |-> 0]]]
            /\ place = [f \in Files |-> "nowhere"]
            /\ info = [f \in Files |-> [content |-> 0, stamp |-> 0]]
            /\ pcfg = 0 /\ toparse = 0 /\ parsed = 0 /\ error = FALSE
            /\ feeder = "none" /\ alive = 0 /\ tokens = 0 /\ down = FALSE

Places == {"nowhere", "cached", "feeder", "jobs", "parsing", "result", "loaded"}

(* Types of the variables.                                                 *)
PoolTypeOK == /\ disk \in [Files -> Nat]
              /\ mtime \in [Files -> Nat \cup {None}]
              /\ saved \in [Confs -> [Files -> Info \cup {None}]]
              /\ place \in [Files -> Places] /\ info \in [Files -> Info]
              /\ pcfg \in Confs /\ toparse \in Nat /\ parsed \in Nat
              /\ error \in BOOLEAN /\ down \in BOOLEAN
              /\ feeder \in {"none", "run", "told", "done"}
              /\ alive \in Nat /\ tokens \in Nat
=============================================================================
