------------------------------ MODULE TaskData ------------------------------
(***************************************************************************)
(* bb.taskdata.TaskData: which recipe files a build needs.  It takes the   *)
(* providers of the requested targets, then round by round those of every  *)
(* target their recipes mention, and throws out the recipes that need a    *)
(* target nobody provides, with the targets only they provided, and so on. *)
(*                                                                         *)
(* fail_fn and remove_buildtarget call each other.  Their recursion is     *)
(* kept as a stack, because the exception they raise for a requested       *)
(* target leaves the removals under way undone, and may be caught.         *)
(*                                                                         *)
(* Build and runtime targets are treated alike but for the order of the    *)
(* passes and that exception: `targets' stands for build_targets and       *)
(* run_targets, `failed' for failed_deps and failed_rdeps.                 *)
(***************************************************************************)
EXTENDS Naturals, Sequences, FiniteSets

CONSTANTS
  Fns,         \* recipe files
  BuildNames,  \* names of build targets
  RunNames,    \* names of runtime targets
  Ignored,     \* ASSUME_PROVIDED
  Worlds,      \* what was parsed and asked for: members of World
  Nobody       \* no target is being provided for

Names == BuildNames \cup RunNames

(* providers: what filterProviders (filterProvidersRunTime) makes of a     *)
(* name, in its order, empty also when its preferences conflict; deps:     *)
(* depids and rdepids; taskdeps: the targets of idepends and irdepends.    *)
World == [providers : [Names -> Seq(Fns)],
          deps : [Fns -> SUBSET Names], taskdeps : [Fns -> SUBSET Names],
          requested : SUBSET BuildNames,
          abort : BOOLEAN, allowincomplete : BOOLEAN]

ASSUME WorldsType == Worlds \subseteq World
ASSUME NamesApart == /\ BuildNames \cap RunNames = {}
                     /\ Names \cap Fns = {} /\ Nobody \notin Names

VARIABLES
  w,          \* the world of this build
  pc,         \* "targets", "build", "runtime", "resolved" or "raised"
  todo,       \* names the present loop has still to look at
  item,       \* the name whose providers are being added
  trying,     \* those not yet tried
  added,      \* whether this round of add_unresolved resolved anything
  targets,    \* the providers of a name
  seen,       \* the names there is a list for
  seenfns,    \* recipes with tasks
  failed_fns, \* recipes thrown out
  failed,     \* names thrown out
  external,   \* names marked as requested
  stack       \* calls of fail_fn (a recipe) and remove_*target (a name)

place == <<pc, todo, item, trying, added>>
data  == <<targets, seen, seenfns, failed_fns, failed, external>>
vars  == <<w, place, data, stack>>

Resting == stack = <<>>

(* The members of S the code comes to first are those in P, if any.        *)
First(S, P) == IF S \cap P # {} THEN S \cap P ELSE S

-----------------------------------------------------------------------------
(* What the cascade has still to do.                                       *)

(* fail_fn's loops: the names recipe f is a provider of.                   *)
Listing(f) == {n \in seen : f \in targets[n]}

(* remove_*target's loops: recipes that need n, as a whole or in a task.   *)
Dependees(n) ==
  First({f \in seenfns \ failed_fns : n \in w.deps[f] \cup w.taskdeps[f]},
        {f \in Fns : n \in w.deps[f]})

Top == stack[Len(stack)]
Push(e) == Append(stack, e)
Popped == SubSeq(stack, 1, Len(stack) - 1)

(* Recipe f, on top, is removed from one list; nobody else may be left.    *)
Unlist(n) ==
  /\ ~Resting /\ Top \in Fns
  /\ n \in First(Listing(Top), BuildNames)
  /\ targets' = [targets EXCEPT ![n] = @ \ {Top}]
  /\ IF targets'[n] = {} THEN stack' = Push(n) /\ failed' = failed \cup {n}
                         ELSE UNCHANGED <<stack, failed>>
  /\ UNCHANGED <<w, place, seen, seenfns, failed_fns, external>>

(* Name n, on top, takes a recipe that needs it along.                     *)
Drag(f) ==
  /\ ~Resting /\ Top \in Names
  /\ f \in Dependees(Top)
  /\ failed_fns' = failed_fns \cup {f}
  /\ stack' = Push(f)
  /\ UNCHANGED <<w, place, targets, seen, seenfns, failed, external>>

(* Neither fail_fn nor remove_*target has anything left to do.             *)
Finished == IF Top \in Fns THEN Listing(Top) = {} ELSE Dependees(Top) = {}

(* remove_buildtarget raises NoProvider for a target that was asked for.   *)
Required(n) == w.abort /\ n \in external

Return ==
  /\ ~Resting /\ Finished /\ ~Required(Top)
  /\ stack' = Popped
  /\ UNCHANGED <<w, place, data>>

-----------------------------------------------------------------------------
(* Where a NoProvider ends up.                                             *)

Nothing == item' = Nobody /\ trying' = <<>>

(* Nobody catches it, or the handler raises it again.                      *)
Uncaught == /\ pc' = "raised" /\ stack' = <<>> /\ Nothing
            /\ UNCHANGED <<w, todo, added, data>>

(* add_unresolved's handler: name n is thrown out, unless that is allowed. *)
Without(n) ==
  /\ Nothing
  /\ IF w.allowincomplete
       THEN stack' = <<>> /\ UNCHANGED failed
       ELSE stack' = <<n>> /\ failed' = failed \cup {n}
  /\ UNCHANGED <<w, pc, added, targets, seen, seenfns, failed_fns>>

(* The exception leaves the cascade.  While providers for a build target   *)
(* are added it is taken for that target's own, unless it is required too. *)
Raise ==
  /\ ~Resting /\ Finished /\ Required(Top)
  /\ IF pc = "build" /\ item # Nobody /\ (w.allowincomplete \/ ~Required(item))
       THEN Without(item) /\ UNCHANGED <<todo, external>>
       ELSE Uncaught

-----------------------------------------------------------------------------
(* add_provider (for the requested targets) and add_unresolved.            *)

(* The providers of a name, and those that may still be tried.             *)
Providers(n) == {w.providers[n][i] : i \in DOMAIN w.providers[n]}
Eligible(n) == Providers(n) \ failed_fns

(* Mutated form: what is assumed to be provided is not passed over.        *)
Unresolved_Assumed(kind) == {n \in (seen \cap kind) \ failed : targets[n] = {}}

(* The names of a loop: what has no providers, and never will have none.   *)
Unresolved(kind) == {n \in (seen \cap kind) \ (failed \cup Ignored) : targets[n] = {}}

Idle == Resting /\ item = Nobody
Looking == Idle /\ pc \in {"targets", "build", "runtime"}

Mark(n) == external' = IF pc = "targets" THEN external \cup {n} ELSE external

(* Assumed to be provided, or provided already.                            *)
Skip(n) ==
  /\ Looking /\ n \in todo
  /\ (n \in Ignored \/ targets[n] # {})
  /\ todo' = todo \ {n} /\ Mark(n)
  /\ added' = TRUE
  /\ UNCHANGED <<w, pc, item, trying, targets, seen, seenfns, failed_fns, failed,
                 stack>>

Provide(n) ==
  /\ Looking /\ n \in todo
  /\ n \notin Ignored /\ targets[n] = {} /\ Eligible(n) # {}
  /\ item' = n /\ trying' = w.providers[n] /\ todo' = todo \ {n}
  /\ UNCHANGED <<w, pc, added, data, stack>>

(* NoProvider, NoRProvider, MultipleRProvider: with -k, and for a target   *)
(* nobody asked for, the name is thrown out.  A runtime target always is.  *)
NoProvider(n) ==
  /\ Looking /\ n \in todo
  /\ n \notin Ignored /\ targets[n] = {} /\ Eligible(n) = {}
  /\ CASE pc = "targets" /\ w.abort -> Uncaught
       [] pc = "build" /\ Required(n) /\ ~w.allowincomplete -> Uncaught
       [] pc = "build" /\ (w.allowincomplete \/ ~Required(n)) ->
            Without(n) /\ todo' = todo \ {n} /\ UNCHANGED external
       [] OTHER ->
            /\ stack' = <<n>> /\ failed' = failed \cup {n}
            /\ todo' = todo \ {n} /\ Mark(n)
            /\ UNCHANGED <<w, pc, item, trying, added, targets, seen, seenfns,
                           failed_fns>>

(* Mutated form: only the build dependencies of a new recipe are checked.  *)
Unmet_Build(f) == w.deps[f] \cap failed \cap BuildNames

(* Dependencies of a new recipe that have been thrown out before.          *)
Unmet(f) == w.deps[f] \cap failed

(* The names add_tasks comes by: all, or those up to the first unmet one.  *)
Mentioned(f) ==
  LET build == w.deps[f] \cap BuildNames
      met   == w.deps[f] \ failed
      some  == IF Unmet(f) = {} THEN {w.deps[f]}
               ELSE IF Unmet(f) \cap BuildNames # {}
               THEN {S \cup {u} : S \in SUBSET (build \cap met), u \in Unmet(f) \cap build}
               ELSE {build \cup R \cup {u} : R \in SUBSET (met \ build), u \in Unmet(f)}
  IN IF f \in seenfns THEN {{}} ELSE {w.taskdeps[f] \cup S : S \in some}

(* add_build_target (add_runtime_target) and add_tasks for one provider,   *)
(* unless it has been thrown out.                                          *)
Try ==
  /\ Resting /\ item # Nobody /\ trying # <<>>
  /\ LET f == Head(trying) IN
       IF f \in failed_fns
       THEN UNCHANGED <<targets, seen, seenfns, failed_fns, stack>>
       ELSE /\ targets' = [targets EXCEPT ![item] = @ \cup {f}]
            /\ seenfns' = seenfns \cup {f}
            /\ \E S \in Mentioned(f) : seen' = seen \cup {item} \cup S
            /\ IF f \in seenfns \/ Unmet(f) = {}
                 THEN UNCHANGED <<failed_fns, stack>>
                 ELSE failed_fns' = failed_fns \cup {f} /\ stack' = <<f>>
  /\ trying' = Tail(trying)
  /\ UNCHANGED <<w, pc, todo, item, added, failed, external>>

(* add_provider marks its target last; add_unresolved counts it.           *)
Provided ==
  /\ Resting /\ item # Nobody /\ trying = <<>>
  /\ Mark(item)
  /\ added' = TRUE
  /\ item' = Nobody
  /\ UNCHANGED <<w, pc, todo, trying, targets, seen, seenfns, failed_fns, failed,
                 stack>>

(* The loop over a kind of names is over; the round, or all, may be.       *)
StartRound == /\ pc' = "build" /\ todo' = Unresolved(BuildNames) /\ added' = FALSE

(* Mutated form: one round is enough.                                      *)
AfterRound_Once == pc' = "resolved" /\ UNCHANGED <<todo, added>>

AfterRound == IF added THEN StartRound
              ELSE pc' = "resolved" /\ UNCHANGED <<todo, added>>

NextLoop ==
  /\ Looking /\ todo = {}
  /\ \/ pc = "targets" /\ StartRound
     \/ /\ pc = "build"
        /\ pc' = "runtime" /\ todo' = Unresolved(RunNames) /\ UNCHANGED added
     \/ pc = "runtime" /\ AfterRound
  /\ UNCHANGED <<w, item, trying, data, stack>>

Over == Resting /\ pc \in {"raised", "resolved"}
Terminated == Over /\ UNCHANGED vars

-----------------------------------------------------------------------------
Init ==
  /\ w \in Worlds
  /\ pc = "targets" /\ todo = w.requested
  /\ item = Nobody /\ trying = <<>> /\ added = FALSE
  /\ targets = [n \in Names |-> {}]
  /\ seen = {} /\ seenfns = {} /\ failed_fns = {} /\ failed = {} /\ external = {}
  /\ stack = <<>>

Step == \/ NextLoop \/ Provided \/ Try \/ Return \/ Raise
        \/ \E n \in Names : Unlist(n) \/ Skip(n) \/ Provide(n) \/ NoProvider(n)
        \/ \E f \in Fns : Drag(f)

Next == Step \/ Terminated
Spec == Init /\ [][Next]_vars
FairSpec == Spec /\ WF_vars(Step)

-----------------------------------------------------------------------------
(* Properties.                                                             *)

(* Types of the variables; only recipes that were come by are thrown out.  *)
TypeOK ==
  /\ w \in World
  /\ pc \in {"targets", "build", "runtime", "resolved", "raised"}
  /\ todo \subseteq Names /\ item \in Names \cup {Nobody} /\ trying \in Seq(Fns)
  /\ added \in BOOLEAN
  /\ targets \in [Names -> SUBSET Fns]
  /\ seen \subseteq Names /\ seenfns \subseteq Fns /\ failed_fns \subseteq seenfns
  /\ failed \subseteq Names /\ external \subseteq Names
  /\ stack \in Seq(Names \cup Fns)

(* Without -k no target that was asked for has been thrown out.            *)
Kept == w.abort => external \cap failed = {}

(* As long as that is so: whenever no removal is under way, no recipe left *)
(* needs a target that was thrown out, and no list names a recipe that was *)
(* (add_tasks, fail_fn, remove_buildtarget, remove_runtarget).             *)
Consistent ==
  (Resting /\ Kept) =>
     /\ \A f \in seenfns \ failed_fns : w.deps[f] \cap failed = {}
     /\ \A n \in Names : targets[n] \cap failed_fns = {}

(* What the run queue builds on (RunQueueData.prepare takes the first      *)
(* provider of each dependency and passes over a dependency without one):  *)
(* when everything is resolved, every recipe left has a provider for every *)
(* target it needs, and every target that has one has all that are left,   *)
(* so that a failing provider is replaced.  A target of a single task that *)
(* was thrown out before the task was seen is not provided.                *)
Complete ==
  (Resting /\ pc = "resolved" /\ Kept) =>
     /\ ~w.allowincomplete =>
          \A f \in seenfns \ failed_fns :
             /\ \A n \in w.deps[f] \ Ignored : targets[n] # {}
             /\ \A n \in w.taskdeps[f] \ (Ignored \cup failed) : targets[n] # {}
     /\ \A n \in Names : targets[n] # {} =>
          targets[n] = Eligible(n)

(* runqueue.py: "No active tasks and not in --continue mode?! Please       *)
(* report this bug": without -k a build whose requested target cannot be   *)
(* provided ends with NoProvider.                                          *)
KeptOrRaised == (Resting /\ pc = "resolved") => Kept

(* add_unresolved comes to an end.                                         *)
Resolves == <>(pc \in {"resolved", "raised"})
=============================================================================
