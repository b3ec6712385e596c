--------------------------- MODULE TaskDataProofs ---------------------------
(***************************************************************************)
(* Proofs about TaskData for any recipes, names, dependencies, options and *)
(* requests.  What makes the states between two removals consistent is     *)
(* what is on the stack during one: as long as no requested target is      *)
(* lost,                                                                   *)
(*   Cascade    a recipe thrown out is listed only while its fail_fn is    *)
(*              under way, and a recipe left needs a name thrown out only  *)
(*              while that name's remove_*target is;                       *)
(*   Lists      a list has every provider left, but for the one that is    *)
(*              being filled;                                              *)
(*   Rounds     what the loops have still to resolve is in todo, unless    *)
(*              the round has added something and another one follows.     *)
(***************************************************************************)
EXTENDS TaskData, SequenceTheorems, TLAPS

OnStack(e) == \E i \in DOMAIN stack : stack[i] = e

-----------------------------------------------------------------------------
(* The stack.                                                              *)

LEMMA PushType ==
  ASSUME TypeOK, NEW e \in Names \cup Fns
  PROVE  Push(e) \in Seq(Names \cup Fns) /\ <<e>> \in Seq(Names \cup Fns)
  BY DEF TypeOK, Push

LEMMA TopType ==
  ASSUME TypeOK, ~Resting
  PROVE  /\ Len(stack) \in Nat \ {0}
         /\ Top \in Names \cup Fns
         /\ Popped \in Seq(Names \cup Fns)
         /\ Len(Popped) = Len(stack) - 1
         /\ \A i \in 1 .. Len(stack) - 1 : Popped[i] = stack[i]
<1>1. Len(stack) \in Nat \ {0} /\ stack \in Seq(Names \cup Fns)
      /\ DOMAIN stack = 1 .. Len(stack)
  BY DEF TypeOK, Resting
<1>2. Top \in Names \cup Fns
  BY <1>1 DEF Top
<1>3. /\ Popped \in Seq(Names \cup Fns)
      /\ Len(Popped) = Len(stack) - 1
      /\ \A i \in 1 .. Len(stack) - 1 : Popped[i] = stack[i]
  BY <1>1, SubSeqProperties DEF Popped
<1> QED BY <1>1, <1>2, <1>3

LEMMA PushKeeps ==
  ASSUME TypeOK, NEW e \in Names \cup Fns, stack' = Push(e)
  PROVE  /\ OnStack(e)'
         /\ \A d : OnStack(d) => OnStack(d)'
<1>1. /\ Len(stack) \in Nat /\ DOMAIN stack = 1 .. Len(stack)
      /\ DOMAIN stack' = 1 .. Len(stack) + 1
      /\ stack'[Len(stack) + 1] = e
      /\ \A i \in DOMAIN stack : stack'[i] = stack[i]
  BY DEF TypeOK, Push
<1> QED BY <1>1 DEF OnStack

LEMMA StartKeeps ==
  ASSUME NEW e, stack' = <<e>>
  PROVE  OnStack(e)'
  BY DEF OnStack

LEMMA PopKeeps ==
  ASSUME TypeOK, ~Resting, stack' = Popped
  PROVE  \A d : OnStack(d) => d = Top \/ OnStack(d)'
<1>1. /\ Len(stack) \in Nat \ {0} /\ DOMAIN stack = 1 .. Len(stack)
      /\ DOMAIN stack' = 1 .. Len(stack) - 1
      /\ \A i \in 1 .. Len(stack) - 1 : stack'[i] = stack[i]
  BY TopType DEF TypeOK
<1>2. ASSUME NEW i \in DOMAIN stack
      PROVE  i = Len(stack) \/ i \in DOMAIN stack'
  BY <1>1
<1> QED BY <1>1, <1>2 DEF OnStack, Top

LEMMA RestingEmpty ==
  ASSUME Resting PROVE \A d : ~OnStack(d)
  BY DEF Resting, OnStack

-----------------------------------------------------------------------------
(* Types.                                                                  *)

LEMMA ProvidersType ==
  ASSUME TypeOK, NEW n \in Names
  PROVE  Providers(n) \subseteq Fns /\ w.providers[n] \in Seq(Fns)
  BY DEF TypeOK, World, Providers

LEMMA MentionedType ==
  ASSUME TypeOK, NEW f \in Fns, NEW S \in Mentioned(f)
  PROVE  S \subseteq Names
<1>1. w.deps[f] \subseteq Names /\ w.taskdeps[f] \subseteq Names
  BY DEF TypeOK, World
<1>2. Unmet(f) \subseteq w.deps[f]
  BY DEF Unmet
<1> QED BY <1>1, <1>2 DEF Mentioned

LEMMA DependeesType ==
  ASSUME TypeOK, NEW n \in Names
  PROVE  Dependees(n) \subseteq seenfns \ failed_fns
<1> DEFINE S == {f \in seenfns \ failed_fns : n \in w.deps[f] \cup w.taskdeps[f]}
<1>1. \A P : First(S, P) \subseteq S
  BY DEF First
<1> QED BY <1>1 DEF Dependees

LEMMA UnresolvedType ==
  ASSUME TypeOK, NEW K PROVE Unresolved(K) \subseteq Names
  BY DEF TypeOK, Unresolved

LEMMA InitTypes == Init => TypeOK
<1> SUFFICES ASSUME Init PROVE TypeOK
  OBVIOUS
<1>1. w \in World
  BY WorldsType DEF Init
<1>2. todo \subseteq Names
  BY <1>1 DEF Init, World, Names
<1>3. stack \in Seq(Names \cup Fns) /\ trying \in Seq(Fns)
  BY DEF Init
<1> QED BY <1>1, <1>2, <1>3 DEF Init, TypeOK

LEMMA WithoutTypes ==
  ASSUME TypeOK, NEW n \in Names, Without(n)
  PROVE  /\ stack' \in Seq(Names \cup Fns) /\ failed' \subseteq Names
         /\ item' = Nobody /\ trying' \in Seq(Fns) /\ w' \in World
         /\ UNCHANGED <<pc, added, targets, seen, seenfns, failed_fns>>
<1>1. <<n>> \in Seq(Names \cup Fns) /\ <<>> \in Seq(Names \cup Fns)
      /\ <<>> \in Seq(Fns)
  BY PushType
<1>2. CASE w.allowincomplete
  BY <1>1, <1>2 DEF TypeOK, Without, Nothing
<1>3. CASE ~w.allowincomplete
  BY <1>1, <1>3 DEF TypeOK, Without, Nothing
<1> QED BY <1>2, <1>3

LEMMA NextTypes == TypeOK /\ [Next]_vars => TypeOK'
<1> SUFFICES ASSUME TypeOK, [Next]_vars PROVE TypeOK'
  OBVIOUS
<1> USE DEF place, data
<1>1. CASE NextLoop
  <2>1. w \in World /\ Unresolved(BuildNames) \subseteq Names
        /\ Unresolved(RunNames) \subseteq Names
    BY UnresolvedType DEF TypeOK
  <2> QED BY <1>1, <2>1 DEF TypeOK, NextLoop, StartRound, AfterRound
<1>2. CASE Provided
  BY <1>2 DEF TypeOK, Provided, Mark
<1>3. CASE Try
  <2> DEFINE f == Head(trying)
  <2>1. item \in Names /\ f \in Fns /\ Tail(trying) \in Seq(Fns)
    BY <1>3 DEF TypeOK, Try
  <2>2. targets' \in [Names -> SUBSET Fns] /\ seenfns' \subseteq Fns
    BY <1>3, <2>1 DEF TypeOK, Try
  <2>3. seen' \subseteq Names
    <3>1. CASE f \in failed_fns
      BY <1>3, <3>1 DEF TypeOK, Try
    <3>2. CASE f \notin failed_fns
      <4>1. PICK S \in Mentioned(f) : seen' = seen \cup {item} \cup S
        BY <1>3, <3>2 DEF Try
      <4>2. S \subseteq Names
        BY <2>1, MentionedType
      <4> QED BY <4>1, <4>2, <2>1 DEF TypeOK
    <3> QED BY <3>1, <3>2
  <2>4. failed_fns' \subseteq seenfns' /\ stack' \in Seq(Names \cup Fns)
    <3>1. <<f>> \in Seq(Names \cup Fns)
      BY <2>1, PushType
    <3> QED BY <1>3, <2>1, <3>1 DEF TypeOK, Try
  <2> QED BY <1>3, <2>1, <2>2, <2>3, <2>4 DEF TypeOK, Try
<1>4. CASE Return
  <2>1. Popped \in Seq(Names \cup Fns)
    BY <1>4, TopType DEF Return
  <2> QED BY <1>4, <2>1 DEF TypeOK, Return
<1>5. CASE Raise
  <2>1. CASE item # Nobody /\ Without(item) /\ UNCHANGED <<todo, external>>
    <3>1. item \in Names /\ <<item>> \in Seq(Names \cup Fns)
      BY <2>1, PushType DEF TypeOK
    <3> QED BY <2>1, <3>1, WithoutTypes DEF TypeOK
  <2>2. CASE Uncaught
    BY <2>2 DEF TypeOK, Uncaught, Nothing
  <2> QED BY <1>5, <2>1, <2>2 DEF Raise
<1>6. ASSUME NEW n \in Names, Unlist(n) PROVE TypeOK'
  <2>1. Push(n) \in Seq(Names \cup Fns)
    BY PushType
  <2>2. targets' \in [Names -> SUBSET Fns]
    BY <1>6 DEF TypeOK, Unlist
  <2> QED BY <1>6, <2>1, <2>2 DEF TypeOK, Unlist
<1>7. ASSUME NEW n \in Names, Skip(n) PROVE TypeOK'
  BY <1>7 DEF TypeOK, Skip, Mark
<1>8. ASSUME NEW n \in Names, Provide(n) PROVE TypeOK'
  <2>1. w.providers[n] \in Seq(Fns)
    BY ProvidersType
  <2> QED BY <1>8, <2>1 DEF TypeOK, Provide
<1>9. ASSUME NEW n \in Names, NoProvider(n) PROVE TypeOK'
  <2>0. <<n>> \in Seq(Names \cup Fns)
    BY PushType
  <2>1. CASE Uncaught
    BY <2>1 DEF TypeOK, Uncaught, Nothing
  <2>2. CASE Without(n) /\ todo' = todo \ {n} /\ UNCHANGED external
    BY <2>2, <2>0, WithoutTypes DEF TypeOK
  <2>3. CASE /\ stack' = <<n>> /\ failed' = failed \cup {n}
             /\ todo' = todo \ {n} /\ Mark(n)
             /\ UNCHANGED <<w, pc, item, trying, added, targets, seen, seenfns,
                            failed_fns>>
    BY <2>3, <2>0 DEF TypeOK, Mark
  <2> QED BY <1>9, <2>1, <2>2, <2>3 DEF NoProvider
<1>10. ASSUME NEW f \in Fns, Drag(f) PROVE TypeOK'
  <2>1. Push(f) \in Seq(Names \cup Fns)
    BY PushType
  <2>2. f \in seenfns
    BY <1>10, DependeesType DEF Drag
  <2> QED BY <1>10, <2>1, <2>2 DEF TypeOK, Drag
<1>11. CASE UNCHANGED vars
  BY <1>11 DEF TypeOK, vars
<1> QED
  BY <1>1, <1>2, <1>3, <1>4, <1>5, <1>6, <1>7, <1>8, <1>9, <1>10, <1>11
  DEF Next, Step, Terminated

(* Every variable of a target resolution keeps its type, and only recipes  *)
(* that were come by are thrown out, for any recipes and requests.         *)
THEOREM TypeCorrect == Spec => []TypeOK
  BY InitTypes, NextTypes, PTL DEF Spec

-----------------------------------------------------------------------------
(* What the actions have in common.                                        *)

LEMMA NextCases ==
  ASSUME [Next]_vars
  PROVE  \/ NextLoop \/ Provided \/ Try \/ Return \/ Raise
         \/ \E n \in Names : Unlist(n) \/ Skip(n) \/ Provide(n) \/ NoProvider(n)
         \/ \E f \in Fns : Drag(f)
         \/ UNCHANGED vars
  BY DEF Next, Step, Terminated

LEMMA NoProviderDoes ==
  ASSUME TypeOK, NEW n \in Names, NoProvider(n)
  PROVE  /\ Resting /\ item = Nobody /\ item' = Nobody
         /\ UNCHANGED <<w, added, targets, seen, seenfns, failed_fns>>
         /\ external \subseteq external'
         /\ \/ /\ stack' = <<n>> /\ failed' = failed \cup {n}
               /\ pc' = pc /\ todo' = todo \ {n}
            \/ /\ stack' = <<>> /\ failed' = failed
               /\ (pc' = "raised" \/ (w.allowincomplete /\ pc' = pc))
<1>0. Resting /\ item = Nobody
  BY DEF NoProvider, Looking, Idle
<1>1. CASE Uncaught
  BY <1>0, <1>1 DEF Uncaught, Nothing, data
<1>2. CASE Without(n) /\ todo' = todo \ {n} /\ UNCHANGED external
  <2>1. CASE w.allowincomplete
    BY <1>0, <1>2, <2>1 DEF Without, Nothing
  <2>2. CASE ~w.allowincomplete
    BY <1>0, <1>2, <2>2 DEF Without, Nothing
  <2> QED BY <2>1, <2>2
<1>3. CASE /\ stack' = <<n>> /\ failed' = failed \cup {n}
           /\ todo' = todo \ {n} /\ Mark(n)
           /\ UNCHANGED <<w, pc, item, trying, added, targets, seen, seenfns,
                          failed_fns>>
  BY <1>0, <1>3 DEF Mark
<1> QED BY <1>1, <1>2, <1>3 DEF NoProvider

(* What has once been given up stays so.                                   *)
LEMMA Grows ==
  ASSUME TypeOK, [Next]_vars
  PROVE  /\ w' = w /\ external \subseteq external' /\ failed \subseteq failed'
         /\ failed_fns \subseteq failed_fns' /\ seenfns \subseteq seenfns'
         /\ seen \subseteq seen'
<1> USE DEF place, data
<1>1. CASE NextLoop BY <1>1 DEF NextLoop
<1>2. CASE Provided BY <1>2 DEF Provided, Mark
<1>3. CASE Try BY <1>3 DEF Try
<1>4. CASE Return BY <1>4 DEF Return
<1>5. CASE Raise
  <2>1. CASE Without(item) /\ UNCHANGED <<todo, external>>
    BY <2>1 DEF Without
  <2>2. CASE Uncaught BY <2>2 DEF Uncaught
  <2> QED BY <1>5, <2>1, <2>2 DEF Raise
<1>6. ASSUME NEW n \in Names, Unlist(n) \/ Skip(n) \/ Provide(n)
      PROVE  /\ w' = w /\ external \subseteq external' /\ failed \subseteq failed'
             /\ failed_fns \subseteq failed_fns' /\ seenfns \subseteq seenfns'
             /\ seen \subseteq seen'
  BY <1>6 DEF Unlist, Skip, Provide, Mark
<1>7. ASSUME NEW n \in Names, NoProvider(n)
      PROVE  /\ w' = w /\ external \subseteq external' /\ failed \subseteq failed'
             /\ failed_fns \subseteq failed_fns' /\ seenfns \subseteq seenfns'
             /\ seen \subseteq seen'
  BY <1>7, NoProviderDoes
<1>8. ASSUME NEW f \in Fns, Drag(f)
      PROVE  /\ w' = w /\ external \subseteq external' /\ failed \subseteq failed'
             /\ failed_fns \subseteq failed_fns' /\ seenfns \subseteq seenfns'
             /\ seen \subseteq seen'
  BY <1>8 DEF Drag
<1>9. CASE UNCHANGED vars BY <1>9 DEF vars
<1> QED BY NextCases, <1>1, <1>2, <1>3, <1>4, <1>5, <1>6, <1>7, <1>8, <1>9

LEMMA KeptBefore == ASSUME TypeOK, [Next]_vars, Kept' PROVE Kept
  BY Grows DEF Kept

-----------------------------------------------------------------------------
(* What is on the stack has been thrown out.                               *)

StackThrown == \A i \in DOMAIN stack : stack[i] \in failed \cup failed_fns

LEMMA TopThrown ==
  ASSUME TypeOK, StackThrown, ~Resting
  PROVE  Top \in failed \cup failed_fns
<1>1. Len(stack) \in DOMAIN stack
  BY TopType DEF TypeOK
<1> QED BY <1>1 DEF StackThrown, Top

LEMMA RaiseLost ==
  ASSUME TypeOK, StackThrown, Raise PROVE ~Kept
<1>1. ~Resting /\ w.abort /\ Top \in external
  BY DEF Raise, Required
<1>2. Top \in failed
  BY <1>1, TopThrown, NamesApart DEF TypeOK
<1> QED BY <1>1, <1>2 DEF Kept

LEMMA StackNext ==
  ASSUME TypeOK, StackThrown, [Next]_vars PROVE StackThrown'
<1> USE DEF place, data
<1>0. failed \subseteq failed' /\ failed_fns \subseteq failed_fns'
  BY Grows
<1>1. ASSUME UNCHANGED stack PROVE StackThrown'
  BY <1>0, <1>1 DEF StackThrown
<1>2. ASSUME NEW e \in failed' \cup failed_fns', stack' = <<e>> PROVE StackThrown'
  BY <1>2 DEF StackThrown
<1>3. ASSUME NEW e \in Names \cup Fns, e \in failed' \cup failed_fns', stack' = Push(e)
      PROVE  StackThrown'
  <2>1. /\ Len(stack) \in Nat /\ DOMAIN stack = 1 .. Len(stack)
        /\ DOMAIN stack' = 1 .. Len(stack) + 1
        /\ stack'[Len(stack) + 1] = e
        /\ \A i \in DOMAIN stack : stack'[i] = stack[i]
    BY <1>3 DEF TypeOK, Push
  <2> QED BY <1>0, <1>3, <2>1 DEF StackThrown
<1>4. ASSUME stack' = <<>> PROVE StackThrown'
  BY <1>4 DEF StackThrown
<1>5. CASE Return
  <2>1. /\ Len(stack) \in Nat \ {0} /\ DOMAIN stack = 1 .. Len(stack)
        /\ DOMAIN stack' = 1 .. Len(stack) - 1
        /\ \A i \in 1 .. Len(stack) - 1 : stack'[i] = stack[i]
    BY <1>5, TopType DEF TypeOK, Return
  <2> QED BY <1>0, <2>1 DEF StackThrown
<1>6. CASE Raise
  <2>1. CASE Without(item) /\ UNCHANGED <<todo, external>>
    BY <1>2, <1>4, <2>1 DEF Without
  <2>2. CASE Uncaught BY <1>4, <2>2 DEF Uncaught
  <2> QED BY <1>6, <2>1, <2>2 DEF Raise
<1>7. CASE Try
  <2>1. CASE UNCHANGED stack BY <2>1, <1>1
  <2>2. CASE failed_fns' = failed_fns \cup {Head(trying)} /\ stack' = <<Head(trying)>>
    BY <2>2, <1>2
  <2> QED BY <1>7, <2>1, <2>2 DEF Try
<1>8. ASSUME NEW n \in Names, Unlist(n) PROVE StackThrown'
  <2>1. CASE stack' = Push(n) /\ failed' = failed \cup {n} BY <2>1, <1>3
  <2>2. CASE UNCHANGED stack BY <2>2, <1>1
  <2> QED BY <1>8, <2>1, <2>2 DEF Unlist
<1>9. ASSUME NEW n \in Names, NoProvider(n) PROVE StackThrown'
  BY <1>9, NoProviderDoes, <1>2, <1>4
<1>10. ASSUME NEW f \in Fns, Drag(f) PROVE StackThrown'
  BY <1>10, <1>3 DEF Drag
<1>11. CASE NextLoop \/ Provided \/ (\E n \in Names : Skip(n) \/ Provide(n))
            \/ UNCHANGED vars
  BY <1>11, <1>1 DEF NextLoop, Provided, Skip, Provide, vars
<1> QED BY NextCases, <1>5, <1>6, <1>7, <1>8, <1>9, <1>10, <1>11

-----------------------------------------------------------------------------
(* What needs a removal that is not under way has been removed.            *)

Seen == \A n \in Names : targets[n] # {} => n \in seen

ListsClean == \A n \in Names : \A f \in targets[n] \cap failed_fns : OnStack(f)
NeedsMet == \A f \in seenfns \ failed_fns :
              \A n \in w.deps[f] \cap failed : OnStack(n)
Cascade == Kept => ListsClean /\ NeedsMet

LEMMA SeenNext == ASSUME TypeOK, Seen, [Next]_vars PROVE Seen'
<1>1. seen \subseteq seen'
  BY Grows
<1>2. ASSUME UNCHANGED targets PROVE Seen'
  BY <1>1, <1>2 DEF Seen
<1>3. CASE Try
  <2>1. CASE UNCHANGED targets BY <2>1, <1>2
  <2>2. CASE /\ targets' = [targets EXCEPT ![item] = @ \cup {Head(trying)}]
             /\ \E S \in Mentioned(Head(trying)) : seen' = seen \cup {item} \cup S
    BY <1>1, <2>2 DEF Seen, TypeOK
  <2> QED BY <1>3, <2>1, <2>2 DEF Try
<1>4. ASSUME NEW n \in Names, Unlist(n) PROVE Seen'
  BY <1>1, <1>4 DEF Unlist, Seen, TypeOK
<1>5. ASSUME NEW n \in Names, NoProvider(n) PROVE Seen'
  BY <1>5, NoProviderDoes, <1>2
<1>6. CASE Raise
  BY <1>6, <1>2 DEF Raise, Without, Uncaught, data
<1>7. CASE \/ NextLoop \/ Provided \/ Return \/ UNCHANGED vars
           \/ (\E n \in Names : Skip(n) \/ Provide(n)) \/ (\E f \in Fns : Drag(f))
  BY <1>7, <1>2 DEF NextLoop, Provided, Return, Skip, Provide, Drag, vars, data
<1> QED BY NextCases, <1>3, <1>4, <1>5, <1>6, <1>7

LEMMA FirstEmpty == ASSUME NEW S, NEW P, First(S, P) = {} PROVE S = {}
  BY DEF First

(* Whoever returns has left nothing undone.                                *)
LEMMA ReturnClean ==
  ASSUME TypeOK, Seen, ListsClean, NeedsMet, Return
  PROVE  (ListsClean /\ NeedsMet)'
<1> USE DEF place, data
<1>1. ~Resting /\ stack' = Popped /\ Finished
      /\ UNCHANGED <<w, targets, seen, seenfns, failed_fns, failed>>
  BY DEF Return
<1>2. ASSUME NEW n \in Names, NEW f \in targets[n] \cap failed_fns PROVE OnStack(f)'
  <2>1. f \in Fns
    BY DEF TypeOK
  <2>2. f # Top
    <3> SUFFICES ASSUME f = Top PROVE FALSE
      OBVIOUS
    <3>1. Listing(f) = {}
      BY <1>1, <2>1 DEF Finished
    <3>2. n \in Listing(f)
      BY DEF Seen, Listing, TypeOK
    <3> QED BY <3>1, <3>2
  <2>3. OnStack(f)
    BY DEF ListsClean
  <2> QED BY <1>1, <2>2, <2>3, PopKeeps
<1>3. ASSUME NEW f \in seenfns \ failed_fns, NEW n \in w.deps[f] \cap failed
      PROVE  OnStack(n)'
  <2>1. n \in Names
    BY DEF TypeOK
  <2>2. n # Top
    <3> SUFFICES ASSUME n = Top PROVE FALSE
      OBVIOUS
    <3>1. Dependees(n) = {}
      BY <1>1, <2>1, NamesApart DEF Finished
    <3>2. {g \in seenfns \ failed_fns : n \in w.deps[g] \cup w.taskdeps[g]} = {}
      BY <3>1, FirstEmpty DEF Dependees
    <3> QED BY <3>2
  <2>3. OnStack(n)
    BY DEF NeedsMet
  <2> QED BY <1>1, <2>2, <2>3, PopKeeps
<1> QED BY <1>1, <1>2, <1>3 DEF ListsClean, NeedsMet

LEMMA UnlistClean ==
  ASSUME TypeOK, StackThrown, ListsClean, NeedsMet, NEW n \in Names, Unlist(n)
  PROVE  (ListsClean /\ NeedsMet)'
<1> USE DEF place, data
<1>1. /\ UNCHANGED <<w, seenfns, failed_fns>>
      /\ \A m \in Names : targets'[m] \subseteq targets[m]
      /\ \/ stack' = Push(n) /\ failed' = failed \cup {n}
         \/ UNCHANGED <<stack, failed>>
  BY DEF Unlist, TypeOK
<1>2. \A d : OnStack(d) => OnStack(d)'
  <2>1. CASE stack' = Push(n) BY <2>1, PushKeeps
  <2>2. CASE UNCHANGED stack BY <2>2 DEF OnStack
  <2> QED BY <1>1, <2>1, <2>2
<1>3. failed' = failed \/ (failed' = failed \cup {n} /\ OnStack(n)')
  BY <1>1, PushKeeps
<1>4. ListsClean'
  BY <1>1, <1>2 DEF ListsClean
<1>5. NeedsMet'
  BY <1>1, <1>2, <1>3 DEF NeedsMet
<1> QED BY <1>4, <1>5

LEMMA DragClean ==
  ASSUME TypeOK, ListsClean, NeedsMet, NEW f \in Fns, Drag(f)
  PROVE  (ListsClean /\ NeedsMet)'
<1> USE DEF place, data
<1>1. /\ UNCHANGED <<w, seenfns, targets, failed>>
      /\ failed_fns' = failed_fns \cup {f} /\ stack' = Push(f)
  BY DEF Drag
<1>2. OnStack(f)' /\ \A d : OnStack(d) => OnStack(d)'
  BY <1>1, PushKeeps
<1>3. ListsClean'
  BY <1>1, <1>2 DEF ListsClean
<1>4. NeedsMet'
  BY <1>1, <1>2 DEF NeedsMet
<1> QED BY <1>3, <1>4

LEMMA TryClean ==
  ASSUME TypeOK, ListsClean, NeedsMet, Try
  PROVE  (ListsClean /\ NeedsMet)'
<1>0. Resting /\ item \in Names /\ Head(trying) \in Fns /\ UNCHANGED <<w, failed>>
  BY DEF Try, TypeOK
<1> PICK f \in Fns : f = Head(trying)
  BY <1>0
<1>1. \A d : ~OnStack(d)
  BY <1>0, RestingEmpty
<1>2. CASE f \in failed_fns
  BY <1>0, <1>2 DEF Try, ListsClean, NeedsMet, OnStack
<1>3. CASE f \notin failed_fns
  <2>1. /\ targets' = [targets EXCEPT ![item] = @ \cup {f}]
        /\ seenfns' = seenfns \cup {f}
        /\ IF f \in seenfns \/ Unmet(f) = {}
             THEN UNCHANGED <<failed_fns, stack>>
             ELSE failed_fns' = failed_fns \cup {f} /\ stack' = <<f>>
    BY <1>3 DEF Try
  <2>2. CASE f \in seenfns \/ Unmet(f) = {}
    <3>1. UNCHANGED <<failed_fns, stack>>
      BY <2>1, <2>2
    <3>2. ListsClean'
      BY <1>0, <1>1, <1>3, <2>1, <3>1 DEF ListsClean, TypeOK
    <3>3. NeedsMet'
      BY <1>0, <1>1, <2>1, <2>2, <3>1 DEF NeedsMet, Unmet
    <3> QED BY <3>2, <3>3
  <2>3. CASE f \notin seenfns /\ Unmet(f) # {}
    <3>1. failed_fns' = failed_fns \cup {f} /\ OnStack(f)'
      BY <2>1, <2>3, StartKeeps
    <3>2. ListsClean'
      BY <1>0, <1>1, <2>1, <3>1 DEF ListsClean, TypeOK
    <3>3. NeedsMet'
      BY <1>0, <1>1, <2>1, <3>1 DEF NeedsMet
    <3> QED BY <3>2, <3>3
  <2> QED BY <2>2, <2>3
<1> QED BY <1>2, <1>3

LEMMA NoProviderClean ==
  ASSUME TypeOK, ListsClean, NeedsMet, NEW n \in Names, NoProvider(n)
  PROVE  (ListsClean /\ NeedsMet)'
<1>0. Resting /\ UNCHANGED <<w, targets, seenfns, failed_fns>>
  BY NoProviderDoes
<1>1. \A d : ~OnStack(d)
  BY <1>0, RestingEmpty
<1>2. failed' = failed \/ (failed' = failed \cup {n} /\ OnStack(n)')
  BY NoProviderDoes, StartKeeps
<1>3. ListsClean'
  BY <1>0, <1>1 DEF ListsClean
<1>4. NeedsMet'
  BY <1>0, <1>1, <1>2 DEF NeedsMet
<1> QED BY <1>3, <1>4

LEMMA CascadeNext ==
  ASSUME TypeOK, StackThrown, Seen, Cascade, [Next]_vars
  PROVE  Cascade'
<1> SUFFICES ASSUME Kept' PROVE (ListsClean /\ NeedsMet)'
  BY DEF Cascade
<1>1. Kept /\ ListsClean /\ NeedsMet
  BY KeptBefore DEF Cascade
<1>2. CASE Return BY <1>1, <1>2, ReturnClean
<1>3. CASE Raise BY <1>1, <1>3, RaiseLost
<1>4. CASE Try BY <1>1, <1>4, TryClean
<1>5. ASSUME NEW n \in Names, Unlist(n) PROVE (ListsClean /\ NeedsMet)'
  BY <1>1, <1>5, UnlistClean
<1>6. ASSUME NEW n \in Names, NoProvider(n) PROVE (ListsClean /\ NeedsMet)'
  BY <1>1, <1>6, NoProviderClean
<1>7. ASSUME NEW f \in Fns, Drag(f) PROVE (ListsClean /\ NeedsMet)'
  BY <1>1, <1>7, DragClean
<1>8. ASSUME UNCHANGED <<w, targets, seenfns, failed_fns, failed, stack>>
      PROVE  (ListsClean /\ NeedsMet)'
  BY <1>1, <1>8 DEF ListsClean, NeedsMet, OnStack
<1>9. CASE NextLoop \/ Provided \/ (\E n \in Names : Skip(n) \/ Provide(n))
            \/ UNCHANGED vars
  BY <1>8, <1>9 DEF NextLoop, Provided, Skip, Provide, vars, data
<1> QED BY NextCases, <1>2, <1>3, <1>4, <1>5, <1>6, <1>7, <1>9

ConsistentInv == TypeOK /\ StackThrown /\ Seen /\ Cascade

LEMMA InitConsistent == Init => ConsistentInv
<1> SUFFICES ASSUME Init PROVE ConsistentInv
  OBVIOUS
<1>1. TypeOK
  BY InitTypes
<1>2. StackThrown /\ Seen
  BY DEF Init, StackThrown, Seen
<1>3. Cascade
  BY DEF Init, Cascade, ListsClean, NeedsMet
<1> QED BY <1>1, <1>2, <1>3 DEF ConsistentInv

LEMMA ConsistentNext == ConsistentInv /\ [Next]_vars => ConsistentInv'
  BY NextTypes, StackNext, SeenNext, CascadeNext DEF ConsistentInv

LEMMA ConsistentHolds == ConsistentInv => Consistent
<1> SUFFICES ASSUME ConsistentInv, Resting, Kept PROVE Consistent
  BY DEF Consistent
<1>1. ListsClean /\ NeedsMet /\ \A d : ~OnStack(d)
  BY RestingEmpty DEF ConsistentInv, Cascade
<1> QED BY <1>1 DEF Consistent, ListsClean, NeedsMet

(* As long as no requested target is lost, whenever no removal is under    *)
(* way no recipe left needs a name that was thrown out and no list names a *)
(* recipe that was (fail_fn, remove_buildtarget, remove_runtarget,         *)
(* add_tasks), for any recipes, requests and order of the dictionaries.    *)
THEOREM ConsistentCorrect == Spec => []Consistent
  BY InitConsistent, ConsistentNext, ConsistentHolds, PTL DEF Spec

-----------------------------------------------------------------------------
(* Every list has the providers left.                                      *)

Untried == {trying[i] : i \in DOMAIN trying}

Listed == /\ \A n \in Names : targets[n] \subseteq Providers(n)
          /\ item \in Names => Untried \subseteq Providers(item)

Filled == \A n \in Names :
            IF n = item THEN Eligible(n) \subseteq targets[n] \cup Untried
            ELSE targets[n] # {} => Eligible(n) \subseteq targets[n]

Lists == Kept => Listed /\ Filled

LEMMA TryNextOne ==
  ASSUME TypeOK, trying # <<>>, trying' = Tail(trying)
  PROVE  /\ Head(trying) \in Untried
         /\ Untried' \subseteq Untried
         /\ Untried \subseteq {Head(trying)} \cup Untried'
<1>1. /\ Len(trying) \in Nat \ {0} /\ DOMAIN trying = 1 .. Len(trying)
      /\ Head(trying) = trying[1]
      /\ DOMAIN trying' = 1 .. Len(trying) - 1
      /\ \A i \in 1 .. Len(trying) - 1 : trying'[i] = trying[i + 1]
  BY DEF TypeOK
<1>2. Head(trying) \in Untried
  BY <1>1 DEF Untried
<1>3. ASSUME NEW i \in DOMAIN trying' PROVE trying'[i] \in Untried
  <2>1. i + 1 \in DOMAIN trying /\ trying'[i] = trying[i + 1]
    BY <1>1
  <2> QED BY <2>1 DEF Untried
<1>4. ASSUME NEW i \in DOMAIN trying
      PROVE  trying[i] \in {Head(trying)} \cup Untried'
  <2>1. CASE i = 1 BY <1>1, <2>1
  <2>2. CASE i # 1
    <3>1. i - 1 \in DOMAIN trying' /\ trying'[i - 1] = trying[i]
      BY <1>1, <2>2
    <3> QED BY <3>1 DEF Untried
  <2> QED BY <2>1, <2>2
<1> QED BY <1>2, <1>3, <1>4 DEF Untried

(* A recipe under fail_fn has been thrown out.                             *)
LEMMA TopFailed ==
  ASSUME TypeOK, StackThrown, ~Resting, Top \in Fns PROVE Top \in failed_fns
  BY TopThrown, NamesApart DEF TypeOK

LEMMA TryLists ==
  ASSUME TypeOK, Listed, Filled, Try PROVE (Listed /\ Filled)'
<1>0. item \in Names /\ Head(trying) \in Fns /\ item' = item /\ w' = w
      /\ trying # <<>> /\ trying' = Tail(trying)
  BY DEF Try, TypeOK
<1> PICK f \in Fns : f = Head(trying)
  BY <1>0
<1>1. f \in Untried /\ Untried' \subseteq Untried /\ Untried \subseteq {f} \cup Untried'
  BY <1>0, TryNextOne
<1>2. \A n \in Names : Providers(n)' = Providers(n)
  BY <1>0 DEF Providers
<1>3. \A n \in Names : Eligible(n)' \subseteq Eligible(n)
  BY <1>2, Grows DEF Eligible, Next, Step
<1>4. \/ f \in failed_fns /\ targets' = targets
      \/ targets' = [targets EXCEPT ![item] = @ \cup {f}]
  BY DEF Try
<1>5. \A n \in Names : targets'[n] = targets[n] \/ (n = item /\ targets'[n] = targets[n] \cup {f})
  BY <1>4 DEF TypeOK
<1>6. Listed'
  BY <1>0, <1>1, <1>2, <1>5 DEF Listed
<1>7. f \in failed_fns \/ f \in targets'[item]
  BY <1>0, <1>4 DEF TypeOK
<1>8. f \notin Eligible(item)' \/ f \in targets'[item]
  <2>1. failed_fns \subseteq failed_fns'
    BY Grows DEF Next, Step
  <2> QED BY <1>0, <1>7, <2>1 DEF Eligible
<1>9. Filled'
  <2>1. ASSUME NEW n \in Names, n # item
        PROVE  targets'[n] # {} => Eligible(n)' \subseteq targets'[n]
    BY <1>3, <1>5, <2>1 DEF Filled
  <2>2. Eligible(item) \subseteq targets[item] \cup Untried
    BY <1>0 DEF Filled
  <2>3. Eligible(item)' \subseteq targets'[item] \cup Untried'
    BY <1>0, <1>1, <1>3, <1>5, <1>8, <2>2
  <2> QED BY <1>0, <2>1, <2>3 DEF Filled
<1> QED BY <1>6, <1>9

LEMMA UnlistLists ==
  ASSUME TypeOK, StackThrown, Listed, Filled, NEW n \in Names, Unlist(n)
  PROVE  (Listed /\ Filled)'
<1>1. /\ UNCHANGED <<w, item, trying, failed_fns>> /\ Top \in failed_fns
      /\ \A m \in Names : \/ targets'[m] = targets[m]
                          \/ targets'[m] = targets[m] \ {Top}
  BY TopFailed DEF Unlist, TypeOK, place
<1>2. \A m \in Names : /\ Providers(m)' = Providers(m)
                       /\ Eligible(m)' = Eligible(m) /\ Top \notin Eligible(m)
  BY <1>1 DEF Providers, Eligible
<1>3. Untried' = Untried
  BY <1>1 DEF Untried
<1>4. \A m \in Names : targets'[m] \subseteq targets[m]
                       /\ Eligible(m) \cap targets[m] \subseteq targets'[m]
  BY <1>1, <1>2
<1>5. Listed'
  BY <1>1, <1>2, <1>3, <1>4 DEF Listed
<1>6. Filled'
  <2>1. ASSUME NEW m \in Names, m # item
        PROVE  targets'[m] # {} => Eligible(m)' \subseteq targets'[m]
    BY <1>2, <1>4, <2>1 DEF Filled
  <2>2. ASSUME NEW m \in Names, m = item
        PROVE  Eligible(m)' \subseteq targets'[m] \cup Untried'
    <3>1. Eligible(m) \subseteq targets[m] \cup Untried
      BY <2>2 DEF Filled
    <3> QED BY <3>1, <1>2, <1>3, <1>4
  <2> QED BY <1>1, <2>1, <2>2 DEF Filled
<1> QED BY <1>5, <1>6

(* The lists stay as they are, and no other name is being provided for.    *)
LEMMA SameLists ==
  ASSUME TypeOK, Listed, Filled, [Next]_vars, UNCHANGED <<targets, item, trying>>
  PROVE  (Listed /\ Filled)'
<1>1. w' = w /\ failed_fns \subseteq failed_fns'
  BY Grows
<1>2. \A n \in Names : /\ Providers(n)' = Providers(n)
                       /\ Eligible(n)' \subseteq Eligible(n)
  BY <1>1 DEF Providers, Eligible
<1>3. Untried' = Untried
  BY DEF Untried
<1>4. Listed'
  BY <1>2, <1>3 DEF Listed
<1>5. Filled'
  BY <1>2, <1>3 DEF Filled
<1> QED BY <1>4, <1>5

LEMMA ProvidedLists ==
  ASSUME TypeOK, Listed, Filled, Provided
  PROVE  (Listed /\ Filled)'
<1>1. /\ item \in Names /\ item' = Nobody /\ trying = <<>>
      /\ UNCHANGED <<w, targets, failed_fns, trying>>
  BY DEF Provided, TypeOK
<1>2. Untried = {} /\ Nobody \notin Names
  BY <1>1, NamesApart DEF Untried
<1>3. \A n \in Names : Providers(n)' = Providers(n) /\ Eligible(n)' = Eligible(n)
  BY <1>1 DEF Providers, Eligible
<1>4. Listed'
  BY <1>1, <1>2, <1>3 DEF Listed
<1>5. Filled'
  BY <1>1, <1>2, <1>3 DEF Filled
<1> QED BY <1>4, <1>5

LEMMA ProvideLists ==
  ASSUME TypeOK, Listed, Filled, NEW n \in Names, Provide(n)
  PROVE  (Listed /\ Filled)'
<1>1. /\ item = Nobody /\ item' = n /\ trying' = w.providers[n]
      /\ UNCHANGED <<w, targets, failed_fns>> /\ targets[n] = {}
  BY DEF Provide, Looking, Idle, data
<1>2. Nobody \notin Names
  BY NamesApart
<1>3. \A m \in Names : Providers(m)' = Providers(m) /\ Eligible(m)' = Eligible(m)
  BY <1>1 DEF Providers, Eligible
<1>4. Untried' = Providers(n)
  BY <1>1 DEF Untried, Providers
<1>5. Eligible(n) \subseteq Providers(n)
  BY DEF Eligible
<1>6. Listed'
  BY <1>1, <1>3, <1>4 DEF Listed
<1>7. Filled'
  BY <1>1, <1>2, <1>3, <1>4, <1>5 DEF Filled
<1> QED BY <1>6, <1>7

LEMMA ListsNext ==
  ASSUME TypeOK, StackThrown, Lists, [Next]_vars PROVE Lists'
<1> USE DEF place, data
<1> SUFFICES ASSUME Kept' PROVE (Listed /\ Filled)'
  BY DEF Lists
<1>0. Kept /\ Listed /\ Filled
  BY KeptBefore DEF Lists
<1>1. CASE Raise BY <1>0, <1>1, RaiseLost
<1>2. CASE Try BY <1>0, <1>2, TryLists
<1>3. CASE Provided BY <1>0, <1>3, ProvidedLists
<1>4. ASSUME NEW n \in Names, Unlist(n) PROVE (Listed /\ Filled)'
  BY <1>0, <1>4, UnlistLists
<1>5. ASSUME NEW n \in Names, Provide(n) PROVE (Listed /\ Filled)'
  BY <1>0, <1>5, ProvideLists
<1>6. ASSUME NEW n \in Names, NoProvider(n) PROVE (Listed /\ Filled)'
  <2>1. item = Nobody /\ item' = Nobody /\ UNCHANGED <<w, targets, failed_fns>>
    BY <1>6, NoProviderDoes
  <2>2. Nobody \notin Names
    BY NamesApart
  <2>3. \A m \in Names : Providers(m)' = Providers(m) /\ Eligible(m)' = Eligible(m)
    BY <2>1 DEF Providers, Eligible
  <2> QED BY <1>0, <2>1, <2>2, <2>3 DEF Listed, Filled
<1>7. CASE \/ NextLoop \/ Return \/ UNCHANGED vars
           \/ (\E n \in Names : Skip(n)) \/ (\E f \in Fns : Drag(f))
  <2>1. UNCHANGED <<targets, item, trying>>
    BY <1>7 DEF NextLoop, Return, Skip, Drag, vars
  <2> QED BY <1>0, <2>1, SameLists
<1> QED BY NextCases, <1>1, <1>2, <1>3, <1>4, <1>5, <1>6, <1>7

-----------------------------------------------------------------------------
(* Nothing is left unresolved.                                             *)

Needs(f) == w.deps[f] \cup w.taskdeps[f]
Mention == \A f \in seenfns \ failed_fns : Needs(f) \subseteq seen

Open(kind) == Unresolved(kind) \subseteq todo
Rounds ==
  /\ pc = "build" => Open(BuildNames)
  /\ pc = "runtime" => Unresolved(BuildNames) = {} /\ Open(RunNames)
OpenRounds == (Kept /\ ~w.allowincomplete /\ item = Nobody /\ ~added) => Rounds
Closed == pc = "resolved" =>
            /\ Resting /\ item = Nobody
            /\ (Kept /\ ~w.allowincomplete) => Unresolved(Names) = {}

LEMMA MentionNext == ASSUME TypeOK, Mention, [Next]_vars PROVE Mention'
<1> USE DEF place, data
<1>0. w' = w /\ seen \subseteq seen' /\ failed_fns \subseteq failed_fns'
  BY Grows
<1>1. ASSUME UNCHANGED seenfns PROVE Mention'
  BY <1>0, <1>1 DEF Mention, Needs
<1>2. CASE Try
  <2> DEFINE f == Head(trying)
  <2>1. CASE UNCHANGED seenfns BY <2>1, <1>1
  <2>2. CASE f \notin seenfns /\ f \notin failed_fns
    <3>1. PICK S \in Mentioned(f) : seen' = seen \cup {item} \cup S
      BY <1>2, <2>2 DEF Try
    <3>2. seenfns' = seenfns \cup {f}
      BY <1>2, <2>2 DEF Try
    <3>3. CASE Unmet(f) = {}
      <4>1. Needs(f) \subseteq seen'
        BY <3>1, <3>3, <2>2 DEF Mentioned, Needs
      <4> HIDE DEF f
      <4> QED BY <1>0, <3>2, <4>1 DEF Mention, Needs
    <3>4. CASE Unmet(f) # {}
      <4>1. failed_fns' = failed_fns \cup {f}
        BY <1>2, <2>2, <3>4 DEF Try
      <4> HIDE DEF f
      <4> QED BY <1>0, <3>2, <4>1 DEF Mention, Needs
    <3> QED BY <3>3, <3>4
  <2>3. seenfns' = seenfns \cup {f} \/ UNCHANGED seenfns
    BY <1>2 DEF Try
  <2>4. f \in failed_fns => UNCHANGED seenfns
    BY <1>2 DEF Try
  <2>5. f \in seenfns => UNCHANGED seenfns
    BY <2>3
  <2> QED BY <2>1, <2>2, <2>4, <2>5
<1>3. CASE Raise
  BY <1>1, <1>3 DEF Raise, Without, Uncaught
<1>4. ASSUME NEW n \in Names, NoProvider(n) PROVE Mention'
  BY <1>1, <1>4, NoProviderDoes
<1>5. CASE \/ NextLoop \/ Provided \/ Return \/ UNCHANGED vars
           \/ (\E n \in Names : Unlist(n) \/ Skip(n) \/ Provide(n))
           \/ (\E f \in Fns : Drag(f))
  BY <1>1, <1>5 DEF NextLoop, Provided, Return, Unlist, Skip, Provide, Drag, vars
<1> QED BY NextCases, <1>2, <1>3, <1>4, <1>5

LEMMA SameUnresolved ==
  ASSUME UNCHANGED <<seen, targets, failed>>
  PROVE  \A K : Unresolved(K)' = Unresolved(K)
  BY DEF Unresolved

LEMMA NextLoopOpen ==
  ASSUME OpenRounds, NextLoop, Kept, ~w.allowincomplete, ~added'
  PROVE  Rounds'
<1>1. item = Nobody /\ todo = {} /\ UNCHANGED <<seen, targets, failed>>
  BY DEF NextLoop, Looking, Idle, data
<1>2. \A K : Unresolved(K)' = Unresolved(K)
  BY <1>1, SameUnresolved
<1>3. CASE StartRound
  BY <1>2, <1>3 DEF StartRound, Rounds, Open
<1>4. CASE pc = "build" /\ pc' = "runtime" /\ todo' = Unresolved(RunNames)
           /\ UNCHANGED added
  <2>1. Unresolved(BuildNames) = {}
    BY <1>1, <1>4 DEF OpenRounds, Rounds, Open
  <2> QED BY <1>2, <1>4, <2>1 DEF Rounds, Open
<1>5. CASE pc' = "resolved"
  BY <1>5 DEF Rounds
<1> QED BY <1>3, <1>4, <1>5 DEF NextLoop, AfterRound

LEMMA OpenNext ==
  ASSUME TypeOK, StackThrown, OpenRounds, [Next]_vars PROVE OpenRounds'
<1> USE DEF place, data
<1> SUFFICES ASSUME Kept', ~w'.allowincomplete, item' = Nobody, ~added'
             PROVE  Rounds'
  BY DEF OpenRounds
<1>0. Kept /\ w' = w /\ Nobody \notin Names
  BY KeptBefore, Grows, NamesApart
<1>1. ASSUME item = Nobody, ~added, pc' = pc, todo' = todo,
             \A K : Unresolved(K)' \subseteq Unresolved(K)
      PROVE  Rounds'
  BY <1>0, <1>1 DEF OpenRounds, Rounds, Open
<1>2. CASE NextLoop BY <1>0, <1>2, NextLoopOpen
<1>3. CASE Raise BY <1>0, <1>3, RaiseLost
<1>4. CASE Try BY <1>4 DEF Try
<1>5. CASE Provided \/ (\E n \in Names : Skip(n) \/ Provide(n))
  BY <1>0, <1>5 DEF Provided, Skip, Provide
<1>6. CASE Return \/ (\E f \in Fns : Drag(f)) \/ UNCHANGED vars
  <2>1. UNCHANGED <<item, added, pc, todo, seen, targets, failed>>
    BY <1>6 DEF Return, Drag, vars
  <2>2. \A K : Unresolved(K)' = Unresolved(K)
    BY <2>1, SameUnresolved
  <2> QED BY <1>1, <2>1, <2>2
<1>7. ASSUME NEW n \in Names, Unlist(n) PROVE Rounds'
  <2>1. /\ UNCHANGED <<item, added, pc, todo, seen>> /\ failed \subseteq failed'
        /\ \A m \in Names : targets'[m] = {} => targets[m] = {} \/ m \in failed'
    BY <1>7 DEF Unlist, TypeOK
  <2>2. \A K : Unresolved(K)' \subseteq Unresolved(K)
    BY <2>1 DEF Unresolved, TypeOK
  <2> QED BY <1>1, <2>1, <2>2
<1>8. ASSUME NEW n \in Names, NoProvider(n) PROVE Rounds'
  <2>1. item = Nobody /\ UNCHANGED <<added, targets, seen>>
    BY <1>8, NoProviderDoes
  <2>2. CASE pc' = "raised" \/ w.allowincomplete
    BY <1>0, <2>2 DEF Rounds
  <2>3. CASE failed' = failed \cup {n} /\ pc' = pc /\ todo' = todo \ {n}
    <3>1. \A K : Unresolved(K)' \subseteq Unresolved(K) \ {n}
      BY <2>1, <2>3 DEF Unresolved
    <3>2. Rounds
      BY <1>0, <2>1 DEF OpenRounds
    <3> QED BY <2>3, <3>1, <3>2 DEF Rounds, Open
  <2> QED BY <1>8, <2>2, <2>3, NoProviderDoes
<1> QED BY NextCases, <1>2, <1>3, <1>4, <1>5, <1>6, <1>7, <1>8

LEMMA ClosedNext ==
  ASSUME TypeOK, StackThrown, OpenRounds, Closed, [Next]_vars PROVE Closed'
<1> USE DEF place, data
<1> SUFFICES ASSUME pc' = "resolved" PROVE Closed'
  BY DEF Closed
<1>1. CASE NextLoop
  <2>1. /\ Resting /\ item = Nobody /\ todo = {} /\ pc = "runtime" /\ ~added
        /\ UNCHANGED <<w, stack, item, seen, targets, failed>>
    BY <1>1 DEF NextLoop, Looking, Idle, StartRound, AfterRound
  <2>2. \A K : Unresolved(K)' = Unresolved(K)
    BY <2>1, SameUnresolved
  <2>3. ASSUME Kept', ~w'.allowincomplete PROVE Unresolved(Names) = {}
    <3>1. Unresolved(BuildNames) = {} /\ Unresolved(RunNames) = {}
      BY <2>1, <2>3, KeptBefore DEF OpenRounds, Rounds, Open
    <3> QED BY <3>1 DEF Unresolved, Names
  <2> QED BY <2>1, <2>2, <2>3 DEF Closed, Resting
<1>2. ASSUME pc = "resolved" PROVE Resting /\ item = Nobody /\ ~Looking
  BY <1>2 DEF Closed, Looking
<1>3. CASE Raise
  BY <1>2, <1>3 DEF Raise, Without, Uncaught
<1>4. ASSUME NEW n \in Names, NoProvider(n) PROVE FALSE
  <2>1. pc' = pc \/ pc' = "raised"
    BY <1>4, NoProviderDoes
  <2> QED BY <1>2, <1>4, <2>1 DEF NoProvider
<1>5. CASE \/ Provided \/ Try \/ Return
           \/ (\E n \in Names : Unlist(n) \/ Skip(n) \/ Provide(n))
           \/ (\E f \in Fns : Drag(f))
  BY <1>2, <1>5 DEF Provided, Try, Return, Unlist, Skip, Provide, Drag
<1>6. CASE UNCHANGED vars
  <2>1. UNCHANGED <<w, pc, stack, item, seen, targets, failed, external>>
    BY <1>6 DEF vars
  <2>2. \A K : Unresolved(K)' = Unresolved(K)
    BY <2>1, SameUnresolved
  <2> QED BY <2>1, <2>2 DEF Closed, Resting, Kept
<1> QED BY NextCases, <1>1, <1>3, <1>4, <1>5, <1>6

-----------------------------------------------------------------------------
CompleteInv == ConsistentInv /\ Lists /\ Mention /\ OpenRounds /\ Closed

LEMMA InitComplete == Init => CompleteInv
<1> SUFFICES ASSUME Init PROVE CompleteInv
  OBVIOUS
<1>1. Nobody \notin Names
  BY NamesApart
<1>2. Lists
  BY <1>1 DEF Init, Lists, Listed, Filled
<1>3. Mention /\ OpenRounds /\ Closed
  BY DEF Init, Mention, OpenRounds, Rounds, Closed
<1> QED BY <1>2, <1>3, InitConsistent DEF CompleteInv

LEMMA CompleteNext == CompleteInv /\ [Next]_vars => CompleteInv'
  BY ConsistentNext, ListsNext, MentionNext, OpenNext, ClosedNext
  DEF CompleteInv, ConsistentInv

LEMMA CompleteHolds == CompleteInv => Complete
<1> SUFFICES ASSUME CompleteInv, Resting, pc = "resolved", Kept PROVE Complete
  BY DEF Complete
<1>1. /\ TypeOK /\ ListsClean /\ NeedsMet /\ Listed /\ Filled /\ Mention
      /\ item = Nobody /\ Nobody \notin Names
      /\ \A d : ~OnStack(d)
  BY RestingEmpty, NamesApart
  DEF CompleteInv, ConsistentInv, Cascade, Lists, Closed
<1>2. ASSUME ~w.allowincomplete, NEW f \in seenfns \ failed_fns,
             NEW n \in Names \ (Ignored \cup failed), n \in Needs(f)
      PROVE  targets[n] # {}
  <2>1. n \in seen
    BY <1>1, <1>2 DEF Mention
  <2>2. Unresolved(Names) = {}
    BY <1>2 DEF CompleteInv, Closed
  <2> QED BY <1>2, <2>1, <2>2 DEF Unresolved
<1>3. ASSUME NEW f \in seenfns \ failed_fns
      PROVE  /\ w.deps[f] \subseteq Names /\ w.taskdeps[f] \subseteq Names
             /\ w.deps[f] \cap failed = {}
  BY <1>1 DEF TypeOK, World, NeedsMet
<1>4. ASSUME NEW n \in Names, targets[n] # {} PROVE targets[n] = Eligible(n)
  <2>1. Eligible(n) \subseteq targets[n]
    BY <1>1, <1>4 DEF Filled
  <2>2. targets[n] \subseteq Providers(n) /\ targets[n] \cap failed_fns = {}
    BY <1>1 DEF Listed, ListsClean
  <2> QED BY <2>1, <2>2 DEF Eligible
<1>5. ASSUME ~w.allowincomplete, NEW f \in seenfns \ failed_fns
      PROVE  /\ \A n \in w.deps[f] \ Ignored : targets[n] # {}
             /\ \A n \in w.taskdeps[f] \ (Ignored \cup failed) : targets[n] # {}
  BY <1>2, <1>3, <1>5 DEF Needs
<1> QED BY <1>4, <1>5 DEF Complete

(* When everything is resolved and no requested target lost, every recipe  *)
(* left has a provider for all it needs, and every list has exactly the    *)
(* providers left (add_provider_internal, add_rprovider, add_unresolved).  *)
THEOREM CompleteCorrect == Spec => []Complete
  BY InitComplete, CompleteNext, CompleteHolds, PTL DEF Spec
=============================================================================
