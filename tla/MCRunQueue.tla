----------------------------- MODULE MCRunQueue -----------------------------
(* Values for RunQueue's constants: three or four tasks of two recipes.    *)
EXTENDS RunQueue, TLC

(* a and b belong to recipe r, c and d to recipe s.                        *)
CONSTANTS a, b, c, d, r, s

T3 == {a, b, c}
T4 == {a, b, c, d}

Fn3 == (a :> r) @@ (b :> r) @@ (c :> s)
Fn4 == Fn3 @@ (d :> s)

Chain3   == (a :> {}) @@ (b :> {a}) @@ (c :> {b})
Fork3    == (a :> {}) @@ (b :> {a}) @@ (c :> {a})
Join3    == (a :> {}) @@ (b :> {}) @@ (c :> {a, b})
Loose3   == (a :> {}) @@ (b :> {}) @@ (c :> {})
Diamond4 == (a :> {}) @@ (b :> {a}) @@ (c :> {a}) @@ (d :> {b, c})
Vee4     == (a :> {}) @@ (b :> {a}) @@ (c :> {}) @@ (d :> {c})

Some3 == {Chain3, Join3, Loose3}
Few4  == {Diamond4, Vee4}

NoSkips   == {{}}
OneSkip   == {{}, {a}, {c}}
NoStamps3 == {[t \in T3 |-> 0]}
(* Every age, but no stamp of c, which is nostamp.                         *)
StampsButC == {ages \in [T4 -> 0 .. 2] : ages[c] = 0}

OwnStamp3 == [t \in T3 |-> t]
(* b and c share a stamp file, and so a work directory.                    *)
Shared4 == (a :> a) @@ (b :> b) @@ (c :> b) @@ (d :> d)
=============================================================================
