----------------------------- MODULE MCTaskData -----------------------------
(* Worlds for TaskData: an image e whose recipe E may need t (providers A  *)
(* and B), x (only X) and the runtime target r (C and A); X may need z     *)
(* (only Z).  Nobody provides y, and p is assumed to be provided.          *)
EXTENDS TaskData, TLC

CONSTANTS E, A, B, C, X, Z,  e, t, x, y, z, p, r

Lists == (e :> <<E>>) @@ (t :> <<A, B>>) @@ (x :> <<X>>) @@ (z :> <<Z>>)
         @@ (r :> <<C, A>>) @@ (y :> <<>>) @@ (p :> <<>>)

(* What E, A, B, C, X and Z need.                                          *)
Deps(a, b, c, d, g, h) ==
  (E :> a) @@ (A :> b) @@ (B :> c) @@ (C :> d) @@ (X :> g) @@ (Z :> h)

Options == [abort : BOOLEAN, allowincomplete : BOOLEAN]

WorldOf(deps, tasks, asked, o) ==
  [providers |-> Lists, deps |-> deps, taskdeps |-> tasks, requested |-> asked,
   abort |-> o.abort, allowincomplete |-> o.allowincomplete]

Several ==
  {WorldOf(Deps(a, b, c, d, g, h), Deps(k, {}, {}, {}, {p}, {}), q, o) :
     a \in {{t, x}, {t, r}}, b \in {{}, {x}}, c \in {{y}, {p, r}},
     d \in {{}, {y}, {x}}, g \in {{}, {z}, {y}}, h \in {{r}, {y}, {t}},
     k \in {{}, {y}, {z, r}}, q \in {{e}, {e, x}, {x, p}}, o \in Options}
=============================================================================
