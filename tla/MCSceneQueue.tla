---------------------------- MODULE MCSceneQueue ----------------------------
(* Values for SceneQueue's constants.                                      *)
EXTENDS SceneQueue, TLC

(* e is what the build was asked for; y, p and x have setscene variants,   *)
(* the others have none; c is the do_configure of the recipe of sysroot y. *)
CONSTANTS e, y, p, i, c, m, x

T7 == {e, y, p, i, c, m, x}
S3 == {y, p, x}

Graph(iDeps, mDeps) ==
  (e :> {y, p}) @@ (y :> {i}) @@ (p :> {c}) @@ (i :> iDeps) @@ (c :> {m})
  @@ (m :> mDeps) @@ (x :> {})

(* Two artefacts of one recipe, all built on x; x is used by the last step *)
(* before y only; two recipes over m.                                      *)
Recipe  == Graph({c, x}, {x})
Install == Graph({c, x}, {})
Pair    == Graph({m}, {x})
(* i builds an image from what y, p and x package.                         *)
Image == [Recipe EXCEPT ![e] = {i}, ![i] = {y, p, x}, ![y] = {c}, ![p] = {x},
                        ![m] = {}]

MCGraphs == {Recipe, Install, Pair, Image}
NoHard  == [t \in S3 |-> {}]
MCHard  == {NoHard, [NoHard EXCEPT ![y] = {x}]}
MCTargets == {{e}, {e, p}}
MCUses  == {{}, {<<y, x>>}}
MCFound == {{}, {x}}
MCBuilt == {{}, {y, c, i, m}}
MCAvail == {{}, {y, p}, S3}
MCConf  == {<<c, y>>}
MCStamp == [t \in S3 |-> t]
=============================================================================
