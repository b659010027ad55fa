--------------------------- MODULE MCEngineDeploy ---------------------------
(* Local modules h -> a; a, d and f -> b -> builtin; e and g -> builtin;   *)
(* and x, which imports e (MCDeps) or c (MCDepsRemote). c is only in the  *)
(* controller's schema and imports b. The groups are [builtin], [b, e, g], *)
(* [a, d, f] with c when x imports it, then [h, x]: up to four deploys of  *)
(* one group race each other's errors.                                     *)
EXTENDS EngineDeploy, TLC
CONSTANTS a, b, d, e, f, g, h, x, c
MCLocal == {a, b, d, e, f, g, h, x}
MCDepsOf(xdep) ==
  (a :> {b}) @@ (b :> {Builtin}) @@ (d :> {b}) @@ (e :> {Builtin}) @@
  (f :> {b}) @@ (g :> {Builtin}) @@ (h :> {a}) @@ (x :> {xdep})
MCDeps == MCDepsOf(e)
MCDepsRemote == MCDepsOf(c)
MCRemote == {c}
MCRemoteImports == (c :> {b})
==============================================================================
