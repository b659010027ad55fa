------------------------- MODULE MCRunnerScheduler -------------------------
(* Two runner keys, r1 and r2: two starts of the process at endpoint e1. *)
(* One deployment to reserve runners for.                                 *)
EXTENDS RunnerScheduler, TLC
CONSTANTS r1, r2, e1, d1
MCRunners == {r1, r2}
MCEndpoint == (r1 :> e1) @@ (r2 :> e1)
MCDepls == {d1}
==============================================================================
