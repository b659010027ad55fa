----------------------------- MODULE EngineDeploy -----------------------------
(***************************************************************************)
(* Engine.Deploy (buildengine/engine.go), the command `ftl box run` uses to *)
(* deploy every local module that is already compiled: Graph over          *)
(* Modules(), TopologicalSort, then for each group an errgroup with one    *)
(* goroutine per module calling the Deploy RPC sequence, waiting for the  *)
(* group before starting the next.                                         *)
(*                                                                         *)
(* The goroutines of a group interleave; the first to return an error      *)
(* cancels the group's context, so the others' RPCs may fail, or may have  *)
(* completed at the controller already.                                    *)
(***************************************************************************)
EXTENDS Naturals, Sequences, ModuleGraph

CONSTANTS
  Builtin,        \* the synthetic "builtin" module
  Local,          \* modules in moduleMetas
  Deps,           \* Local -> their declared dependencies
  Remote,         \* modules only the controller has (controllerSchema)
  RemoteImports,  \* Remote -> Imports() of their schema
  DeployMayFail   \* whether the Deploy RPC sequence may fail

ASSUME /\ Deps \in [Local -> SUBSET (Local \cup Remote \cup {Builtin})]
       /\ RemoteImports \in [Remote -> SUBSET (Local \cup Remote \cup {Builtin})]
       /\ DeployMayFail \in BOOLEAN

VARIABLES
  phase,      \* "start", "group" (a group is deploying), "done" or "failed"
  groups,     \* the topological groups
  gi,         \* index of the current group
  running,    \* modules of the group whose goroutine has not returned
  cancelled,  \* the group's errgroup context is cancelled
  groupErr,   \* a goroutine of the group returned an error
  deployed    \* modules this command deployed at the controller

vars == <<phase, groups, gi, running, cancelled, groupErr, deployed>>

(* controllerSchema: the remote modules, and builtin stored by New. *)
ControllerImports == [m \in Remote \cup {Builtin} |->
                        IF m = Builtin THEN {} ELSE RemoteImports[m]]

(* Graph(e.Modules()...) followed by TopologicalSort: the groups, or Err. *)
Sorted ==
  LET g == GraphOf(Local, Deps, ControllerImports)
  IN  IF g.ok THEN TopologicalSort(g.val) ELSE Err

(* deployGroup.Go for every module of group i but builtin, under a fresh *)
(* errgroup context.                                                        *)
LaunchGroup(i) ==
  /\ running' = groups'[i] \ {Builtin}
  /\ cancelled' = FALSE
  /\ groupErr' = FALSE
-----------------------------------------------------------------------------
Init ==
  /\ phase = "start"
  /\ groups = <<>>
  /\ gi = 1
  /\ running = {}
  /\ cancelled = FALSE
  /\ groupErr = FALSE
  /\ deployed = {}

(* The graph and the sort; either error is returned.                     *)
DeployStart ==
  /\ phase = "start"
  /\ IF Sorted.ok
       THEN /\ phase' = "group" /\ groups' = Sorted.val /\ gi' = 1
            /\ LaunchGroup(1)
       ELSE /\ phase' = "failed"
            /\ UNCHANGED <<groups, gi, running, cancelled, groupErr>>
  /\ UNCHANGED deployed

(* A goroutine's Deploy completes at the controller, possibly after its   *)
(* context was cancelled.                                                  *)
DeployModule(m) ==
  /\ m \in running /\ m \in Local
  /\ running' = running \ {m}
  /\ deployed' = deployed \cup {m}
  /\ UNCHANGED <<phase, groups, gi, cancelled, groupErr>>

(* A goroutine returns an error: moduleMetas.Load finds no meta ("module  *)
(* not found"), or the Deploy RPCs fail, or were aborted by cancellation. *)
(* errgroup cancels the context.                                           *)
DeployModuleFails(m) ==
  /\ m \in running
  /\ m \notin Local \/ DeployMayFail \/ cancelled
  /\ running' = running \ {m}
  /\ cancelled' = TRUE
  /\ groupErr' = TRUE
  /\ UNCHANGED <<phase, groups, gi, deployed>>

(* Mutant: the next group is started without waiting for this one. *)
GroupWaitEarly ==
  /\ phase = "group"
  /\ IF gi < Len(groups)
       THEN /\ gi' = gi + 1
            /\ running' = running \cup (groups[gi + 1] \ {Builtin})
            /\ UNCHANGED <<phase, groups, cancelled, groupErr>>
       ELSE /\ running = {}
            /\ phase' = IF groupErr THEN "failed" ELSE "done"
            /\ UNCHANGED <<groups, gi, running, cancelled, groupErr>>
  /\ UNCHANGED deployed

(* Mutant: the loop over the groups stops one group short. *)
GroupWaitSkipsLast ==
  /\ phase = "group" /\ running = {}
  /\ IF groupErr
       THEN /\ phase' = "failed"
            /\ UNCHANGED <<groups, gi, running, cancelled, groupErr>>
       ELSE IF gi < Len(groups) - 1
       THEN /\ UNCHANGED <<phase, groups>>
            /\ gi' = gi + 1 /\ LaunchGroup(gi + 1)
       ELSE /\ phase' = "done"
            /\ UNCHANGED <<groups, gi, running, cancelled, groupErr>>
  /\ UNCHANGED deployed

(* deployGroup.Wait(): the group's first error ends the command ("deploy  *)
(* failed"); otherwise the next group starts, and after the last one       *)
(* Deploy returns nil.                                                      *)
GroupWait ==
  /\ phase = "group" /\ running = {}
  /\ IF groupErr
       THEN /\ phase' = "failed"
            /\ UNCHANGED <<groups, gi, running, cancelled, groupErr>>
       ELSE IF gi < Len(groups)
       THEN /\ UNCHANGED <<phase, groups>>
            /\ gi' = gi + 1 /\ LaunchGroup(gi + 1)
       ELSE /\ phase' = "done"
            /\ UNCHANGED <<groups, gi, running, cancelled, groupErr>>
  /\ UNCHANGED deployed

Next ==
  \/ DeployStart \/ GroupWait
  \/ \E m \in Local \cup Remote : DeployModule(m) \/ DeployModuleFails(m)

(* The goroutines and the caller of Wait always run to completion. *)
Spec == Init /\ [][Next]_vars /\ WF_vars(Next)
-----------------------------------------------------------------------------
(* Across groups the order is strictly topological: a module is deployed *)
(* only after every local module it depends on was deployed by this      *)
(* command, even though the goroutines of one group race and cancel each  *)
(* other.                                                                  *)
DeployedAfterDeps ==
  \A m \in deployed : Deps[m] \cap Local \subseteq deployed

(* Deploy "attempts to deploy all (already compiled) local modules": when *)
(* it returns nil, every local module has been deployed.                  *)
SuccessMeansAllDeployed == phase = "done" => Local \subseteq deployed

(* With no Deploy RPC failing, Engine.Deploy ends by returning nil. *)
DeploysWithoutFaults == <>(phase = "done")
==============================================================================
