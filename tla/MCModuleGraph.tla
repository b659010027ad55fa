---------------------------- MODULE MCModuleGraph ----------------------------
(***************************************************************************)
(* Checks GraphOf against a reference definition, over every dependency   *)
(* graph on a few modules that a sequence of edits of the module          *)
(* configurations and of the controller's schema can produce.             *)
(***************************************************************************)
EXTENDS ModuleGraph, Naturals

CONSTANTS
  Builtin,  \* the synthetic "builtin" module, always in the controller schema
  Local,    \* modules discovered on disk (moduleMetas)
  Remote,   \* modules known only from the controller schema
  Shadowed  \* local modules that the controller also has a schema for

Nodes == Local \cup Remote \cup {Builtin}

VARIABLES
  metaDeps,  \* local module -> dependencies declared in its configuration
  imports    \* controller schema: module -> Imports() of its schema

vars == <<metaDeps, imports>>

Init ==
  /\ metaDeps = [m \in Local |-> {}]
  /\ imports = [m \in Remote \cup {Builtin} |-> {}]

(* A module's configuration gains a dependency (UpdateDependencies).      *)
AddDep(m, d) ==
  /\ d \notin metaDeps[m]
  /\ metaDeps' = [metaDeps EXCEPT ![m] = @ \cup {d}]
  /\ UNCHANGED imports

(* The controller publishes a schema for m, or a new version with import d. *)
AddImport(m, d) ==
  /\ m # Builtin
  /\ m \in DOMAIN imports => d \notin imports[m]
  /\ imports' = [x \in DOMAIN imports \cup {m} |->
                   IF x = m THEN (IF m \in DOMAIN imports THEN imports[m] ELSE {}) \cup {d}
                   ELSE imports[x]]
  /\ UNCHANGED metaDeps

(* The controller removes module m (DEPLOYMENT_REMOVED).                  *)
Withdraw(m) ==
  /\ m \in DOMAIN imports \ {Builtin}
  /\ imports' = [x \in DOMAIN imports \ {m} |-> imports[x]]
  /\ UNCHANGED metaDeps

Next ==
  \/ \E m \in Local, d \in Nodes : AddDep(m, d)
  \/ \E m \in Shadowed \cup Remote, d \in Nodes : AddImport(m, d)
  \/ \E m \in Shadowed \cup Remote : Withdraw(m)

Spec == Init /\ [][Next]_vars
-----------------------------------------------------------------------------
(* Reference definitions.                                                  *)
Known == DOMAIN metaDeps \cup DOMAIN imports
DepsOf(m) == IF m \in DOMAIN metaDeps THEN metaDeps[m] ELSE imports[m]
(* The modules reachable from names: the least set that contains names    *)
(* and the dependencies of each known member.                             *)
Reach(names) ==
  LET Closed == {R \in SUBSET Nodes :
                   names \subseteq R /\ \A m \in R \cap Known : DepsOf(m) \subseteq R}
  IN  CHOOSE R \in Closed : \A C \in Closed : R \subseteq C

(* Graph(names) succeeds exactly when every module reachable from names    *)
(* is known, locally or to the controller, and then maps each reachable   *)
(* module to its dependencies, the local configuration taking precedence. *)
GraphIsReachableClosure ==
  \A names \in SUBSET Local \ {{}} :
    LET g == GraphOf(names, metaDeps, imports)
    IN  /\ g.ok <=> Reach(names) \subseteq Known
        /\ g.ok => /\ DOMAIN g.val = Reach(names)
                   /\ \A m \in DOMAIN g.val : g.val[m] = DepsOf(m)
==============================================================================
