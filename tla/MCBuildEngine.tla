---------------------------- MODULE MCBuildEngine ----------------------------
(* Three local modules in a chain: a imports b, b imports c, c imports    *)
(* only builtin. Chains of two dependency levels are needed for a         *)
(* dependency of a dependency to fail or be absent.                       *)
EXTENDS BuildEngine

CONSTANTS a, b, c

MCLocal == {a, b, c}
MCDeps == [m \in MCLocal |-> CASE m = a -> {b, Builtin}
                              [] m = b -> {c, Builtin}
                              [] m = c -> {Builtin}]

(* A fork for the run with faults: a imports b and c, which import only   *)
(* builtin. b and c form one topological group, so their workers compile *)
(* concurrently and their deploys race each other and a's build.          *)
MCDepsFork == [m \in MCLocal |-> IF m = a THEN {b, c, Builtin} ELSE {Builtin}]
==============================================================================
