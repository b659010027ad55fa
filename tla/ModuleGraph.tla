----------------------------- MODULE ModuleGraph -----------------------------
(***************************************************************************)
(* The dependency-graph algorithms of the build engine.                    *)
(*                                                                         *)
(* A dependency graph is a function from module name to the set of module  *)
(* names it imports (the Go map[string][]string; the order of the slices   *)
(* never changes a result, so they are sets here).                         *)
(*                                                                         *)
(*  - GraphOf is Engine.Graph / Engine.buildGraph (buildengine/engine.go): *)
(*    the memoised depth-first exploration that resolves each name first  *)
(*    against the local module metadata and then against the schema       *)
(*    received from the controller, and fails on an unknown name.         *)
(*  - TopologicalSort is buildengine.TopologicalSort (not under src/, so   *)
(*    modelled from the specification): Kahn's algorithm by levels, every *)
(*    level a group whose members may build in parallel.                  *)
(***************************************************************************)
EXTENDS FiniteSets, Sequences

(* The result of an operation that may fail, as the Go (value, error) pair. *)
Ok(v) == [ok |-> TRUE, val |-> v]
Err == [ok |-> FALSE, val |-> <<>>]

(***************************************************************************)
(* buildGraph(name, out): a name already in out is skipped; otherwise its  *)
(* dependencies come from moduleMetas if it is a local module, else from   *)
(* the Imports() of its controller schema, else "module %q not found".    *)
(* The Go code recurses name by name; exploring a work set gives the same *)
(* map, and the same failure when any reachable name is unknown.          *)
(***************************************************************************)
(* Mutant: the controller schema is consulted before the local metadata. *)
RECURSIVE ExplorePreferSchema(_, _, _, _)
ExplorePreferSchema(todo, out, metaDeps, schemaImports) ==
  IF todo = {} THEN Ok(out)
  ELSE
    LET m == CHOOSE x \in todo : TRUE
    IN  IF m \in DOMAIN out
          THEN ExplorePreferSchema(todo \ {m}, out, metaDeps, schemaImports)
        ELSE IF m \in DOMAIN schemaImports
          THEN ExplorePreferSchema((todo \ {m}) \cup schemaImports[m],
                       [x \in DOMAIN out \cup {m} |->
                          IF x = m THEN schemaImports[m] ELSE out[x]],
                       metaDeps, schemaImports)
        ELSE IF m \in DOMAIN metaDeps
          THEN ExplorePreferSchema((todo \ {m}) \cup metaDeps[m],
                       [x \in DOMAIN out \cup {m} |->
                          IF x = m THEN metaDeps[m] ELSE out[x]],
                       metaDeps, schemaImports)
        ELSE Err

RECURSIVE Explore(_, _, _, _)
Explore(todo, out, metaDeps, schemaImports) ==
  IF todo = {} THEN Ok(out)
  ELSE
    LET m == CHOOSE x \in todo : TRUE
    IN  IF m \in DOMAIN out
          THEN Explore(todo \ {m}, out, metaDeps, schemaImports)
        ELSE IF m \in DOMAIN metaDeps
          THEN Explore((todo \ {m}) \cup metaDeps[m],
                       [x \in DOMAIN out \cup {m} |->
                          IF x = m THEN metaDeps[m] ELSE out[x]],
                       metaDeps, schemaImports)
        ELSE IF m \in DOMAIN schemaImports
          THEN Explore((todo \ {m}) \cup schemaImports[m],
                       [x \in DOMAIN out \cup {m} |->
                          IF x = m THEN schemaImports[m] ELSE out[x]],
                       metaDeps, schemaImports)
        ELSE Err

(* Engine.Graph(names...): an empty name list means every local module.   *)
GraphOf(names, metaDeps, schemaImports) ==
  Explore(IF names = {} THEN DOMAIN metaDeps ELSE names,
          [x \in {} |-> {}], metaDeps, schemaImports)

(***************************************************************************)
(* TopologicalSort(graph): repeatedly take, as the next group, every       *)
(* remaining module whose dependencies are all in earlier groups; no such *)
(* module while some remain is a dependency cycle and fails the sort.     *)
(***************************************************************************)
RECURSIVE Levels(_, _)
Levels(graph, done) ==
  LET rest  == DOMAIN graph \ done
      ready == {m \in rest : graph[m] \subseteq done}
  IN  IF rest = {} THEN <<>>
      ELSE IF ready = {} THEN <<{}>>
      ELSE <<ready>> \o Levels(graph, done \cup ready)

(* An empty level marks the cycle that stopped the sort.                  *)
TopologicalSort(graph) ==
  LET levels == Levels(graph, {})
  IN  IF \A i \in DOMAIN levels : levels[i] # {} THEN Ok(levels) ELSE Err
==============================================================================
