----------------------------- MODULE BuildEngine -----------------------------
(***************************************************************************)
(* The developer-side build engine of buildengine/engine.go, running       *)
(* Engine.Dev: the dev loop (watchForModuleChanges), the BuildAndDeploy    *)
(* procedure it calls (buildWithCallback, tryBuild, mustSchema, build and *)
(* the deploy callbacks), and the schema-sync goroutine (startSchemaSync)  *)
(* that feeds controllerSchema and the schemaChanges topic from the        *)
(* controller's PullSchema stream.                                        *)
(*                                                                         *)
(* Goroutines that interleave: the dev loop (one step per select branch;   *)
(* BuildAndDeploy is a sequence of steps of the loop), the build workers  *)
(* of the current topological group, the deploy goroutines spawned by the *)
(* build callback, the schema-sync goroutine, and the developer editing    *)
(* files (the watcher turning each edit into a ModuleChanged event).       *)
(*                                                                         *)
(* Data abstraction: a module's source is a version number; the compiler  *)
(* is deterministic, so the schema it emits is identified by that version *)
(* and computeModuleHash(schema) by the same number. A deployed artefact   *)
(* records the source version and the schema versions of the direct       *)
(* dependencies it was compiled against. Event times are abstracted to    *)
(* the only comparison the code makes: whether an event is older than the *)
(* module's lastBuildStartTime ("stale").                                  *)
(***************************************************************************)
EXTENDS Naturals, Sequences, TLC, ModuleGraph

CONSTANTS
  Builtin,        \* the synthetic "builtin" module
  Local,          \* modules found by DiscoverModules in the module directories
  Deps,           \* Local -> the dependencies read by UpdateDependencies
  MaxEdits,       \* bound on the developer's edits in one behaviour
  InitDeployed,   \* modules the controller already runs when Dev starts
  GetSchemaOK,    \* whether the blocking GetSchema in startSchemaSync succeeds
  ChanCap,        \* capacity of the dev loop's schemaChanges channel
  DeployMayFail,  \* whether the Deploy RPC sequence may fail
  Removable,      \* modules whose directory the developer may delete and re-create
  TerminateMayFail, \* whether terminateModuleDeployment may fail
  None            \* absent map entry / nil

ASSUME /\ Deps \in [Local -> SUBSET (Local \cup {Builtin})]
       /\ InitDeployed \subseteq Local
       /\ MaxEdits \in Nat
       /\ GetSchemaOK \in BOOLEAN /\ DeployMayFail \in BOOLEAN
       /\ ChanCap \in Nat \ {0}
       /\ Removable \subseteq Local /\ TerminateMayFail \in BOOLEAN

LocalDeps(m) == Deps[m] \ {Builtin}
Version == 0..MaxEdits
Art(m) == [src : Version, deps : [LocalDeps(m) -> Version \cup {None}]]
NoFun == [x \in {} |-> None]

VARIABLES
  src, broken, edits,   \* the module sources on disk
  disk,                 \* modules whose directory exists
  metas,                \* modules in Engine.moduleMetas
  watchQ,               \* watchEvents channel: module added/changed/removed events
  ctrl, pull,           \* controller: active deployment per module, PullSchema stream
  cschema, changes,     \* Engine.controllerSchema, the schemaChanges subscription
  publishing,           \* the change the schema-sync callback is blocked publishing
  hashes,               \* moduleHashes of the dev loop
  ranged,               \* modules the controllerSchema.Range has visited
  loop,                 \* where the dev-loop goroutine is
  didError, didUpdate,  \* didError, didUpdateDeployments
  bs,                   \* the BuildAndDeploy in progress
  deploying,            \* deploy goroutines in buildGroup
  outcome,              \* per module: result of its latest build or deploy
  readSrc               \* history: newest source version a compile has read

vars == <<src, broken, edits, disk, metas, watchQ, ctrl, pull, cschema, changes, publishing, hashes, ranged,
          loop, didError, didUpdate, bs, deploying, outcome, readSrc>>

(* State of buildWithCallback: the requested modules (mustBuild), the     *)
(* topological groups, the current group index, the members of the        *)
(* current group whose worker has not returned, the compiles in flight,   *)
(* the schemas sent on the group's channel, builtModules, and whether any *)
(* worker returned an error.                                               *)
NoBuild == [must |-> {}, groups |-> <<>>, gi |-> 1, todo |-> {},
            compiling |-> NoFun, emitted |-> NoFun,
            built |-> NoFun, err |-> FALSE]
-----------------------------------------------------------------------------
(* Imports() of the schemas in controllerSchema, given the local modules *)
(* it holds; builtin imports nothing.                                      *)
SchemaImports(present) ==
  [m \in {Builtin} \cup present |-> IF m = Builtin THEN {} ELSE Deps[m]]

(* moduleMetas.Store(name, moduleMeta{module}) zeroes lastBuildStartTime, *)
(* so no queued event of those modules is older than it any more.         *)
ResetStale(q, names) ==
  [i \in DOMAIN q |-> IF q[i].mod \in names THEN [q[i] EXCEPT !.stale = FALSE] ELSE q[i]]

(* lastBuildStartTime = time.Now(): every queued event of m is older.     *)
MarkStale(q, m) ==
  [i \in DOMAIN q |-> IF q[i].mod = m THEN [q[i] EXCEPT !.stale = TRUE] ELSE q[i]]

Extend(f, k, v) == [x \in DOMAIN f \cup {k} |-> IF x = k THEN v ELSE f[x]]
Drop(f, k) == [x \in DOMAIN f \ {k} |-> f[x]]

(* Engine.Modules: the names of all modules in moduleMetas. *)
Modules == metas

(* getDependentModuleNames: local modules that import m directly.         *)
Dependents(m) == {n \in metas : m \in Deps[n]}

(***************************************************************************)
(* BuildAndDeploy(names): buildWithCallback re-reads each requested        *)
(* module's dependencies and stores a fresh meta, computes Graph(names)    *)
(* and TopologicalSort, and starts the workers of the first group. A       *)
(* failing Graph or sort returns the error before any worker runs.         *)
(* q is the watch queue as the caller leaves it.                           *)
(***************************************************************************)
Plan(names, present, known) ==
  LET g == GraphOf(names, [x \in known |-> Deps[x]], SchemaImports(present))
      t == TopologicalSort(g.val)
  IN  IF g.ok /\ t.ok
        THEN [NoBuild EXCEPT !.must = names, !.groups = t.val,
                             !.todo = t.val[1], !.built = (Builtin :> 0)]
        ELSE [NoBuild EXCEPT !.gi = 2, !.err = TRUE]

(* Plan depends on the state only through the modules in controllerSchema *)
(* and in moduleMetas, so it is tabulated once, as a constant, for every  *)
(* argument (moduleMetas lacks at most some removable modules).            *)
Plans == {[names |-> n, present |-> p, known |-> k, plan |-> Plan(n, p, k)] :
            n \in SUBSET Local, p \in SUBSET Local, k \in {Local \ r : r \in SUBSET Removable}}
PlanFor(names, present, known) ==
  (CHOOSE r \in Plans : r.names = names /\ r.present = present /\ r.known = known).plan

BeginBuildAndDeploy(names, q, known) ==
  /\ watchQ' = ResetStale(q, names)
  /\ bs' = PlanFor(names, {x \in Local : cschema[x] # None}, known)
-----------------------------------------------------------------------------
(***************************************************************************)
(* New: every module DiscoverModules finds on disk gets a meta with its   *)
(* dependencies (and a modulesToBuild entry, which only feeds a log line); *)
(* "builtin" is stored in controllerSchema, which InControllerSchema      *)
(* takes as always present; then startSchemaSync and the PullSchema       *)
(* stream goroutine start (Init's cschema and pull, and SyncSchema).      *)
(***************************************************************************)
New == metas = disk

Init ==
  /\ src = [m \in Local |-> 0]
  /\ broken \in [Local -> BOOLEAN]
  /\ edits = 0
  /\ disk = Local
  /\ New
  /\ watchQ = <<>>
  /\ ctrl = [m \in Local |-> IF m \in InitDeployed
                               THEN [src |-> 0, deps |-> [d \in LocalDeps(m) |-> 0]]
                               ELSE None]
  /\ pull = <<>>
  /\ cschema = [m \in Local |-> IF GetSchemaOK /\ m \in InitDeployed THEN 0 ELSE None]
  /\ changes = <<>>
  /\ publishing = None
  /\ hashes = [m \in Local |-> None]
  /\ ranged = {}
  /\ loop = "start"
  /\ didError = FALSE
  /\ didUpdate = FALSE
  /\ bs = NoBuild
  /\ deploying = {}
  /\ outcome = [m \in Local |-> "none"]
  /\ readSrc = [m \in Local |-> 0]

(* The developer saves a file of m; the watcher's next poll publishes     *)
(* WatchEventModuleChanged with a time later than every build start.      *)
Edit(m) ==
  /\ m \in disk
  /\ edits < MaxEdits
  /\ edits' = edits + 1
  /\ src' = [src EXCEPT ![m] = @ + 1]
  /\ broken' \in [Local -> BOOLEAN] /\ \A x \in Local \ {m} : broken'[x] = broken[x]
  /\ watchQ' = Append(watchQ, [kind |-> "changed", mod |-> m, ver |-> src[m] + 1, stale |-> FALSE])
  /\ UNCHANGED <<disk, metas, ctrl, pull, cschema, changes, publishing, hashes, ranged, loop, didError, didUpdate,
                 bs, deploying, outcome, readSrc>>

(* The developer deletes the directory of a module; the watcher's next    *)
(* poll publishes WatchEventModuleRemoved.                                 *)
RemoveModule(m) ==
  /\ m \in Removable \cap disk
  /\ edits < MaxEdits
  /\ edits' = edits + 1
  /\ disk' = disk \ {m}
  /\ watchQ' = Append(watchQ, [kind |-> "removed", mod |-> m, ver |-> src[m], stale |-> FALSE])
  /\ UNCHANGED <<src, broken, metas, ctrl, pull, cschema, changes, publishing, hashes, ranged, loop, didError,
                 didUpdate, bs, deploying, outcome, readSrc>>

(* The developer re-creates it with new contents; the watcher publishes   *)
(* WatchEventModuleAdded.                                                   *)
AddModule(m) ==
  /\ m \in Removable \ disk
  /\ edits < MaxEdits
  /\ edits' = edits + 1
  /\ disk' = disk \cup {m}
  /\ src' = [src EXCEPT ![m] = @ + 1]
  /\ broken' \in [Local -> BOOLEAN] /\ \A x \in Local \ {m} : broken'[x] = broken[x]
  /\ watchQ' = Append(watchQ, [kind |-> "added", mod |-> m, ver |-> src[m] + 1, stale |-> FALSE])
  /\ UNCHANGED <<metas, ctrl, pull, cschema, changes, publishing, hashes, ranged, loop, didError,
                 didUpdate, bs, deploying, outcome, readSrc>>
-----------------------------------------------------------------------------
(***************************************************************************)
(* Build workers of the current group (tryBuild / mustSchema / build).     *)
(***************************************************************************)
Idle(m) == m \in bs.todo \ DOMAIN bs.compiling

(* controllerSchema.Load(name): builtin is stored by New.                  *)
InControllerSchema(m) == IF m = Builtin THEN TRUE ELSE cschema[m] # None

(* mustSchema: a module not requested whose schema the controller has    *)
(* sends that schema instead of building.                                 *)
EmitControllerSchema(m) ==
  /\ Idle(m)
  /\ m \notin bs.must
  /\ InControllerSchema(m)
  /\ bs' = [bs EXCEPT !.todo = @ \ {m},
                      !.emitted = Extend(@, m, IF m = Builtin THEN 0 ELSE cschema[m])]
  /\ UNCHANGED <<disk, metas, src, broken, edits, watchQ, ctrl, pull, cschema, changes, publishing, hashes, ranged,
                 loop, didError, didUpdate, deploying, outcome, readSrc>>

(* tryBuild: a requested module with a dependency missing from           *)
(* builtModules is skipped with a warning, not an error.                  *)
SkipBuild(m) ==
  /\ Idle(m)
  /\ m \in bs.must
  /\ ~(Deps[m] \subseteq DOMAIN bs.built)
  /\ bs' = [bs EXCEPT !.todo = @ \ {m}]
  /\ UNCHANGED <<disk, metas, src, broken, edits, watchQ, ctrl, pull, cschema, changes, publishing, hashes, ranged,
                 loop, didError, didUpdate, deploying, outcome, readSrc>>

(* Mutant: tryBuild compiles a requested module without checking that    *)
(* its dependencies are in builtModules.                                   *)
StartCompileIgnoringDeps(m) ==
  /\ Idle(m)
  /\ \/ m \in bs.must
     \/ m \notin bs.must /\ ~InControllerSchema(m)
  /\ watchQ' = IF m \in bs.must THEN MarkStale(watchQ, m) ELSE watchQ
  /\ bs' = [bs EXCEPT !.compiling = Extend(@, m,
              [src |-> src[m], ok |-> ~broken[m] /\ m \in disk, deploy |-> m \in bs.must,
               deps |-> [d \in LocalDeps(m) |->
                           IF d \in DOMAIN bs.built THEN bs.built[d] ELSE None]])]
  /\ readSrc' = [readSrc EXCEPT ![m] = src[m]]
  /\ UNCHANGED <<disk, metas, src, broken, edits, ctrl, pull, cschema, changes, publishing, hashes, ranged,
                 loop, didError, didUpdate, deploying, outcome>>

(* Mutant: gatherSchemas does not skip builtin, so the deployed artefact   *)
(* records builtin among its dependencies.                                *)
StartCompileBuiltinDep(m) ==
  /\ Idle(m)
  /\ \/ m \in bs.must /\ Deps[m] \subseteq DOMAIN bs.built
     \/ m \notin bs.must /\ ~InControllerSchema(m)
  /\ watchQ' = IF m \in bs.must THEN MarkStale(watchQ, m) ELSE watchQ
  /\ bs' = [bs EXCEPT !.compiling = Extend(@, m,
              [src |-> src[m], ok |-> ~broken[m] /\ m \in disk, deploy |-> m \in bs.must,
               deps |-> [d \in Deps[m] |->
                           IF d \in DOMAIN bs.built THEN bs.built[d] ELSE None]])]
  /\ readSrc' = [readSrc EXCEPT ![m] = src[m]]
  /\ UNCHANGED <<disk, metas, src, broken, edits, ctrl, pull, cschema, changes, publishing, hashes, ranged,
                 loop, didError, didUpdate, deploying, outcome>>

(* build: the compiler reads the sources (a deleted directory fails the   *)
(* compile), with the combined schema of the dependencies (gatherSchemas: *)
(* a dependency absent from builtModules is a nil entry). On the        *)
(* tryBuild path lastBuildStartTime is set first and the callback will    *)
(* deploy; on the mustSchema path neither happens.                         *)
StartCompile(m) ==
  /\ Idle(m)
  /\ \/ m \in bs.must /\ Deps[m] \subseteq DOMAIN bs.built
     \/ m \notin bs.must /\ ~InControllerSchema(m)
  /\ watchQ' = IF m \in bs.must THEN MarkStale(watchQ, m) ELSE watchQ
  /\ bs' = [bs EXCEPT !.compiling = Extend(@, m,
              [src |-> src[m], ok |-> ~broken[m] /\ m \in disk, deploy |-> m \in bs.must,
               deps |-> [d \in LocalDeps(m) |->
                           IF d \in DOMAIN bs.built THEN bs.built[d] ELSE None]])]
  /\ readSrc' = [readSrc EXCEPT ![m] = src[m]]
  /\ UNCHANGED <<disk, metas, src, broken, edits, ctrl, pull, cschema, changes, publishing, hashes, ranged,
                 loop, didError, didUpdate, deploying, outcome>>

(* Mutant: lastBuildStartTime is also set when the compile returns, so    *)
(* edits saved during the compile look older than the build.              *)
FinishCompileStampsLate(m) ==
  /\ m \in DOMAIN bs.compiling
  /\ LET c == bs.compiling[m] IN
     /\ bs' = [bs EXCEPT !.compiling = Drop(@, m), !.todo = @ \ {m},
                         !.emitted = IF c.ok THEN Extend(@, m, c.src) ELSE @,
                         !.err = @ \/ ~c.ok]
     /\ deploying' = IF c.ok /\ c.deploy
                       THEN deploying \cup {[mod |-> m, art |-> [src |-> c.src, deps |-> c.deps]]}
                       ELSE deploying
     /\ outcome' = IF c.ok THEN outcome ELSE [outcome EXCEPT ![m] = "failed"]
     /\ watchQ' = IF c.deploy THEN MarkStale(watchQ, m) ELSE watchQ
  /\ UNCHANGED <<disk, metas, src, broken, edits, ctrl, pull, cschema, changes, publishing, hashes, ranged,
                 loop, didError, didUpdate, readSrc>>

(* The compile returns: its schema goes on the group's channel and the    *)
(* callback spawns Deploy in buildGroup; or the worker's error goes on    *)
(* errCh.                                                                  *)
FinishCompile(m) ==
  /\ m \in DOMAIN bs.compiling
  /\ LET c == bs.compiling[m] IN
     /\ bs' = [bs EXCEPT !.compiling = Drop(@, m), !.todo = @ \ {m},
                         !.emitted = IF c.ok THEN Extend(@, m, c.src) ELSE @,
                         !.err = @ \/ ~c.ok]
     /\ deploying' = IF c.ok /\ c.deploy
                       THEN deploying \cup {[mod |-> m, art |-> [src |-> c.src, deps |-> c.deps]]}
                       ELSE deploying
     /\ outcome' = IF c.ok THEN outcome ELSE [outcome EXCEPT ![m] = "failed"]
  /\ UNCHANGED <<disk, metas, src, broken, edits, watchQ, ctrl, pull, cschema, changes, publishing, hashes, ranged,
                 loop, didError, didUpdate, readSrc>>

(* wg.Wait() of a group, then its schemas are merged into builtModules    *)
(* and the next group starts.                                             *)
GroupDone ==
  /\ bs.gi <= Len(bs.groups)
  /\ bs.todo = {}
  /\ bs' = [bs EXCEPT !.built = bs.built @@ bs.emitted, !.emitted = NoFun,
                      !.gi = @ + 1,
                      !.todo = IF bs.gi < Len(bs.groups) THEN bs.groups[bs.gi + 1] ELSE {}]
  /\ UNCHANGED <<disk, metas, src, broken, edits, watchQ, ctrl, pull, cschema, changes, publishing, hashes, ranged,
                 loop, didError, didUpdate, deploying, outcome, readSrc>>

(***************************************************************************)
(* A deploy goroutine completes (buildengine.Deploy with                   *)
(* waitForDeployOnline): the controller makes the new deployment the       *)
(* module's active one and streams DEPLOYMENT_ADDED for a module it did   *)
(* not run, DEPLOYMENT_CHANGED otherwise. Or the deploy returns an error.  *)
(***************************************************************************)
DeploySucceeds(d) ==
  /\ d \in deploying
  /\ deploying' = deploying \ {d}
  /\ ctrl' = [ctrl EXCEPT ![d.mod] = d.art]
  /\ pull' = Append(pull, [type |-> IF ctrl[d.mod] = None THEN "ADDED" ELSE "CHANGED",
                           mod |-> d.mod, sch |-> d.art.src])
  /\ outcome' = [outcome EXCEPT ![d.mod] = "ok"]
  /\ UNCHANGED <<disk, metas, src, broken, edits, watchQ, cschema, changes, publishing, hashes, ranged,
                 loop, didError, didUpdate, bs, readSrc>>

DeployFails(d) ==
  /\ DeployMayFail
  /\ d \in deploying
  /\ deploying' = deploying \ {d}
  /\ bs' = [bs EXCEPT !.err = TRUE]
  /\ outcome' = [outcome EXCEPT ![d.mod] = "failed"]
  /\ UNCHANGED <<disk, metas, src, broken, edits, watchQ, ctrl, pull, cschema, changes, publishing, hashes, ranged,
                 loop, didError, didUpdate, readSrc>>

(* Mutant: BuildAndDeploy returns without waiting for buildGroup, so      *)
(* deploy goroutines of one call outlive it.                               *)
FinishBuildAndDeployNoWait ==
  /\ loop \in {"initial", "building"}
  /\ bs.gi > Len(bs.groups)
  /\ loop' = IF loop = "initial" THEN "hashes" ELSE "select"
  /\ didError' = IF loop = "building" /\ bs.err THEN TRUE ELSE didError
  /\ didUpdate' = IF loop = "building" /\ ~bs.err THEN TRUE ELSE didUpdate
  /\ bs' = NoBuild
  /\ UNCHANGED <<disk, metas, src, broken, edits, watchQ, ctrl, pull, cschema, changes, publishing, hashes, ranged,
                 deploying, outcome, readSrc>>

(***************************************************************************)
(* buildGroup.Wait() returns once every group and every deploy is done;   *)
(* the dev loop then reports. After the initial build a failure is only   *)
(* reported; after a later one it also sets didError, and success sets    *)
(* didUpdateDeployments.                                                   *)
(***************************************************************************)
FinishBuildAndDeploy ==
  /\ loop \in {"initial", "building"}
  /\ bs.gi > Len(bs.groups)
  /\ deploying = {}
  /\ loop' = IF loop = "initial" THEN "hashes" ELSE "select"
  /\ didError' = IF loop = "building" /\ bs.err THEN TRUE ELSE didError
  /\ didUpdate' = IF loop = "building" /\ ~bs.err THEN TRUE ELSE didUpdate
  /\ bs' = NoBuild
  /\ UNCHANGED <<disk, metas, src, broken, edits, watchQ, ctrl, pull, cschema, changes, publishing, hashes, ranged,
                 deploying, outcome, readSrc>>
-----------------------------------------------------------------------------
(***************************************************************************)
(* The dev loop.                                                           *)
(***************************************************************************)
(* Initial BuildAndDeploy of every local module.                         *)
StartDev ==
  /\ loop = "start"
  /\ loop' = "initial"
  /\ BeginBuildAndDeploy(Modules, watchQ, metas)
  /\ UNCHANGED <<disk, metas, src, broken, edits, ctrl, pull, cschema, changes, publishing, hashes, ranged,
                 didError, didUpdate, deploying, outcome, readSrc>>

(***************************************************************************)
(* moduleHashes[name] = computeModuleHash(sch) for each entry of           *)
(* controllerSchema.Range. The Range is no snapshot: it visits the keys   *)
(* one at a time while the schema-sync goroutine keeps storing the        *)
(* schemas of the initial deploys, so each module's hash is of whatever   *)
(* it holds when visited (None: absent then). It ends once it has visited *)
(* every module present (ranged is then only scratch, and is cleared);    *)
(* no entry is deleted before the loop selects.                           *)
(* hasher.Write of sha256 never fails, so the error branch is not taken.  *)
(***************************************************************************)
HashModule(m) ==
  /\ loop = "hashes"
  /\ m \notin ranged
  /\ ranged' = ranged \cup {m}
  /\ hashes' = [hashes EXCEPT ![m] = cschema[m]]
  /\ UNCHANGED <<disk, metas, src, broken, edits, watchQ, ctrl, pull, cschema, changes, publishing,
                 loop, didError, didUpdate, bs, deploying, outcome, readSrc>>

InitHashes ==
  /\ loop = "hashes"
  /\ \A m \in Local : cschema[m] # None => m \in ranged
  /\ loop' = "select"
  /\ ranged' = {}
  /\ UNCHANGED <<disk, metas, src, broken, edits, watchQ, ctrl, pull, cschema, changes, publishing, hashes,
                 didError, didUpdate, bs, deploying, outcome, readSrc>>

(* WatchEventModuleChanged: a module without a meta is skipped with a     *)
(* warning, an event older than lastBuildStartTime is skipped; otherwise  *)
(* didError is cleared and the module is rebuilt.                          *)
OnModuleChanged ==
  /\ loop = "select"
  /\ watchQ # <<>> /\ Head(watchQ).kind = "changed"
  /\ LET ev == Head(watchQ) IN
     \/ /\ ev.mod \notin metas \/ ev.stale
        /\ watchQ' = Tail(watchQ)
        /\ UNCHANGED <<loop, didError, bs>>
     \/ /\ ev.mod \in metas /\ ~ev.stale
        /\ loop' = "building"
        /\ didError' = FALSE
        /\ BeginBuildAndDeploy({ev.mod}, Tail(watchQ), metas)
  /\ UNCHANGED <<disk, metas, src, broken, edits, ctrl, pull, cschema, changes, publishing, hashes, ranged,
                 didUpdate, deploying, outcome, readSrc>>

(* WatchEventModuleAdded: a module with no meta gets one and is built and *)
(* deployed on its own, like a changed module; an existing meta makes the *)
(* event a no-op.                                                          *)
OnModuleAdded ==
  /\ loop = "select"
  /\ watchQ # <<>> /\ Head(watchQ).kind = "added"
  /\ LET m == Head(watchQ).mod IN
     \/ /\ m \in metas
        /\ watchQ' = Tail(watchQ)
        /\ UNCHANGED <<metas, loop, didError, bs>>
     \/ /\ m \notin metas
        /\ metas' = metas \cup {m}
        /\ loop' = "building"
        /\ didError' = FALSE
        /\ BeginBuildAndDeploy({m}, Tail(watchQ), metas \cup {m})
  /\ UNCHANGED <<disk, src, broken, edits, ctrl, pull, cschema, changes, publishing, hashes, ranged,
                 didUpdate, deploying, outcome, readSrc>>

(***************************************************************************)
(* terminateModuleDeployment: the controller scales the module's active    *)
(* deployment to zero and drops it, streaming DEPLOYMENT_REMOVED when there *)
(* was one; or the RPC fails and nothing changes.                           *)
(***************************************************************************)
Terminate(m) ==
  /\ ctrl' = [ctrl EXCEPT ![m] = None]
  /\ pull' = IF ctrl[m] # None THEN Append(pull, [type |-> "REMOVED", mod |-> m, sch |-> None])
                               ELSE pull

(* Mutant: the removed module's meta is dropped without terminating it.  *)
OnModuleRemovedNoTerminate ==
  /\ loop = "select"
  /\ watchQ # <<>> /\ Head(watchQ).kind = "removed"
  /\ watchQ' = Tail(watchQ)
  /\ metas' = metas \ {Head(watchQ).mod}
  /\ didUpdate' = TRUE
  /\ UNCHANGED <<disk, src, broken, edits, ctrl, pull, cschema, changes, publishing, hashes, ranged, loop,
                 didError, bs, deploying, outcome, readSrc>>

(* WatchEventModuleRemoved: terminate the deployment (an error sets        *)
(* didError, success didUpdateDeployments), then delete the meta whatever *)
(* the outcome.                                                            *)
OnModuleRemoved ==
  /\ loop = "select"
  /\ watchQ # <<>> /\ Head(watchQ).kind = "removed"
  /\ watchQ' = Tail(watchQ)
  /\ metas' = metas \ {Head(watchQ).mod}
  /\ \/ /\ Terminate(Head(watchQ).mod)
        /\ didUpdate' = TRUE
        /\ UNCHANGED didError
     \/ /\ TerminateMayFail
        /\ didError' = TRUE
        /\ UNCHANGED <<ctrl, pull, didUpdate>>
  /\ UNCHANGED <<disk, src, broken, edits, cschema, changes, publishing, hashes, ranged, loop,
                 bs, deploying, outcome, readSrc>>

(* Mutant: a changed schema is recorded but its dependents are not rebuilt. *)
OnSchemaChangeIgnoresDependents ==
  /\ loop = "select"
  /\ changes # <<>>
  /\ changes' = Tail(changes)
  /\ LET ch == Head(changes) IN
     \/ /\ ch.type # "CHANGED" \/ ch.sch = hashes[ch.mod]
        /\ UNCHANGED hashes
     \/ /\ ch.type = "CHANGED" /\ ch.sch # hashes[ch.mod]
        /\ hashes' = [hashes EXCEPT ![ch.mod] = ch.sch]
  /\ UNCHANGED <<disk, metas, src, broken, edits, ctrl, pull, cschema, publishing, ranged, didUpdate, loop, didError,
                 watchQ, bs, deploying, outcome, readSrc>>

(* A schema change: only DEPLOYMENT_CHANGED is looked at; an unchanged    *)
(* hash is ignored; otherwise the hash is recorded and the direct         *)
(* dependents, if any, are rebuilt.                                        *)
OnSchemaChange ==
  /\ loop = "select"
  /\ changes # <<>>
  /\ changes' = Tail(changes)
  /\ LET ch == Head(changes) IN
     \/ /\ ch.type # "CHANGED" \/ ch.sch = hashes[ch.mod]
        /\ UNCHANGED <<hashes, ranged, loop, didError, watchQ, bs>>
     \/ /\ ch.type = "CHANGED" /\ ch.sch # hashes[ch.mod]
        /\ hashes' = [hashes EXCEPT ![ch.mod] = ch.sch]
        /\ \/ /\ Dependents(ch.mod) = {}
              /\ UNCHANGED <<loop, didError, watchQ, bs>>
           \/ /\ Dependents(ch.mod) # {}
              /\ loop' = "building"
              /\ didError' = FALSE
              /\ BeginBuildAndDeploy(Dependents(ch.mod), watchQ, metas)
  /\ UNCHANGED <<disk, metas, src, broken, edits, ctrl, pull, cschema, publishing, ranged, didUpdate,
                 deploying, outcome, readSrc>>

(* completedUpdatesTimer: two poll periods after a successful update the  *)
(* loop reports success unless didError.                                   *)
OnQuiescenceTimer ==
  /\ loop = "select"
  /\ didUpdate
  /\ didUpdate' = FALSE
  /\ UNCHANGED <<disk, metas, src, broken, edits, watchQ, ctrl, pull, cschema, changes, publishing, hashes, ranged,
                 loop, didError, bs, deploying, outcome, readSrc>>

(* Mutant: a non-blocking send drops the change when the channel is full. *)
PublishDropsWhenFull(ch) ==
  /\ changes' = IF Len(changes) < ChanCap THEN Append(changes, ch) ELSE changes
  /\ publishing' = None

(* Publish on schemaChanges: the send blocks while the subscriber's       *)
(* channel is full.                                                        *)
Publish(ch) ==
  IF Len(changes) < ChanCap
    THEN changes' = Append(changes, ch) /\ publishing' = None
    ELSE publishing' = ch /\ UNCHANGED changes

(* The schema-sync callback: for DEPLOYMENT_ADDED / _CHANGED store the    *)
(* module schema in controllerSchema, for DEPLOYMENT_REMOVED delete it     *)
(* (sch is None); then publish the change. The stream is not read again  *)
(* until the callback returns.                                             *)
SyncSchema ==
  /\ publishing = None
  /\ pull # <<>>
  /\ pull' = Tail(pull)
  /\ cschema' = [cschema EXCEPT ![Head(pull).mod] = Head(pull).sch]
  /\ Publish(Head(pull))
  /\ UNCHANGED <<disk, metas, src, broken, edits, watchQ, ctrl, hashes, ranged, loop, didError,
                 didUpdate, bs, deploying, outcome, readSrc>>

(* The blocked send completes once the dev loop has taken a change.      *)
PublishBlocked ==
  /\ publishing # None
  /\ Publish(publishing)
  /\ UNCHANGED <<disk, metas, src, broken, edits, watchQ, ctrl, pull, cschema, hashes, ranged, loop,
                 didError, didUpdate, bs, deploying, outcome, readSrc>>
-----------------------------------------------------------------------------
Worker ==
  \E m \in DOMAIN Deps \cup {Builtin} :
    \/ EmitControllerSchema(m) \/ SkipBuild(m) \/ StartCompile(m) \/ FinishCompile(m)

System ==
  \/ Worker
  \/ GroupDone
  \/ \E d \in deploying : DeploySucceeds(d) \/ DeployFails(d)
  \/ FinishBuildAndDeploy
  \/ StartDev \/ (\E m \in Local : HashModule(m)) \/ InitHashes \/ OnModuleChanged \/ OnSchemaChange \/ OnQuiescenceTimer
  \/ OnModuleAdded \/ OnModuleRemoved
  \/ SyncSchema \/ PublishBlocked

Next == System \/ \E m \in Local : Edit(m) \/ RemoveModule(m) \/ AddModule(m)

(* Every goroutine is runnable whenever it has work: the Go scheduler     *)
(* and the buffered channels give weak fairness to the system steps; the  *)
(* developer's edits get none.                                             *)
Spec == Init /\ [][Next]_vars /\ WF_vars(System)
-----------------------------------------------------------------------------
TypeOK ==
  /\ src \in [Local -> Version] /\ broken \in [Local -> BOOLEAN]
  /\ edits \in 0..MaxEdits
  /\ disk \subseteq Local /\ metas \subseteq Local
  /\ watchQ \in Seq([kind : {"added", "changed", "removed"}, mod : Local, ver : Version,
                     stale : BOOLEAN])
  /\ \A m \in Local : ctrl[m] \in Art(m) \cup {None}
  /\ pull \in Seq([type : {"ADDED", "CHANGED", "REMOVED"}, mod : Local, sch : Version \cup {None}])
  /\ changes \in Seq([type : {"ADDED", "CHANGED", "REMOVED"}, mod : Local, sch : Version \cup {None}])
  /\ publishing \in [type : {"ADDED", "CHANGED", "REMOVED"}, mod : Local, sch : Version \cup {None}]
                    \cup {None}
  /\ cschema \in [Local -> Version \cup {None}]
  /\ hashes \in [Local -> Version \cup {None}] /\ ranged \subseteq Local
  /\ loop \in {"start", "initial", "hashes", "select", "building"}
  /\ didError \in BOOLEAN /\ didUpdate \in BOOLEAN
  /\ bs.todo \subseteq Local \cup {Builtin} /\ bs.must \subseteq Local
  /\ \A d \in deploying : d.mod \in Local /\ d.art \in Art(d.mod)
  /\ outcome \in [Local -> {"none", "ok", "failed"}]

(* Edits are never lost by the stale-event check: when the dev loop drops *)
(* a ModuleChanged event as older than lastBuildStartTime, a compile of   *)
(* that module has already read the edited source (tryBuild sets the      *)
(* build start time before the compiler reads the files).                 *)
NoLostEdit ==
  [][ (/\ loop = "select" /\ watchQ # <<>> /\ Head(watchQ).kind = "changed"
       /\ Head(watchQ).mod \in metas /\ Head(watchQ).stale
       /\ watchQ' = Tail(watchQ))
      => readSrc[Head(watchQ).mod] >= Head(watchQ).ver ]_vars

(* The controller never replaces a module's deployment by an older build: *)
(* deploys of successive BuildAndDeploy calls complete in the order they  *)
(* were started, though each runs in its own goroutine. (A terminate       *)
(* drops the deployment rather than replacing it.)                         *)
DeploysInOrder ==
  [][ \A m \in Local :
        ctrl[m] # None /\ ctrl'[m] \notin {None, ctrl[m]} => ctrl'[m].src >= ctrl[m].src ]_ctrl

(* A deployment is only ever made of a build whose dependencies were all *)
(* built in the same run: tryBuild skips a module with a dependency        *)
(* missing from builtModules instead of compiling it against a nil schema. *)
DeployedWithDeps ==
  /\ \A m \in Local : ctrl[m] # None => \A d \in LocalDeps(m) : ctrl[m].deps[d] # None
  /\ \A x \in deploying : \A d \in LocalDeps(x.mod) : x.art.deps[d] # None

(* Spec section 8, invariant 5: a build of a module starts only after each *)
(* of its dependencies was built in this run or was already in            *)
(* controllerSchema (either way it is in builtModules).                   *)
BuildOrder == \A m \in DOMAIN bs.compiling : LocalDeps(m) \subseteq DOMAIN bs.built

(* The Listener contract: OnBuildSuccess "is called when all modules have  *)
(* been built successfully and deployed". The dev loop reports success    *)
(* after the initial BuildAndDeploy returns no error, and when the         *)
(* quiescence timer fires with didError unset.                             *)
ReportsSuccess ==
  \/ loop = "initial" /\ loop' = "hashes" /\ ~bs.err
  \/ loop = "select" /\ didUpdate /\ ~didUpdate' /\ ~didError

SuccessMeansAllBuilt ==
  [][ReportsSuccess => \A m \in Local : outcome[m] # "failed"]_vars

(* Every module on disk has as active deployment its current source,     *)
(* built against the current source of each dependency.                    *)
UpToDate ==
  \A m \in disk :
    /\ ctrl[m] # None
    /\ ctrl[m].src = src[m]
    /\ \A d \in LocalDeps(m) : ctrl[m].deps[d] = src[d]

(* Dev "builds and deploys all local modules and watches for changes,     *)
(* redeploying as necessary": once the developer stops editing, and every *)
(* source compiles, the loop ends with every module deployed up to date.  *)
Convergence == <>[]((\A m \in Local : ~broken[m]) => UpToDate)

(* A deleted module stops running: once its directory is gone the dev    *)
(* loop terminates its deployment (and nothing redeploys it) unless the    *)
(* developer re-creates it.                                               *)
RemovedUndeployed ==
  \A m \in Removable : m \notin disk ~> (m \in disk \/ ctrl[m] = None)
==============================================================================
