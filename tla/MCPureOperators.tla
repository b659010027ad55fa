--------------------------- MODULE MCPureOperators ---------------------------
(***************************************************************************)
(* One run for the operators of the project that translate code with no   *)
(* state of its own, each checked against what is required of it over     *)
(* every input of a small domain:                                         *)
(*  - GraphOf of ModuleGraph, over every dependency graph that edits      *)
(*    reach (MCModuleGraph);                                               *)
(*  - call of VerbCall, over every outcome of its steps.                   *)
(* An input of call is chosen in the initial state; the edits of the      *)
(* graphs run while it is the plain one, so the two families add up      *)
(* rather than multiply.                                                   *)
(***************************************************************************)
EXTENDS VerbCall

CONSTANTS Builtin, Local, Remote, Shadowed

VARIABLES
  metaDeps, imports,  \* the graph sources of MCModuleGraph
  callIn              \* the outcomes of the steps of one call

G == INSTANCE MCModuleGraph

(* A call whose every step succeeds, through the controller. *)
PlainCall == [marshal |-> "none", lookup |-> "none", behavior |-> "standard",
              mockErr |-> "none", mockResp |-> "Resp", rpc |-> "none",
              response |-> "body", decode |-> "none"]

Init ==
  /\ G!Init
  /\ callIn \in CallInputs

Next ==
  /\ callIn = PlainCall
  /\ G!Next
  /\ UNCHANGED callIn

Spec == Init /\ [][Next]_<<metaDeps, imports, callIn>>
-----------------------------------------------------------------------------
(* Graph resolves exactly the modules reachable from the requested ones,  *)
(* local configuration taking precedence over the controller's schema.   *)
GraphIsReachableClosure == G!GraphIsReachableClosure

(* Spec section 7, propagation, for call: a call returns the response     *)
(* only when every step on its path succeeded; otherwise every error it   *)
(* returns starts with the callee's ref, and an error raised in the       *)
(* caller's process (marshalling, the behaviour lookup, a mock, the       *)
(* transport, decoding) keeps the kind errors.Is finds in it, the first   *)
(* such error deciding; the callee's own error, which crosses the wire as *)
(* text, and a mock's response of the wrong type are opaque. It panics    *)
(* only for the reserved DirectBehavior or an unknown behaviour or        *)
(* response variant.                                                       *)
FirstCause(in) ==
  CASE in.marshal # "none"                       -> in.marshal
    [] in.lookup # "none"                        -> in.lookup
    [] in.behavior = "mock" /\ in.mockErr # "none" -> in.mockErr
    [] in.behavior = "standard" /\ in.rpc # "none" -> in.rpc
    [] in.behavior = "standard" /\ in.response = "body" /\ in.decode # "none" -> in.decode
    [] OTHER                                     -> "none"

Reserved(in) ==
  \/ in.behavior \in {"direct", "unknown"}
  \/ in.behavior = "standard" /\ in.rpc = "none" /\ in.response = "unknown"

CallKeepsErrorKind ==
  LET r == call(callIn)
      c == FirstCause(callIn)
  IN  /\ (r.outcome = "panic") <=> (c = "none" /\ Reserved(callIn))
      /\ r.outcome = "error" => r.named /\ r.kind = IF c # "none" THEN c ELSE "opaque"
      /\ (r.outcome = "resp") =>
           /\ c = "none"
           /\ \/ callIn.behavior = "mock" /\ callIn.mockResp = "Resp"
              \/ callIn.behavior = "standard" /\ callIn.response = "body"
==============================================================================
