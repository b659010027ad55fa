------------------------------- MODULE VerbCall -------------------------------
(***************************************************************************)
(* The Go runtime's verb call (go-runtime/ftl/call.go): call marshals the *)
(* request, asks the module context how the callee behaves, and then      *)
(* returns a mock's answer, or calls the verb through the controller's    *)
(* VerbService and decodes its response.                                   *)
(*                                                                         *)
(* Data abstraction: every step that can fail is given as the kind of its *)
(* error, or "none": a kind is what errors.Is finds in the error, a DAL   *)
(* sentinel or "opaque". The request and response values are left out;   *)
(* a mock's response is only of the verb's response type or not. An      *)
(* outcome is a response, an error (its kind, and whether its message     *)
(* starts with the callee's ref) or a panic.                              *)
(***************************************************************************)
EXTENDS DALErrors

Causes == {"none", "notFound", "opaque"}

CallInputs ==
  [marshal : Causes,                 \* encoding.Marshal(req)
   lookup : Causes,                  \* BehaviorForVerb(callee)
   behavior : {"mock", "direct", "standard", "unknown"},
   mockErr : Causes,                 \* behavior.Mock(ctx, req)
   mockResp : {"Resp", "other"},     \* dynamic type of the mock's response
   rpc : Causes,                     \* client.Call(ctx, ...)
   response : {"error", "body", "unknown"},  \* variant of CallResponse
   decode : Causes]                  \* encoding.Unmarshal(body, &resp)

Resp == [outcome |-> "resp", kind |-> "none", named |-> FALSE]
Panic == [outcome |-> "panic", kind |-> "none", named |-> FALSE]
(* fmt.Errorf("%s: ...: %w", callee, err): the callee named, the kind kept. *)
Wrap(k) == [outcome |-> "error", kind |-> k, named |-> TRUE]
(* fmt.Errorf("%s: %s", callee, ...) of a new message: no kind to keep.   *)
Named == [outcome |-> "error", kind |-> "opaque", named |-> TRUE]

(* Mutant: the mock's error is formatted with %v, losing its kind.       *)
MockOutcomeUnwrapped(in) ==
  IF in.mockErr # "none" THEN Named
  ELSE IF in.mockResp = "Resp" THEN Resp ELSE Named

(* A mock's error is returned wrapped; a response of the wrong type is an *)
(* error of its own ("overridden verb had invalid response type").        *)
MockOutcome(in) ==
  IF in.mockErr # "none" THEN Wrap(in.mockErr)
  ELSE IF in.mockResp = "Resp" THEN Resp ELSE Named

(* The callee's own error arrives as a message (CallResponse_Error_) and *)
(* is returned as text; a body that fails to decode is a wrapped error;  *)
(* any other variant panics.                                              *)
StandardOutcome(in) ==
  IF in.rpc # "none" THEN Wrap(in.rpc)
  ELSE CASE in.response = "error" -> Named
         [] in.response = "body"  -> IF in.decode # "none" THEN Wrap(in.decode) ELSE Resp
         [] OTHER                 -> Panic

(* call: the early returns in order, then the switch on the behaviour;   *)
(* DirectBehavior is not implemented and panics, as does a behaviour of  *)
(* any other type.                                                         *)
call(in) ==
  IF in.marshal # "none" THEN Wrap(in.marshal)
  ELSE IF in.lookup # "none" THEN Wrap(in.lookup)
  ELSE CASE in.behavior = "mock"     -> MockOutcome(in)
         [] in.behavior = "standard" -> StandardOutcome(in)
         [] OTHER                    -> Panic
==============================================================================
