------------------------------ MODULE Endpoint ------------------------------
(***************************************************************************)
(* In-process JSON-RPC dispatch: which method of a controller a request    *)
(* reaches, whether the controller's code runs, and what is answered.      *)
(*                                                                         *)
(* A dotted name (a controller name, a JSON-RPC method) is the sequence of *)
(* its dot-free segments: "math.calc.add" is <<"math", "calc", "add">>.    *)
(* The correspondence is one to one, so prefix tests on strings that end   *)
(* in a dot are prefix tests on sequences.                                 *)
(*                                                                         *)
(* A controller is a record                                                *)
(*   name    its controller_name, as segments                              *)
(*   members what dir() lists, in that order; each member records          *)
(*     name, public (no leading underscore), callable,                     *)
(*     params, result  "model" when the type hint is a Pydantic model      *)
(*     accepts  the params values its params model validates               *)
(*     details  "plain", or "opaque" when rejected params end in an        *)
(*              exception: the validation errors hold an object that JSON  *)
(*              cannot encode, or the validation raises something else     *)
(*     body     "returns", "raises", or "opaque": returns a value that     *)
(*              JSON cannot encode                                         *)
(***************************************************************************)
EXTENDS Naturals, Sequences, SequencesExt

CONSTANT None     \* Python's None: a missing id, request, reply or result

(* The outcomes of a dispatch, under the names of the source.              *)
OK               == "OK"
PARSE_ERROR      == "PARSE_ERROR"
METHOD_NOT_FOUND == "METHOD_NOT_FOUND"
INVALID_PARAMS   == "INVALID_PARAMS"
INTERNAL_ERROR   == "INTERNAL_ERROR"

Codes == {OK, PARSE_ERROR, METHOD_NOT_FOUND, INVALID_PARAMS, INTERNAL_ERROR}

-----------------------------------------------------------------------------
(* Introspection *)

IsRpcMethod(member) ==
  /\ member.public
  /\ member.callable
  /\ member.params = "model"
  /\ member.result = "model"

(* The positions of the methods among the members.                         *)
IterRpcMethods(ctl) == {i \in DOMAIN ctl.members : IsRpcMethod(ctl.members[i])}

(* The method names a descriptor, and the rpc.methods attribute, announce. *)
DescribeController(ctl) ==
  {Append(ctl.name, ctl.members[i].name) : i \in IterRpcMethods(ctl)}

-----------------------------------------------------------------------------
(* Dispatch.  A dispatch yields the response's id and code, whether the    *)
(* controller's function ran, and whether the response can be encoded; one *)
(* that cannot leaves handle_bytes as an exception.                        *)

Dispatched(id, code, runs, encodes) ==
  [id |-> id, code |-> code, runs |-> runs, encodes |-> encodes]

(* A deliberately wrong variant: the params are validated by the call.     *)
InvokeUnvalidated(binding, request) ==
  IF request.params \notin binding.accepts
    THEN Dispatched(request.id, INVALID_PARAMS, TRUE, binding.details = "plain")
  ELSE IF binding.body = "raises"
    THEN Dispatched(request.id, INTERNAL_ERROR, TRUE, TRUE)
  ELSE Dispatched(request.id, OK, TRUE, binding.body = "returns")

Invoke(binding, request) ==
  IF request.params \notin binding.accepts
    THEN Dispatched(request.id, INVALID_PARAMS, FALSE, binding.details = "plain")
  ELSE IF binding.body = "raises"
    THEN Dispatched(request.id, INTERNAL_ERROR, TRUE, TRUE)
  ELSE Dispatched(request.id, OK, TRUE, binding.body = "returns")

(* The part of the method after "<controller_name>.".                      *)
LocalName(ctl, method) == SubSeq(method, Len(ctl.name) + 1, Len(method))

(* The methods that the dispatch loop does not skip.                       *)
Matches(ctl, method) ==
  {i \in IterRpcMethods(ctl) : <<ctl.members[i].name>> = LocalName(ctl, method)}

First(positions) == CHOOSE i \in positions : \A j \in positions : i <= j

(* Deliberately wrong variants: a method is found by its last segment      *)
(* only; a failure that finds no method forgets the request's id.          *)
HandleBySuffix(ctl, request) ==
  LET named == {i \in IterRpcMethods(ctl) : ctl.members[i].name = Last(request.method)}
  IN  IF named = {}
        THEN Dispatched(request.id, METHOD_NOT_FOUND, FALSE, TRUE)
      ELSE Invoke(ctl.members[First(named)], request)

HandleForgetsId(ctl, request) ==
  IF ~IsStrictPrefix(ctl.name, request.method) \/ Matches(ctl, request.method) = {}
    THEN Dispatched(None, METHOD_NOT_FOUND, FALSE, TRUE)
  ELSE Invoke(ctl.members[First(Matches(ctl, request.method))], request)

Handle(ctl, request) ==
  IF ~IsStrictPrefix(ctl.name, request.method)
    THEN Dispatched(request.id, METHOD_NOT_FOUND, FALSE, TRUE)
  ELSE IF Matches(ctl, request.method) = {}
    THEN Dispatched(request.id, METHOD_NOT_FOUND, FALSE, TRUE)
  ELSE Invoke(ctl.members[First(Matches(ctl, request.method))], request)

HandleBytes(ctl, raw) ==
  IF ~raw.parses
    THEN Dispatched(None, PARSE_ERROR, FALSE, TRUE)
  ELSE Handle(ctl, raw)

=============================================================================
