------------------------------ MODULE Dispatch ------------------------------
(***************************************************************************)
(* One request, dispatched by one controller through handle_bytes, and     *)
(* what must be true of the answer.                                        *)
(***************************************************************************)
EXTENDS Endpoint

CONSTANTS
  Segments,      \* the parts of dotted names
  Controllers,   \* the controllers that may be served, as in Endpoint
  RawRequests    \* what may arrive: [parses, id, method, params]

(* Names are sequences of segments, a member's is one; members come in an  *)
(* order.                                                                  *)
ASSUME DispatchAssumption ==
  /\ \A c \in Controllers :
       /\ c.name \in Seq(Segments)
       /\ c.members \in Seq(Range(c.members))
       /\ \A i \in DOMAIN c.members : c.members[i].name \in Segments
  /\ \A r \in RawRequests : r.parses \in BOOLEAN /\ r.method \in Seq(Segments)

VARIABLES
  ctl,   \* the controller behind the endpoint
  raw,   \* the bytes that arrive
  out    \* the dispatch of raw by ctl, None before it

vars == <<ctl, raw, out>>

Init ==
  /\ ctl \in Controllers
  /\ raw \in RawRequests
  /\ out = None

Serve ==
  /\ out = None
  /\ out' = HandleBytes(ctl, raw)
  /\ UNCHANGED <<ctl, raw>>

Spec == Init /\ [][Serve]_vars

Handled == out # None

-----------------------------------------------------------------------------
(* Properties *)

(* What is announced is what is served: a request is answered "method not  *)
(* found" exactly when its method is not in the descriptor.  The           *)
(* descriptor prepends the controller's name, the dispatch strips it, and  *)
(* names with dots, empty parts or hidden members must not make the two    *)
(* differ.                                                                 *)
DescriptorMatchesDispatch ==
  Handled /\ raw.parses =>
    (out.code = METHOD_NOT_FOUND <=> raw.method \notin DescribeController(ctl))

(* The controller's code runs only for a public, fully typed member named  *)
(* by the whole method, and only on params that its model accepts: a       *)
(* hidden or untyped member is never run, nor is anything run on rejected  *)
(* params.                                                                 *)
RunsOnlyAdmitted ==
  Handled /\ out.runs =>
    \E i \in DOMAIN ctl.members :
      LET m == ctl.members[i]
      IN  /\ m.public /\ m.callable
          /\ m.params = "model" /\ m.result = "model"
          /\ raw.method = ctl.name \o <<m.name>>
          /\ raw.params \in m.accepts

(* The code tells what happened: a dispatch that ends in OK or INTERNAL_   *)
(* ERROR ran the controller, every other one did not, and only a request   *)
(* that cannot be parsed is answered without its id.                       *)
CodeTellsTheEffect ==
  Handled =>
    /\ out.runs <=> out.code \in {OK, INTERNAL_ERROR}
    /\ out.id = IF raw.parses THEN raw.id ELSE None

=============================================================================
