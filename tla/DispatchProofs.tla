--------------------------- MODULE DispatchProofs ---------------------------
(***************************************************************************)
(* Proofs about Dispatch, for any controllers and requests.                *)
(***************************************************************************)
EXTENDS Dispatch, EndpointProofs

(* handle_bytes, whatever the controller and whatever arrives.             *)
LEMMA Serving ==
  ASSUME NEW c \in Controllers, NEW r \in RawRequests, NEW d, d = HandleBytes(c, r)
  PROVE  /\ r.parses => (d.code = METHOD_NOT_FOUND <=> r.method \notin DescribeController(c))
         /\ d.runs =>
              \E i \in DOMAIN c.members :
                /\ IsRpcMethod(c.members[i])
                /\ r.method = c.name \o <<c.members[i].name>>
                /\ r.params \in c.members[i].accepts
         /\ d.runs <=> d.code \in {OK, INTERNAL_ERROR}
         /\ d.id = IF r.parses THEN r.id ELSE None
<1>1. r.parses \in BOOLEAN /\ r.method \in Seq(Segments) /\ Named(c, Segments)
  BY DispatchAssumption DEF Named
<1>2. CASE ~r.parses
  <2>1. d = Dispatched(None, PARSE_ERROR, FALSE, TRUE)
    BY <1>2 DEF HandleBytes
  <2>2. d.id = None /\ d.code = PARSE_ERROR /\ d.runs = FALSE
    BY <2>1 DEF Dispatched
  <2> QED
    BY <1>2, <2>2, CodesDiffer
<1>3. CASE r.parses
  <2>1. d = Handle(c, r)
    BY <1>3 DEF HandleBytes
  <2> QED
    BY <1>1, <1>3, <2>1, Dispatching
<1> QED
  BY <1>1, <1>2, <1>3

(* Nothing is answered but what handle_bytes returns.                      *)
IInv ==
  /\ ctl \in Controllers
  /\ raw \in RawRequests
  /\ out \in {None, HandleBytes(ctl, raw)}

(* Before the request there is no answer, and after it this one.           *)
LEMMA Invariance == Spec => []IInv
<1>1. Init => IInv
  BY DEF Init, IInv
<1>2. IInv /\ [Serve]_vars => IInv'
  BY DEF IInv, Serve, vars
<1> QED
  BY <1>1, <1>2, PTL DEF Spec

(* Descriptor and dispatch agree on every name, for any controller and any *)
(* request.                                                                *)
THEOREM AnnouncedIsServed == Spec => []DescriptorMatchesDispatch
<1>1. IInv => DescriptorMatchesDispatch
  BY Serving DEF IInv, DescriptorMatchesDispatch, Handled
<1> QED
  BY <1>1, Invariance, PTL

(* No hidden or untyped member is ever run, and nothing on params that its *)
(* model rejects.                                                          *)
THEOREM OnlyAdmittedRun == Spec => []RunsOnlyAdmitted
<1>1. IInv => RunsOnlyAdmitted
  <2> SUFFICES ASSUME IInv, Handled, out.runs
               PROVE  \E i \in DOMAIN ctl.members :
                        /\ IsRpcMethod(ctl.members[i])
                        /\ raw.method = ctl.name \o <<ctl.members[i].name>>
                        /\ raw.params \in ctl.members[i].accepts
    BY DEF RunsOnlyAdmitted, IsRpcMethod
  <2> QED
    BY Serving DEF IInv, Handled
<1> QED
  BY <1>1, Invariance, PTL

(* The code of every answer tells whether the controller ran.              *)
THEOREM CodesAreTrue == Spec => []CodeTellsTheEffect
<1>1. IInv => CodeTellsTheEffect
  BY Serving DEF IInv, CodeTellsTheEffect, Handled
<1> QED
  BY <1>1, Invariance, PTL

=============================================================================
