------------------------------ MODULE Answers -------------------------------
(***************************************************************************)
(* One HTTP request, answered over one registry snapshot, and what must be *)
(* true of the answer.                                                     *)
(***************************************************************************)
EXTENDS Routes

CONSTANTS
  Segments,    \* the parts of dotted names
  Services,    \* the services that a registry may hold, as in Routes
  Snapshots,   \* the snapshots that may be in use
  Requests     \* what may arrive: [verb, path, service, method, params]

(* Names are sequences of segments, a member's is one; members come in an  *)
(* order.                                                                  *)
ASSUME ServiceAssumption ==
  \A s \in Services :
    /\ s # None /\ s.service # None
    /\ s.controller.name \in Seq(Segments)
    /\ s.controller.members \in Seq(Range(s.controller.members))
    /\ \A i \in DOMAIN s.controller.members : s.controller.members[i].name \in Segments

(* Discovery lists an rpc endpoint once.                                   *)
ASSUME SnapshotAssumption ==
  \A ss \in Snapshots :
    /\ ss \in Seq(Services)
    /\ \A i, j \in DOMAIN ss : RpcEndpoint(ss[i]) = RpcEndpoint(ss[j]) => i = j

ASSUME RequestAssumption ==
  \A r \in Requests :
    /\ r # None
    /\ r.verb \in {"GET", "POST"}
    /\ r.path \in Seq(Seq(Segments))
    /\ r.method \in Seq(Segments) \cup {None}

VARIABLES
  services,  \* the registry snapshot
  req,       \* the request, None before it
  out        \* its answer

vars == <<services, req, out>>

Init ==
  /\ services \in Snapshots
  /\ req = None
  /\ out = None

Serve ==
  /\ req = None
  /\ req' \in Requests
  /\ out' = Respond(services, req')
  /\ UNCHANGED services

Spec == Init /\ [][Serve]_vars

-----------------------------------------------------------------------------

Present == Range(services)

(* The request is for this URL and names this service.                     *)
Asks(url, s) == req # None /\ URL(req.verb, req.path) = url /\ req.service = s.service

(* The answer is that of s to a call of its method m.                      *)
Reaches(s, m) ==
  /\ out.outcome.service = s
  /\ out.outcome.method = m
  /\ out.outcome.code # METHOD_NOT_FOUND

-----------------------------------------------------------------------------
(* Properties *)

(* The URLs that fixed routes take from a controller's own.                *)
Taken(url) ==
  \/ url.path[2] = <<"refresh">> /\ Len(url.path) = 2
  \/ url.verb = "GET" /\ url.path[Len(url.path)] \in {<<"methods">>, <<"schema">>}
  \/ url.verb = "POST" /\ url.path[Len(url.path)] = <<"rpc">>

(* A route that /controllers lists for a loaded service leads to just this *)
(* service's method or description if the request names the service:       *)
(* through the order of the table, the lookup by two names, the rebuilt    *)
(* method name and the dispatch, for dotted controllers and for those that *)
(* share a name.  A route that /openapi.json documents, requested as it is *)
(* documented, without a service, leads to the documented method, or, when *)
(* services share the controller's name, nowhere.  The URLs that fixed     *)
(* routes take are the exceptions, and the only ones.                      *)
ListedRoutesLead ==
  /\ \A s \in Present : s.described =>
       /\ \A url \in MethodRoutes(s) : Asks(url, s) /\ ~Taken(url) =>
            Reaches(s, s.controller.name \o url.path[3])
       /\ Asks(SchemaRoute(s), s) /\ ~Taken(SchemaRoute(s)) => out.outcome.service = s
  /\ req # None /\ req.service = None =>
       LET documented == Documented(services, URL(req.verb, req.path))
       IN  documented # {} /\ ~Taken(URL(req.verb, req.path)) =>
             IF Cardinality(MatchingServices(services, req.path[2], None)) = 1
               THEN Reaches(services[Max(documented)], req.path[2] \o req.path[3])
               ELSE out.outcome.service = None /\ out.status = 404

(* The fixed subpaths, asked for with the verb they are registered for,    *)
(* lead to what they are for, also when the controller has methods of      *)
(* these names.                                                            *)
FixedPathsStay ==
  \A s \in Present :
    LET sub(word) == <<Controllers, s.controller.name, <<word>> >>
    IN  /\ Asks(URL("GET", sub("methods")), s) => out.handler = "controller_methods"
        /\ Asks(URL("GET", sub("schema")), s) => out.handler = "controller_detail"
        /\ Asks(RpcRoute(s), s) => out.handler = "controller_rpc"

(* No method is out of reach: whatever it is called, and whatever the      *)
(* controller is (each a segment of the URL, without a slash), the alias   *)
(* under /methods/ calls it.                                               *)
AliasAlwaysLeads ==
  \A s \in Present, verb \in {"GET", "POST"} : s.described =>
    \A m \in Methods(s) :
      Asks(URL(verb, <<Controllers, s.controller.name, <<"methods">>, <<Last(m)>> >>), s) =>
        Reaches(s, m)

(* "If multiple services expose the same JSON-RPC method, call by endpoint *)
(* instead": each of them is reached so, and /rpc never picks one.         *)
AmbiguityResolved ==
  req # None /\ out.handler = "rpc" =>
    LET matches == FindByMethod(services, req.method)
        Called(s) == CallEndpoint(services, RpcEndpoint(s), req.method, req.params)
    IN  /\ out.outcome.service # None =>
             \E i \in matches : matches = {i} /\ out.outcome.service = services[i]
        /\ \A i \in matches : services[i].described =>
             Called(services[i]).service = services[i]

(* A method route's status tells what happened: 200 that the method ran    *)
(* and returned, 404 and 422 that it did not run; any other status stands  *)
(* for a failure that leaves this open.                                    *)
StatusTellsTheEffect ==
  req # None /\ out.handler \in {"get_method", "post_method"} =>
    /\ out.status = 200 <=> out.outcome.runs /\ out.outcome.code = OK
    /\ out.status \in {404, 422} <=> ~out.outcome.runs /\ out.outcome.code # INTERNAL_ERROR

=============================================================================
