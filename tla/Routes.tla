------------------------------- MODULE Routes -------------------------------
(***************************************************************************)
(* What an HTTP request of examples/webapi.py reaches: the route table in  *)
(* its order, the choice of a service in one registry snapshot, the call   *)
(* that is forwarded and, through Endpoint, what it runs; and the routes   *)
(* that the gateway lists and documents.                                   *)
(*                                                                         *)
(* A service is a record of its service_name, its controller (a record of  *)
(* Endpoint, whose name is the controller_name), and whether its           *)
(* descriptor was loaded (described), without which it has no rpc client.  *)
(* A snapshot is the sequence of a registry's services; no two of them     *)
(* have the same rpc endpoint.  The services do not change meanwhile.      *)
(* What a search finds are the positions of services in the snapshot.      *)
(*                                                                         *)
(* A URL is the sequence of its segments, each a dotted name as in         *)
(* Endpoint.  The shapes of pages are left out: an answer is a status or   *)
(* code, the service it is about, and for a call the method and whether it *)
(* has run.                                                                *)
(***************************************************************************)
EXTENDS Endpoint

-----------------------------------------------------------------------------
(* The registry *)

Methods(s) == DescribeController(s.controller)

RpcEndpoint(s) == <<s.service, s.controller.name>>

(* What a call or a request comes to.                                      *)
Outcome(code, service, method, runs) ==
  [code |-> code, service |-> service, method |-> method, runs |-> runs]

Nothing(code) == Outcome(code, None, None, FALSE)

RAISES == "RAISES"

FindByMethod(services, method) ==
  {i \in DOMAIN services : method \in Methods(services[i])}

(* A deliberately wrong variant: the service_name is not compared.         *)
FindByEndpointLoose(services, endpoint) ==
  {i \in DOMAIN services : RpcEndpoint(services[i])[2] = endpoint[2]}

FindByEndpoint(services, endpoint) ==
  {i \in DOMAIN services : RpcEndpoint(services[i]) = endpoint}

(* Iox2RpcRegistry.call: without rpc client, and without an answer, it     *)
(* raises.                                                                 *)
RegistryCall(s, method, params) ==
  LET d == Handle(s.controller, [id |-> 1, method |-> method, params |-> params])
  IN  IF s.described
        THEN Outcome(IF d.encodes THEN d.code ELSE RAISES, s, method, d.runs)
        ELSE Nothing(RAISES)

CallUnique(services, method, params) ==
  LET matches == FindByMethod(services, method)
  IN  IF Cardinality(matches) = 1
        THEN RegistryCall(services[First(matches)], method, params)
        ELSE Nothing(RAISES)

CallEndpoint(services, endpoint, method, params) ==
  LET found == FindByEndpoint(services, endpoint)
  IN  IF found = {}
        THEN Nothing(RAISES)
        ELSE RegistryCall(services[First(found)], method, params)

-----------------------------------------------------------------------------
(* The gateway *)

MatchingServices(services, controller, service_name) ==
  {i \in DOMAIN services : /\ services[i].controller.name = controller
                           /\ service_name \in {None, services[i].service}}

(* An exception of the call gets the code of the function that catches it. *)
Caught(outcome, code) == IF outcome.code = RAISES THEN [outcome EXCEPT !.code = code] ELSE outcome

CallService(services, controller, service_name, method, params) ==
  LET matches == MatchingServices(services, controller, service_name)
  IN  IF Cardinality(matches) = 1
        THEN Caught(RegistryCall(services[First(matches)], method, params), INTERNAL_ERROR)
        ELSE Nothing(METHOD_NOT_FOUND)

CallRpc(services, method, params) ==
  Caught(CallUnique(services, method, params), METHOD_NOT_FOUND)

CallControllerRpc(services, controller, service_name, method, params) ==
  CallService(services, controller, service_name,
              IF Len(method) = 1 THEN controller \o method ELSE method, params)

(* A deliberately wrong variant: as the JSON-RPC bridge does.              *)
CallMethodBare(services, controller, service_name, method, params) ==
  CallService(services, controller, service_name, method, params)

CallMethod(services, controller, service_name, method, params) ==
  CallService(services, controller, service_name, controller \o method, params)

(* schema_for_controller and methods_for_controller.                       *)
Describe(services, controller, service_name) ==
  LET matches == MatchingServices(services, controller, service_name)
  IN  IF Cardinality(matches) = 1
        THEN Outcome(OK, services[First(matches)], None, FALSE)
        ELSE Nothing(METHOD_NOT_FOUND)

(* A deliberately wrong variant: client errors all alike.                  *)
StatusCoarse(code) == CASE code = OK -> 200 [] OTHER -> 400

(* _raise_gateway_response.                                                *)
Status(code) ==
  CASE code = OK -> 200
    [] code = METHOD_NOT_FOUND -> 404
    [] code = INVALID_PARAMS -> 422
    [] code = INTERNAL_ERROR -> 500
    [] OTHER -> 400

-----------------------------------------------------------------------------
(* The route table *)

(* A path of a template: words, and the parameters a segment is taken for. *)
controller == "{controller}"
method     == "{method}"

Template(words) == [i \in DOMAIN words |-> <<words[i]>>]

Route(verbs, words, handler) == [verbs |-> verbs, path |-> Template(words), handler |-> handler]

FixedRoutes ==
  << Route({"GET"}, <<>>, "root"),
     Route({"GET"}, <<"health">>, "status"),
     Route({"GET", "POST"}, <<"refresh">>, "refresh_now"),
     Route({"GET", "POST"}, <<"controllers", "refresh">>, "refresh_now"),
     Route({"GET"}, <<"catalog">>, "catalog"),
     Route({"GET"}, <<"describe">>, "describe_all"),
     Route({"GET"}, <<"controllers">>, "controllers_list"),
     Route({"POST"}, <<"rpc">>, "rpc") >>

FixedSubpaths ==
  << Route({"GET"}, <<"controllers", controller, "methods">>, "controller_methods"),
     Route({"POST"}, <<"controllers", controller, "rpc">>, "controller_rpc"),
     Route({"GET"}, <<"controllers", controller, "schema">>, "controller_detail"),
     Route({"GET"}, <<"controllers", controller>>, "controller_detail") >>

SimpleRoutes ==
  << Route({"POST"}, <<"controllers", controller, method>>, "post_method"),
     Route({"GET"}, <<"controllers", controller, method>>, "get_method") >>

Aliases ==
  << Route({"POST"}, <<"controllers", controller, "methods", method>>, "post_method"),
     Route({"GET"}, <<"controllers", controller, "methods", method>>, "get_method") >>

(* Deliberately wrong variants: the simple routes are registered before    *)
(* the fixed subpaths; the aliases are gone.                               *)
RouteTableSimpleFirst == FixedRoutes \o SimpleRoutes \o FixedSubpaths \o Aliases

RouteTableShort == FixedRoutes \o FixedSubpaths \o SimpleRoutes

RouteTable == FixedRoutes \o FixedSubpaths \o SimpleRoutes \o Aliases

Parameters == {<<controller>>, <<method>>}

Fits(route, verb, path) ==
  /\ verb \in route.verbs
  /\ DOMAIN route.path = DOMAIN path
  /\ \A i \in DOMAIN path : route.path[i] \in Parameters \cup {path[i]}

(* The first route of the table that fits.                                 *)
Handler(verb, path) ==
  LET fitting == {i \in DOMAIN RouteTable : Fits(RouteTable[i], verb, path)}
  IN  IF fitting = {} THEN "none" ELSE RouteTable[First(fitting)].handler

-----------------------------------------------------------------------------
(* A request has a verb, a path, the service query parameter, the method   *)
(* of a JSON-RPC body, and params.  Its answer has the handler's name, the *)
(* HTTP status, and the outcome.                                           *)

Answer(handler, status, outcome) == [handler |-> handler, status |-> status, outcome |-> outcome]

WithStatus(handler, outcome) == Answer(handler, Status(outcome.code), outcome)

(* Starlette: 405 where a route fits but for the verb, else 404.           *)
Unrouted(path) ==
  IF \E i \in DOMAIN RouteTable, verb \in {"GET", "POST"} : Fits(RouteTable[i], verb, path)
    THEN 405
    ELSE 404

Respond(services, req) ==
  LET handler == Handler(req.verb, req.path)
  IN  CASE handler \in {"get_method", "post_method"} ->
             WithStatus(handler, CallMethod(services, req.path[2], req.service,
                                            req.path[Len(req.path)], req.params))
        [] handler \in {"controller_detail", "controller_methods"} ->
             WithStatus(handler, Describe(services, req.path[2], req.service))
        [] handler = "controller_rpc" ->
             Answer(handler, 200, CallControllerRpc(services, req.path[2], req.service,
                                                    req.method, req.params))
        [] handler = "rpc" ->
             Answer(handler, 200, CallRpc(services, req.method, req.params))
        [] handler = "none" -> Answer(handler, Unrouted(req.path), Nothing(None))
        [] OTHER -> Answer(handler, 200, Nothing(OK))

-----------------------------------------------------------------------------
(* What the gateway says of itself *)

URL(verb, path) == [verb |-> verb, path |-> path]

Controllers == <<"controllers">>

(* The method names of _route_info_for_service: without a descriptor, what *)
(* follows the first dot.                                                  *)
LocalMethods(s) ==
  {IF s.described THEN <<Last(m)>> ELSE IF Len(m) > 1 THEN Tail(m) ELSE m : m \in Methods(s)}

MethodRoutes(s) ==
  {URL(verb, <<Controllers, s.controller.name, m>>) : verb \in {"GET", "POST"}, m \in LocalMethods(s)}

SchemaRoute(s) == URL("GET", <<Controllers, s.controller.name>>)

RpcRoute(s) == URL("POST", <<Controllers, s.controller.name, <<"rpc">> >>)

(* custom_openapi: the described services in their order; a path that two  *)
(* of them share documents the later one.  The paths that are only there   *)
(* by default, when no method has them, are left out.                      *)
Documented(services, url) ==
  {i \in DOMAIN services : services[i].described /\ url \in MethodRoutes(services[i])}

=============================================================================
