---------------------------- MODULE RoutesProofs ----------------------------
(***************************************************************************)
(* Proofs about Answers, for any registry snapshots and requests.          *)
(***************************************************************************)
EXTENDS Answers, EndpointProofs, FiniteSetTheorems

-----------------------------------------------------------------------------
(* The route table *)

(* The entries of a table that is put together as the route table is.     *)
LEMMA Sixteen ==
  ASSUME NEW a1, NEW a2, NEW a3, NEW a4, NEW a5, NEW a6, NEW a7, NEW a8,
         NEW b1, NEW b2, NEW b3, NEW b4, NEW c1, NEW c2, NEW d1, NEW d2,
         NEW t, t = <<a1, a2, a3, a4, a5, a6, a7, a8>> \o <<b1, b2, b3, b4>> \o <<c1, c2>> \o <<d1, d2>>
  PROVE  /\ DOMAIN t = 1 .. 16
         /\ t[1] = a1 /\ t[2] = a2 /\ t[3] = a3 /\ t[4] = a4
         /\ t[5] = a5 /\ t[6] = a6 /\ t[7] = a7 /\ t[8] = a8
         /\ t[9] = b1 /\ t[10] = b2 /\ t[11] = b3 /\ t[12] = b4
         /\ t[13] = c1 /\ t[14] = c2 /\ t[15] = d1 /\ t[16] = d2
  OBVIOUS

(* When a route fits, by the words of its template.                        *)
LEMMA RouteFits ==
  ASSUME NEW verbs, NEW words, NEW handler, NEW verb, NEW path
  PROVE  /\ Route(verbs, words, handler).handler = handler
         /\ Fits(Route(verbs, words, handler), verb, path) <=>
              /\ verb \in verbs
              /\ DOMAIN words = DOMAIN path
              /\ \A i \in DOMAIN path : <<words[i]>> \in Parameters \cup {path[i]}
  BY DEF Route, Template, Fits

(* The table, entry by entry.                                              *)
LEMMA Table ==
  /\ DOMAIN RouteTable = 1 .. 16
  /\ RouteTable[1] = Route({"GET"}, <<>>, "root")
  /\ RouteTable[2] = Route({"GET"}, <<"health">>, "status")
  /\ RouteTable[3] = Route({"GET", "POST"}, <<"refresh">>, "refresh_now")
  /\ RouteTable[4] = Route({"GET", "POST"}, <<"controllers", "refresh">>, "refresh_now")
  /\ RouteTable[5] = Route({"GET"}, <<"catalog">>, "catalog")
  /\ RouteTable[6] = Route({"GET"}, <<"describe">>, "describe_all")
  /\ RouteTable[7] = Route({"GET"}, <<"controllers">>, "controllers_list")
  /\ RouteTable[8] = Route({"POST"}, <<"rpc">>, "rpc")
  /\ RouteTable[9] = Route({"GET"}, <<"controllers", controller, "methods">>, "controller_methods")
  /\ RouteTable[10] = Route({"POST"}, <<"controllers", controller, "rpc">>, "controller_rpc")
  /\ RouteTable[11] = Route({"GET"}, <<"controllers", controller, "schema">>, "controller_detail")
  /\ RouteTable[12] = Route({"GET"}, <<"controllers", controller>>, "controller_detail")
  /\ RouteTable[13] = Route({"POST"}, <<"controllers", controller, method>>, "post_method")
  /\ RouteTable[14] = Route({"GET"}, <<"controllers", controller, method>>, "get_method")
  /\ RouteTable[15] = Route({"POST"}, <<"controllers", controller, "methods", method>>, "post_method")
  /\ RouteTable[16] = Route({"GET"}, <<"controllers", controller, "methods", method>>, "get_method")
<1> QED
  BY Sixteen DEF RouteTable, FixedRoutes, FixedSubpaths, SimpleRoutes, Aliases

(* The first route that fits has the request.                              *)
LEMMA FirstFits ==
  ASSUME NEW verb, NEW path, NEW i \in DOMAIN RouteTable, Fits(RouteTable[i], verb, path),
         \A j \in DOMAIN RouteTable : j < i => ~Fits(RouteTable[j], verb, path)
  PROVE  Handler(verb, path) = RouteTable[i].handler
<1> DEFINE fitting == {j \in DOMAIN RouteTable : Fits(RouteTable[j], verb, path)}
<1>1. fitting \subseteq Nat /\ i \in fitting
  BY Table
<1>2. First(fitting) \in fitting /\ \A j \in fitting : First(fitting) <= j
  BY <1>1, FirstOf
<1>3. First(fitting) = i
  <2>1. \A j \in fitting : ~(j < i)
    OBVIOUS
  <2> HIDE DEF fitting
  <2>2. First(fitting) \in Nat /\ i \in Nat /\ First(fitting) <= i /\ ~(First(fitting) < i)
    BY <1>1, <1>2, <2>1
  <2> QED
    BY <2>2
<1> QED
  BY <1>1, <1>3 DEF Handler

(* A word is taken for itself, a parameter for any segment.                *)
Takes(word, segment) == <<word>> \in Parameters \cup {segment}

LEMMA Taking ==
  ASSUME NEW s
  PROVE  /\ \A word \in {"controllers", "methods", "rpc", "schema", "refresh"} :
              Takes(word, s) <=> s = <<word>>
         /\ Takes(controller, s) /\ Takes(method, s)
  BY DEF Takes, Parameters, controller, method

(* When each route of a controller fits, and how long the others' paths    *)
(* are.                                                                    *)
LEMMA Rows ==
  ASSUME NEW verb, NEW path
  PROVE  /\ Fits(RouteTable[1], verb, path) => DOMAIN path = 1 .. 0
         /\ \A i \in {2, 3, 5, 6, 7, 8} : Fits(RouteTable[i], verb, path) => DOMAIN path = 1 .. 1
         /\ Fits(RouteTable[4], verb, path) <=>
              /\ verb \in {"GET", "POST"} /\ DOMAIN path = 1 .. 2
              /\ path[1] = <<"controllers">> /\ path[2] = <<"refresh">>
         /\ Fits(RouteTable[9], verb, path) <=>
              /\ verb = "GET" /\ DOMAIN path = 1 .. 3
              /\ path[1] = <<"controllers">> /\ path[3] = <<"methods">>
         /\ Fits(RouteTable[10], verb, path) <=>
              /\ verb = "POST" /\ DOMAIN path = 1 .. 3
              /\ path[1] = <<"controllers">> /\ path[3] = <<"rpc">>
         /\ Fits(RouteTable[11], verb, path) <=>
              /\ verb = "GET" /\ DOMAIN path = 1 .. 3
              /\ path[1] = <<"controllers">> /\ path[3] = <<"schema">>
         /\ Fits(RouteTable[12], verb, path) <=>
              verb = "GET" /\ DOMAIN path = 1 .. 2 /\ path[1] = <<"controllers">>
         /\ Fits(RouteTable[13], verb, path) <=>
              verb = "POST" /\ DOMAIN path = 1 .. 3 /\ path[1] = <<"controllers">>
         /\ Fits(RouteTable[14], verb, path) <=>
              verb = "GET" /\ DOMAIN path = 1 .. 3 /\ path[1] = <<"controllers">>
         /\ Fits(RouteTable[15], verb, path) <=>
              /\ verb = "POST" /\ DOMAIN path = 1 .. 4
              /\ path[1] = <<"controllers">> /\ path[3] = <<"methods">>
         /\ Fits(RouteTable[16], verb, path) <=>
              /\ verb = "GET" /\ DOMAIN path = 1 .. 4
              /\ path[1] = <<"controllers">> /\ path[3] = <<"methods">>
<1>4. Fits(RouteTable[1], verb, path) => DOMAIN path = 1 .. 0
  BY Table, RouteFits
<1>5. \A i \in {2, 3, 5, 6, 7, 8} : Fits(RouteTable[i], verb, path) => DOMAIN path = 1 .. 1
  BY Table, RouteFits
<1>6. ASSUME NEW verbs, NEW w1, NEW w2, NEW handler, NEW r,
             r = Route(verbs, <<w1, w2>>, handler)
      PROVE  Fits(r, verb, path) <=>
               /\ verb \in verbs /\ DOMAIN path = 1 .. 2
               /\ Takes(w1, path[1])
               /\ Takes(w2, path[2])
  <2>1. Fits(Route(verbs, <<w1, w2>>, handler), verb, path) <=>
          /\ verb \in verbs /\ DOMAIN path = 1 .. 2
          /\ Takes(w1, path[1]) /\ Takes(w2, path[2])
    BY RouteFits DEF Takes
  <2> QED
    BY <1>6, <2>1
<1>7. ASSUME NEW verbs, NEW w1, NEW w2, NEW w3, NEW handler, NEW r,
             r = Route(verbs, <<w1, w2, w3>>, handler)
      PROVE  Fits(r, verb, path) <=>
               /\ verb \in verbs /\ DOMAIN path = 1 .. 3
               /\ Takes(w1, path[1])
               /\ Takes(w2, path[2])
               /\ Takes(w3, path[3])
  <2>1. Fits(Route(verbs, <<w1, w2, w3>>, handler), verb, path) <=>
          /\ verb \in verbs /\ DOMAIN path = 1 .. 3
          /\ Takes(w1, path[1]) /\ Takes(w2, path[2]) /\ Takes(w3, path[3])
    BY RouteFits DEF Takes
  <2> QED
    BY <1>7, <2>1
<1>8. ASSUME NEW verbs, NEW w1, NEW w2, NEW w3, NEW w4, NEW handler, NEW r,
             r = Route(verbs, <<w1, w2, w3, w4>>, handler)
      PROVE  Fits(r, verb, path) <=>
               /\ verb \in verbs /\ DOMAIN path = 1 .. 4
               /\ Takes(w1, path[1])
               /\ Takes(w2, path[2])
               /\ Takes(w3, path[3])
               /\ Takes(w4, path[4])
  <2>1. Fits(Route(verbs, <<w1, w2, w3, w4>>, handler), verb, path) <=>
          /\ verb \in verbs /\ DOMAIN path = 1 .. 4
          /\ Takes(w1, path[1]) /\ Takes(w2, path[2]) /\ Takes(w3, path[3]) /\ Takes(w4, path[4])
    BY RouteFits DEF Takes
  <2> QED
    BY <1>8, <2>1
<1>9. Fits(RouteTable[4], verb, path) <=>
        /\ verb \in {"GET", "POST"} /\ DOMAIN path = 1 .. 2
        /\ Takes("controllers", path[1]) /\ Takes("refresh", path[2])
  <2>1. RouteTable[4] = Route({"GET", "POST"}, <<"controllers", "refresh">>, "refresh_now")
    BY Table
  <2> QED
    BY <1>6, <2>1
<1>10. Fits(RouteTable[12], verb, path) <=>
        /\ verb \in {"GET"} /\ DOMAIN path = 1 .. 2
        /\ Takes("controllers", path[1]) /\ Takes(controller, path[2])
  <2>1. RouteTable[12] = Route({"GET"}, <<"controllers", controller>>, "controller_detail")
    BY Table
  <2> QED
    BY <1>6, <2>1
<1>11. Fits(RouteTable[9], verb, path) <=>
        /\ verb \in {"GET"} /\ DOMAIN path = 1 .. 3
        /\ Takes("controllers", path[1]) /\ Takes(controller, path[2]) /\ Takes("methods", path[3])
  <2>1. RouteTable[9] = Route({"GET"}, <<"controllers", controller, "methods">>, "controller_methods")
    BY Table
  <2> QED
    BY <1>7, <2>1
<1>12. Fits(RouteTable[10], verb, path) <=>
        /\ verb \in {"POST"} /\ DOMAIN path = 1 .. 3
        /\ Takes("controllers", path[1]) /\ Takes(controller, path[2]) /\ Takes("rpc", path[3])
  <2>1. RouteTable[10] = Route({"POST"}, <<"controllers", controller, "rpc">>, "controller_rpc")
    BY Table
  <2> QED
    BY <1>7, <2>1
<1>13. Fits(RouteTable[11], verb, path) <=>
        /\ verb \in {"GET"} /\ DOMAIN path = 1 .. 3
        /\ Takes("controllers", path[1]) /\ Takes(controller, path[2]) /\ Takes("schema", path[3])
  <2>1. RouteTable[11] = Route({"GET"}, <<"controllers", controller, "schema">>, "controller_detail")
    BY Table
  <2> QED
    BY <1>7, <2>1
<1>14. Fits(RouteTable[13], verb, path) <=>
        /\ verb \in {"POST"} /\ DOMAIN path = 1 .. 3
        /\ Takes("controllers", path[1]) /\ Takes(controller, path[2]) /\ Takes(method, path[3])
  <2>1. RouteTable[13] = Route({"POST"}, <<"controllers", controller, method>>, "post_method")
    BY Table
  <2> QED
    BY <1>7, <2>1
<1>15. Fits(RouteTable[14], verb, path) <=>
        /\ verb \in {"GET"} /\ DOMAIN path = 1 .. 3
        /\ Takes("controllers", path[1]) /\ Takes(controller, path[2]) /\ Takes(method, path[3])
  <2>1. RouteTable[14] = Route({"GET"}, <<"controllers", controller, method>>, "get_method")
    BY Table
  <2> QED
    BY <1>7, <2>1
<1>16. Fits(RouteTable[15], verb, path) <=>
        /\ verb \in {"POST"} /\ DOMAIN path = 1 .. 4
        /\ Takes("controllers", path[1]) /\ Takes(controller, path[2])
        /\ Takes("methods", path[3]) /\ Takes(method, path[4])
  <2>1. RouteTable[15] = Route({"POST"}, <<"controllers", controller, "methods", method>>, "post_method")
    BY Table
  <2> QED
    BY <1>8, <2>1
<1>17. Fits(RouteTable[16], verb, path) <=>
        /\ verb \in {"GET"} /\ DOMAIN path = 1 .. 4
        /\ Takes("controllers", path[1]) /\ Takes(controller, path[2])
        /\ Takes("methods", path[3]) /\ Takes(method, path[4])
  <2>1. RouteTable[16] = Route({"GET"}, <<"controllers", controller, "methods", method>>, "get_method")
    BY Table
  <2> QED
    BY <1>8, <2>1
<1> QED
  BY <1>4, <1>5, <1>9, <1>10, <1>11, <1>12, <1>13, <1>14, <1>15, <1>16, <1>17, Taking

(* Where the paths of a controller lead.                                   *)
LEMMA HandlerOf ==
  ASSUME NEW path, path[1] = <<"controllers">>
  PROVE  /\ DOMAIN path = 1 .. 2 /\ path[2] # <<"refresh">> =>
              Handler("GET", path) = "controller_detail"
         /\ DOMAIN path = 1 .. 3 =>
              /\ path[3] = <<"methods">> => Handler("GET", path) = "controller_methods"
              /\ path[3] = <<"schema">> => Handler("GET", path) = "controller_detail"
              /\ path[3] \notin {<<"methods">>, <<"schema">>} => Handler("GET", path) = "get_method"
              /\ path[3] = <<"rpc">> => Handler("POST", path) = "controller_rpc"
              /\ path[3] # <<"rpc">> => Handler("POST", path) = "post_method"
         /\ DOMAIN path = 1 .. 4 /\ path[3] = <<"methods">> =>
              Handler("GET", path) = "get_method" /\ Handler("POST", path) = "post_method"
<1>1. /\ DOMAIN RouteTable = 1 .. 16
      /\ RouteTable[9].handler = "controller_methods"
      /\ RouteTable[10].handler = "controller_rpc"
      /\ RouteTable[11].handler = "controller_detail"
      /\ RouteTable[12].handler = "controller_detail"
      /\ RouteTable[13].handler = "post_method"
      /\ RouteTable[14].handler = "get_method"
      /\ RouteTable[15].handler = "post_method"
      /\ RouteTable[16].handler = "get_method"
  <2>1. \A verbs, words, handler : Route(verbs, words, handler).handler = handler
    BY DEF Route
  <2> QED
    BY <2>1, Table
<1>2. /\ 1 .. 2 # 1 .. 0 /\ 1 .. 2 # 1 .. 1 /\ 1 .. 3 # 1 .. 0 /\ 1 .. 3 # 1 .. 1 /\ 1 .. 3 # 1 .. 2
      /\ 1 .. 4 # 1 .. 0 /\ 1 .. 4 # 1 .. 1 /\ 1 .. 4 # 1 .. 2 /\ 1 .. 4 # 1 .. 3
      /\ <<"methods">> # <<"schema">>
  OBVIOUS
<1>3. ASSUME NEW verb, DOMAIN path \in {1 .. 3, 1 .. 4}
      PROVE  \A j \in 1 .. 8 : ~Fits(RouteTable[j], verb, path)
  <2>1. \A j \in {1, 4} : ~Fits(RouteTable[j], verb, path)
    BY <1>2, <1>3, Rows
  <2>2. \A j \in {2, 3, 5, 6, 7, 8} : ~Fits(RouteTable[j], verb, path)
    BY <1>2, <1>3, Rows
  <2> QED
    BY <2>1, <2>2
<1>4. ASSUME DOMAIN path = 1 .. 2, path[2] # <<"refresh">>
      PROVE  Handler("GET", path) = "controller_detail"
  <2>1. Fits(RouteTable[12], "GET", path)
    BY <1>4, Rows
  <2>2. \A j \in 1 .. 11 : ~Fits(RouteTable[j], "GET", path)
    BY <1>2, <1>4, Rows
  <2> QED
    BY <1>1, <2>1, <2>2, FirstFits
<1>5. ASSUME DOMAIN path = 1 .. 3, path[3] = <<"methods">>
      PROVE  Handler("GET", path) = "controller_methods"
  <2>1. Fits(RouteTable[9], "GET", path)
    BY <1>5, Rows
  <2>2. \A j \in 1 .. 8 : ~Fits(RouteTable[j], "GET", path)
    BY <1>3, <1>5
  <2> QED
    BY <1>1, <2>1, <2>2, FirstFits
<1>6. ASSUME DOMAIN path = 1 .. 3, path[3] = <<"schema">>
      PROVE  Handler("GET", path) = "controller_detail"
  <2>1. Fits(RouteTable[11], "GET", path)
    BY <1>6, Rows
  <2>2. /\ ~Fits(RouteTable[9], "GET", path) /\ ~Fits(RouteTable[10], "GET", path)
    BY <1>2, <1>6, Rows
  <2>3. \A j \in 1 .. 10 : ~Fits(RouteTable[j], "GET", path)
    BY <1>3, <1>6, <2>2
  <2> QED
    BY <1>1, <2>1, <2>3, FirstFits
<1>7. ASSUME DOMAIN path = 1 .. 3, path[3] \notin {<<"methods">>, <<"schema">>}
      PROVE  Handler("GET", path) = "get_method"
  <2>1. Fits(RouteTable[14], "GET", path)
    BY <1>7, Rows
  <2>2. /\ ~Fits(RouteTable[9], "GET", path) /\ ~Fits(RouteTable[10], "GET", path)
        /\ ~Fits(RouteTable[11], "GET", path) /\ ~Fits(RouteTable[12], "GET", path)
        /\ ~Fits(RouteTable[13], "GET", path)
    BY <1>2, <1>7, Rows
  <2>3. \A j \in 1 .. 13 : ~Fits(RouteTable[j], "GET", path)
    BY <1>3, <1>7, <2>2
  <2> QED
    BY <1>1, <2>1, <2>3, FirstFits
<1>8. ASSUME DOMAIN path = 1 .. 3, path[3] = <<"rpc">>
      PROVE  Handler("POST", path) = "controller_rpc"
  <2>1. Fits(RouteTable[10], "POST", path)
    BY <1>8, Rows
  <2>2. ~Fits(RouteTable[9], "POST", path)
    BY <1>2, <1>8, Rows
  <2>3. \A j \in 1 .. 9 : ~Fits(RouteTable[j], "POST", path)
    BY <1>3, <1>8, <2>2
  <2> QED
    BY <1>1, <2>1, <2>3, FirstFits
<1>9. ASSUME DOMAIN path = 1 .. 3, path[3] # <<"rpc">>
      PROVE  Handler("POST", path) = "post_method"
  <2>1. Fits(RouteTable[13], "POST", path)
    BY <1>9, Rows
  <2>2. /\ ~Fits(RouteTable[9], "POST", path) /\ ~Fits(RouteTable[10], "POST", path)
        /\ ~Fits(RouteTable[11], "POST", path) /\ ~Fits(RouteTable[12], "POST", path)
    BY <1>2, <1>9, Rows
  <2>3. \A j \in 1 .. 12 : ~Fits(RouteTable[j], "POST", path)
    BY <1>3, <1>9, <2>2
  <2> QED
    BY <1>1, <2>1, <2>3, FirstFits
<1>10. ASSUME DOMAIN path = 1 .. 4, path[3] = <<"methods">>
      PROVE  Handler("GET", path) = "get_method"
  <2>1. Fits(RouteTable[16], "GET", path)
    BY <1>10, Rows
  <2>2. /\ ~Fits(RouteTable[9], "GET", path) /\ ~Fits(RouteTable[10], "GET", path)
        /\ ~Fits(RouteTable[11], "GET", path) /\ ~Fits(RouteTable[12], "GET", path)
        /\ ~Fits(RouteTable[13], "GET", path) /\ ~Fits(RouteTable[14], "GET", path)
        /\ ~Fits(RouteTable[15], "GET", path)
    BY <1>2, <1>10, Rows
  <2>3. \A j \in 1 .. 15 : ~Fits(RouteTable[j], "GET", path)
    BY <1>3, <1>10, <2>2
  <2> QED
    BY <1>1, <2>1, <2>3, FirstFits
<1>11. ASSUME DOMAIN path = 1 .. 4, path[3] = <<"methods">>
      PROVE  Handler("POST", path) = "post_method"
  <2>1. Fits(RouteTable[15], "POST", path)
    BY <1>11, Rows
  <2>2. /\ ~Fits(RouteTable[9], "POST", path) /\ ~Fits(RouteTable[10], "POST", path)
        /\ ~Fits(RouteTable[11], "POST", path) /\ ~Fits(RouteTable[12], "POST", path)
        /\ ~Fits(RouteTable[13], "POST", path) /\ ~Fits(RouteTable[14], "POST", path)
    BY <1>2, <1>11, Rows
  <2>3. \A j \in 1 .. 14 : ~Fits(RouteTable[j], "POST", path)
    BY <1>3, <1>11, <2>2
  <2> QED
    BY <1>1, <2>1, <2>3, FirstFits
<1> QED
  BY <1>4, <1>5, <1>6, <1>7, <1>8, <1>9, <1>10, <1>11

-----------------------------------------------------------------------------
(* Calls *)

(* An answer tells whether the method ran, unless something failed: for    *)
(* any controller and any method.                                          *)
LEMMA Calling ==
  ASSUME NEW s, NEW m, NEW params, NEW o, o = Caught(RegistryCall(s, m, params), INTERNAL_ERROR)
  PROVE  /\ o.code \in {OK, METHOD_NOT_FOUND, INVALID_PARAMS, INTERNAL_ERROR}
         /\ o.runs \in BOOLEAN
         /\ o.code = OK => o.runs
         /\ o.runs => o.code \in {OK, INTERNAL_ERROR}
<1> DEFINE d == Handle(s.controller, [id |-> 1, method |-> m, params |-> params])
<1>1. RAISES \notin {OK, METHOD_NOT_FOUND, INVALID_PARAMS, INTERNAL_ERROR} /\ OK # INTERNAL_ERROR
  BY DEF RAISES, OK, METHOD_NOT_FOUND, INVALID_PARAMS, INTERNAL_ERROR
<1>2. /\ d.code \in {OK, METHOD_NOT_FOUND, INVALID_PARAMS, INTERNAL_ERROR}
      /\ d.runs \in BOOLEAN
      /\ d.runs <=> d.code \in {OK, INTERNAL_ERROR}
  <2> DEFINE request == [id |-> 1, method |-> m, params |-> params]
             binding == s.controller.members[First(Matches(s.controller, m))]
  <2>1. d \in {Dispatched(1, METHOD_NOT_FOUND, FALSE, TRUE), Invoke(binding, request)}
    BY DEF Handle
  <2> HIDE DEF d, request, binding
  <2>2. CASE d = Dispatched(1, METHOD_NOT_FOUND, FALSE, TRUE)
    BY <2>2, CodesDiffer DEF Dispatched
  <2>3. CASE d = Invoke(binding, request)
    BY <2>3, Invoked
  <2> QED
    BY <2>1, <2>2, <2>3
<1> HIDE DEF d
<1>3. CASE ~s.described
  <2>1. RegistryCall(s, m, params) = Nothing(RAISES)
    BY <1>3 DEF RegistryCall
  <2>2. o.code = INTERNAL_ERROR /\ o.runs = FALSE
    BY <2>1 DEF Caught, Nothing, Outcome
  <2> QED
    BY <1>1, <2>2, CodesDiffer
<1>4. CASE s.described
  <2>1. RegistryCall(s, m, params) = Outcome(IF d.encodes THEN d.code ELSE RAISES, s, m, d.runs)
    BY <1>4 DEF RegistryCall, d
  <2>2. o.runs = d.runs /\ o.code = IF d.encodes THEN d.code ELSE INTERNAL_ERROR
    BY <1>1, <1>2, <2>1 DEF Caught, Outcome
  <2> QED
    BY <1>1, <1>2, <2>2, CodesDiffer
<1> QED
  BY <1>3, <1>4

(* What a request's handler makes of it.                                   *)
LEMMA Responding ==
  ASSUME NEW ss, NEW r, NEW o, o = Respond(ss, r)
  PROVE  LET h == Handler(r.verb, r.path)
         IN  /\ o.handler = h
             /\ h \in {"get_method", "post_method"} =>
                  /\ o.outcome = CallMethod(ss, r.path[2], r.service, r.path[Len(r.path)], r.params)
                  /\ o.status = Status(o.outcome.code)
             /\ h = "controller_detail" =>
                  o.outcome = Describe(ss, r.path[2], r.service)
             /\ h = "rpc" => o.outcome = CallRpc(ss, r.method, r.params)
<1> DEFINE h == Handler(r.verb, r.path)
<1> HIDE DEF h
<1>1. CASE h \in {"get_method", "post_method"}
  BY <1>1 DEF Respond, h, WithStatus, Answer
<1>2. CASE h \in {"controller_detail", "controller_methods"}
  BY <1>2 DEF Respond, h, WithStatus, Answer
<1>3. CASE h = "rpc"
  BY <1>3 DEF Respond, h, WithStatus, Answer
<1>4. CASE h = "controller_rpc"
  BY <1>4 DEF Respond, h, WithStatus, Answer
<1>5. CASE h = "none"
  BY <1>5 DEF Respond, h, WithStatus, Answer
<1>6. CASE h \notin {"get_method", "post_method", "controller_detail", "controller_methods",
                     "controller_rpc", "rpc", "none"}
  BY <1>6 DEF Respond, h, WithStatus, Answer
<1> QED
  BY <1>1, <1>2, <1>3, <1>4, <1>5, <1>6 DEF h

-----------------------------------------------------------------------------
(* The answer over any snapshot *)

(* Nothing is answered but what the request comes to.                      *)
IInv ==
  /\ services \in Snapshots
  /\ req \in Requests \cup {None}
  /\ req # None => out = Respond(services, req)

(* Before the request there is no answer, and after it this one.           *)
LEMMA Invariance == Spec => []IInv
<1>1. Init => IInv
  BY DEF Init, IInv
<1>2. IInv /\ [Serve]_vars => IInv'
  BY DEF IInv, Serve, vars
<1> QED
  BY <1>1, <1>2, PTL DEF Spec

(* The status of a method route never lies about whether the method ran,   *)
(* whatever the services are called and whatever is asked.                 *)
THEOREM StatusIsTrue == Spec => []StatusTellsTheEffect
<1>1. ASSUME IInv, req # None, out.handler \in {"get_method", "post_method"}
      PROVE  /\ out.status = 200 <=> out.outcome.runs /\ out.outcome.code = OK
             /\ out.status \in {404, 422} <=> ~out.outcome.runs /\ out.outcome.code # INTERNAL_ERROR
  <2> DEFINE o == out.outcome
             m == req.path[2] \o req.path[Len(req.path)]
             matches == MatchingServices(services, req.path[2], req.service)
             s == services[First(matches)]
  <2>1. o = CallMethod(services, req.path[2], req.service, req.path[Len(req.path)], req.params)
        /\ out.status = Status(o.code)
    BY <1>1, Responding DEF IInv
  <2>2. o \in {Nothing(METHOD_NOT_FOUND), Caught(RegistryCall(s, m, req.params), INTERNAL_ERROR)}
    BY <2>1 DEF CallMethod, CallService
  <2> HIDE DEF o, m, s
  <2>3. /\ o.code \in {OK, METHOD_NOT_FOUND, INVALID_PARAMS, INTERNAL_ERROR}
        /\ o.runs \in BOOLEAN
        /\ o.code = OK => o.runs
        /\ o.runs => o.code \in {OK, INTERNAL_ERROR}
    <3>1. CASE o = Nothing(METHOD_NOT_FOUND)
      BY <3>1, CodesDiffer DEF Nothing, Outcome
    <3>2. CASE o = Caught(RegistryCall(s, m, req.params), INTERNAL_ERROR)
      BY <3>2, Calling
    <3> QED
      BY <2>2, <3>1, <3>2
  <2>4. /\ o.code = OK => out.status = 200
        /\ o.code = METHOD_NOT_FOUND => out.status = 404
        /\ o.code = INVALID_PARAMS => out.status = 422
        /\ o.code = INTERNAL_ERROR => out.status = 500
    BY <2>1 DEF Status, OK, METHOD_NOT_FOUND, INVALID_PARAMS, INTERNAL_ERROR
  <2>5. /\ out.status = 200 <=> o.runs /\ o.code = OK
        /\ out.status \in {404, 422} <=> ~o.runs /\ o.code # INTERNAL_ERROR
    BY <2>3, <2>4 DEF OK, METHOD_NOT_FOUND, INVALID_PARAMS, INTERNAL_ERROR
  <2> QED
    BY <2>5 DEF o
<1>2. IInv => StatusTellsTheEffect
  BY <1>1 DEF StatusTellsTheEffect
<1> QED
  BY <1>2, Invariance, PTL

(* A search of a snapshot that finds one service finds this one.           *)
LEMMA OnlyOne ==
  ASSUME NEW ss \in Snapshots, NEW found \in SUBSET DOMAIN ss
  PROVE  /\ Cardinality(found) = 1 <=> \E i \in DOMAIN ss : found = {i}
         /\ \A i \in DOMAIN ss : found = {i} => First(found) = i
<1>1. DOMAIN ss = 1 .. Len(ss) /\ Len(ss) \in Nat
  BY SnapshotAssumption, LenProperties
<1>2. IsFiniteSet(found)
  <2>1. IsFiniteSet(1 .. Len(ss))
    BY <1>1, FS_Interval
  <2> QED
    BY <1>1, <2>1, FS_Subset
<1>3. Cardinality(found) = 1 <=> \E x : found = {x}
  BY <1>2, FS_Singleton
<1>4. ASSUME NEW i \in DOMAIN ss, found = {i}
      PROVE  First(found) = i
  <2>1. found \subseteq Nat /\ found # {}
    BY <1>1, <1>4
  <2> QED
    BY <1>4, <2>1, FirstOf
<1> QED
  BY <1>3, <1>4

(* A call to a service is answered by it, and by no other.                 *)
LEMMA Answering ==
  ASSUME NEW s, NEW m, NEW params, NEW code
  PROVE  /\ Caught(RegistryCall(s, m, params), code).service = RegistryCall(s, m, params).service
         /\ Nothing(code).service = None /\ Caught(Nothing(RAISES), code).service = None
         /\ s.described => RegistryCall(s, m, params).service = s /\ RegistryCall(s, m, params).method = m
         /\ RegistryCall(s, m, params).service \in {s, None}
  BY DEF Caught, RegistryCall, Nothing, Outcome

(* The method that several services have is reached at each of them by its *)
(* rpc endpoint, and never by the method alone, in any snapshot.           *)
THEOREM NeverPicked == Spec => []AmbiguityResolved
<1>1. ASSUME IInv, req # None, out.handler = "rpc"
      PROVE  LET matches == FindByMethod(services, req.method)
             IN  out.outcome.service # None =>
                   \E i \in matches : matches = {i} /\ out.outcome.service = services[i]
  <2> DEFINE matches == FindByMethod(services, req.method)
             call == CallUnique(services, req.method, req.params)
  <2>1. out.outcome = Caught(call, METHOD_NOT_FOUND)
    BY <1>1, Responding DEF IInv, CallRpc
  <2>2. CASE Cardinality(matches) # 1
    <3>1. call = Nothing(RAISES)
      BY <2>2 DEF CallUnique
    <3> QED
      BY <2>1, <3>1, Answering
  <2>3. CASE Cardinality(matches) = 1
    <3>1. matches \in SUBSET DOMAIN services /\ services \in Snapshots
      BY <1>1 DEF IInv, FindByMethod
    <3>2. PICK i \in DOMAIN services : matches = {i}
      BY <2>3, <3>1, OnlyOne
    <3>3. First(matches) = i
      BY <3>1, <3>2, OnlyOne
    <3>4. call = RegistryCall(services[i], req.method, req.params)
      BY <2>3, <3>3 DEF CallUnique
    <3>5. out.outcome.service \in {services[i], None}
      BY <2>1, <3>4, Answering
    <3> QED
      BY <3>2, <3>5
  <2> QED
    BY <2>2, <2>3
<1>2. ASSUME IInv, NEW i \in FindByMethod(services, req.method), services[i].described
      PROVE  CallEndpoint(services, RpcEndpoint(services[i]), req.method, req.params).service = services[i]
  <2> DEFINE found == FindByEndpoint(services, RpcEndpoint(services[i]))
  <2>1. i \in DOMAIN services /\ services \in Snapshots
    BY <1>2 DEF IInv, FindByMethod
  <2>2. found = {i}
    BY <2>1, SnapshotAssumption DEF FindByEndpoint
  <2>3. First(found) = i /\ found # {}
    BY <2>1, <2>2, OnlyOne
  <2>4. CallEndpoint(services, RpcEndpoint(services[i]), req.method, req.params)
          = RegistryCall(services[i], req.method, req.params)
    BY <2>3 DEF CallEndpoint
  <2> QED
    BY <1>2, <2>4, Answering
<1>3. IInv => AmbiguityResolved
  BY <1>1, <1>2 DEF AmbiguityResolved
<1> QED
  BY <1>3, Invariance, PTL

-----------------------------------------------------------------------------
(* The routes of a controller *)

(* What a request for a URL asks for.                                      *)
LEMMA Asking ==
  ASSUME NEW verb, NEW path, URL(req.verb, req.path) = URL(verb, path)
  PROVE  req.verb = verb /\ req.path = path
<1>1. URL(req.verb, req.path).verb = req.verb /\ URL(req.verb, req.path).path = req.path
  BY DEF URL
<1>2. URL(verb, path).verb = verb /\ URL(verb, path).path = path
  BY DEF URL
<1> QED
  BY <1>1, <1>2

(* /methods, /schema and /rpc of any controller lead to what they are for. *)
THEOREM FixedSubpathsWin == Spec => []FixedPathsStay
<1>1. ASSUME IInv, NEW s \in Present, NEW word, NEW verb,
             Asks(URL(verb, <<Controllers, s.controller.name, <<word>> >>), s)
      PROVE  /\ verb = "GET" /\ word = "methods" => out.handler = "controller_methods"
             /\ verb = "GET" /\ word = "schema" => out.handler = "controller_detail"
             /\ verb = "POST" /\ word = "rpc" => out.handler = "controller_rpc"
  <2> DEFINE path == <<Controllers, s.controller.name, <<word>> >>
  <2>1. req # None /\ req.verb = verb /\ req.path = path
    BY <1>1, Asking DEF Asks
  <2>2. DOMAIN path = 1 .. 3 /\ path[1] = <<"controllers">> /\ path[3] = <<word>>
    BY DEF Controllers
  <2>3. out.handler = Handler(verb, path)
    BY <1>1, <2>1, Responding DEF IInv
  <2> HIDE DEF path
  <2> QED
    BY <2>2, <2>3, HandlerOf
<1>2. IInv => FixedPathsStay
  BY <1>1 DEF FixedPathsStay, RpcRoute
<1> QED
  BY <1>2, Invariance, PTL

(* A method of a service is named by the controller and one segment.       *)
LEMMA MethodNames ==
  ASSUME NEW s \in Services, NEW m \in Methods(s)
  PROVE  m \in Seq(Segments) /\ m = s.controller.name \o <<Last(m)>>
<1>1. PICK i \in DOMAIN s.controller.members : m = Append(s.controller.name, s.controller.members[i].name)
  BY DEF Methods, DescribeController, IterRpcMethods
<1> DEFINE name == s.controller.name
           local == s.controller.members[i].name
<1>2. name \in Seq(Segments) /\ local \in Segments
  BY ServiceAssumption
<1>3. m = Append(name, local)
  BY <1>1
<1> HIDE DEF name, local
<1>4. /\ Append(name, local) \in Seq(Segments)
      /\ Len(Append(name, local)) = Len(name) + 1
      /\ Append(name, local)[Len(name) + 1] = local
  BY <1>2, AppendProperties
<1>5. m \in Seq(Segments) /\ Last(m) = local
  BY <1>3, <1>4 DEF Last
<1>6. m = name \o <<local>>
  BY <1>2, <1>3, Stripped
<1> QED
  BY <1>5, <1>6 DEF name

(* A controller and a service name are a service's alone.                  *)
LEMMA Alone ==
  ASSUME NEW ss \in Snapshots, NEW i \in DOMAIN ss
  PROVE  /\ ss[i] \in Services
         /\ MatchingServices(ss, ss[i].controller.name, ss[i].service) = {i}
<1>1. ss \in Seq(Services) /\ DOMAIN ss = 1 .. Len(ss)
  BY SnapshotAssumption, LenProperties
<1>2. \A j \in DOMAIN ss : ss[j] \in Services /\ ss[j].service # None
  BY <1>1, ServiceAssumption
<1>3. ASSUME NEW j \in DOMAIN ss, ss[j].controller.name = ss[i].controller.name, ss[j].service = ss[i].service
      PROVE  j = i
  <2>1. RpcEndpoint(ss[j]) = RpcEndpoint(ss[i])
    BY <1>3 DEF RpcEndpoint
  <2> QED
    BY <2>1, SnapshotAssumption
<1> QED
  BY <1>2, <1>3 DEF MatchingServices

(* A method route that leads to one service alone reaches its method.      *)
LEMMA Reaching ==
  ASSUME NEW ss \in Snapshots, NEW i \in DOMAIN ss, ss[i].described,
         NEW n, NEW service, MatchingServices(ss, n, service) = {i},
         NEW m, n \o m \in Methods(ss[i]), NEW params,
         NEW o, o = CallMethod(ss, n, service, m, params)
  PROVE  o.service = ss[i] /\ o.method = n \o m /\ o.code # METHOD_NOT_FOUND
<1> DEFINE s == ss[i]
           called == n \o m
           d == Handle(s.controller, [id |-> 1, method |-> called, params |-> params])
<1>1. s \in Services /\ MatchingServices(ss, n, service) \in SUBSET DOMAIN ss
  BY Alone DEF MatchingServices
<1>2. o = Caught(RegistryCall(s, called, params), INTERNAL_ERROR)
  <2>1. Cardinality(MatchingServices(ss, n, service)) = 1 /\ First(MatchingServices(ss, n, service)) = i
    BY <1>1, OnlyOne
  <2> QED
    BY <2>1 DEF CallMethod, CallService
<1>3. called \in Seq(Segments) /\ Named(s.controller, Segments)
  BY <1>1, MethodNames, ServiceAssumption DEF Named
<1>4. d.code # METHOD_NOT_FOUND
  <2> DEFINE request == [id |-> 1, method |-> called, params |-> params]
  <2>1. request.method = called
    OBVIOUS
  <2>2. called \in DescribeController(s.controller)
    BY DEF Methods
  <2> HIDE DEF request, called, s
  <2>3. Handle(s.controller, request).code # METHOD_NOT_FOUND
    BY <1>3, <2>1, <2>2, Dispatching
  <2> QED
    BY <2>3 DEF request, called, s
<1>5. RegistryCall(s, called, params) = Outcome(IF d.encodes THEN d.code ELSE RAISES, s, called, d.runs)
  BY DEF RegistryCall
<1> HIDE DEF d, s, called
<1>6. METHOD_NOT_FOUND # RAISES /\ METHOD_NOT_FOUND # INTERNAL_ERROR
  BY DEF METHOD_NOT_FOUND, RAISES, INTERNAL_ERROR
<1>7. o.service = s /\ o.method = called /\ o.code # METHOD_NOT_FOUND
  BY <1>2, <1>4, <1>5, <1>6 DEF Caught, Outcome
<1> QED
  BY <1>7 DEF s, called

(* A request that is for a method of one service alone reaches it.         *)
LEMMA Requested ==
  ASSUME IInv, req # None, NEW i \in DOMAIN services, services[i].described,
         out.handler \in {"get_method", "post_method"},
         MatchingServices(services, req.path[2], req.service) = {i},
         req.path[2] \o req.path[Len(req.path)] \in Methods(services[i])
  PROVE  Reaches(services[i], req.path[2] \o req.path[Len(req.path)])
<1> DEFINE n == req.path[2]
           m == req.path[Len(req.path)]
           service == req.service
           params == req.params
<1>1. out.outcome = CallMethod(services, n, service, m, params)
  BY Responding DEF IInv
<1>2. services \in Snapshots
  BY DEF IInv
<1> HIDE DEF n, m, service, params
<1>3. /\ out.outcome.service = services[i] /\ out.outcome.method = n \o m
      /\ out.outcome.code # METHOD_NOT_FOUND
  <2>1. MatchingServices(services, n, service) = {i} /\ n \o m \in Methods(services[i])
    BY DEF n, m, service
  <2> QED
    BY <1>1, <1>2, <2>1, Reaching, SMTT(30)
<1> QED
  BY <1>3 DEF Reaches, n, m

(* Where a service is, and what its methods are.                           *)
LEMMA Placed ==
  ASSUME IInv, NEW s \in Present
  PROVE  \E i \in DOMAIN services :
           /\ services[i] = s
           /\ MatchingServices(services, s.controller.name, s.service) = {i}
           /\ \A m \in Methods(s) : m = s.controller.name \o <<Last(m)>>
<1>1. PICK i \in DOMAIN services : services[i] = s
  BY DEF Present, Range
<1>2. services \in Snapshots
  BY DEF IInv
<1>3. s \in Services /\ MatchingServices(services, s.controller.name, s.service) = {i}
  BY <1>1, <1>2, Alone
<1> QED
  BY <1>1, <1>3, MethodNames

(* The alias calls every method of every controller, also one that a fixed *)
(* path hides.                                                             *)
THEOREM AliasReaches == Spec => []AliasAlwaysLeads
<1>1. ASSUME IInv, NEW s \in Present, NEW verb \in {"GET", "POST"}, s.described, NEW m \in Methods(s),
             Asks(URL(verb, <<Controllers, s.controller.name, <<"methods">>, <<Last(m)>> >>), s)
      PROVE  Reaches(s, m)
  <2> DEFINE path == <<Controllers, s.controller.name, <<"methods">>, <<Last(m)>> >>
  <2>1. req # None /\ req.verb = verb /\ req.path = path /\ req.service = s.service
    BY <1>1, Asking DEF Asks
  <2>2. /\ DOMAIN path = 1 .. 4 /\ path[1] = <<"controllers">> /\ path[3] = <<"methods">>
        /\ path[2] = s.controller.name /\ path[Len(path)] = <<Last(m)>>
    BY DEF Controllers
  <2>3. out.handler = Handler(verb, path)
    BY <1>1, <2>1, Responding DEF IInv
  <2>4. PICK i \in DOMAIN services :
          /\ services[i] = s
          /\ MatchingServices(services, s.controller.name, s.service) = {i}
          /\ m = s.controller.name \o <<Last(m)>>
    BY <1>1, Placed
  <2> HIDE DEF path
  <2>5. out.handler \in {"get_method", "post_method"}
    BY <2>2, <2>3, HandlerOf
  <2> QED
    BY <1>1, <2>1, <2>2, <2>4, <2>5, Requested
<1>2. IInv => AliasAlwaysLeads
  BY <1>1 DEF AliasAlwaysLeads
<1> QED
  BY <1>2, Invariance, PTL

(* A URL of a method that no fixed route takes leads to a method route.    *)
LEMMA MethodRoute ==
  ASSUME NEW n, NEW m, NEW verb \in {"GET", "POST"}, ~Taken(URL(verb, <<Controllers, n, m>>))
  PROVE  /\ Handler(verb, <<Controllers, n, m>>) \in {"get_method", "post_method"}
         /\ <<Controllers, n, m>>[2] = n /\ <<Controllers, n, m>>[3] = m
         /\ <<Controllers, n, m>>[Len(<<Controllers, n, m>>)] = m
<1> DEFINE path == <<Controllers, n, m>>
<1>1. /\ DOMAIN path = 1 .. 3 /\ Len(path) = 3
      /\ path[1] = <<"controllers">> /\ path[2] = n /\ path[3] = m
  BY DEF Controllers
<1>2. /\ verb = "GET" => path[3] \notin {<<"methods">>, <<"schema">>}
      /\ verb = "POST" => path[3] # <<"rpc">>
  BY <1>1 DEF Taken, URL
<1> HIDE DEF path
<1>3. Handler(verb, path) \in {"get_method", "post_method"}
  BY <1>1, <1>2, HandlerOf
<1> QED
  BY <1>1, <1>3 DEF path

(* The method routes of a described service, one by one.                   *)
LEMMA Listed ==
  ASSUME NEW s, s.described, NEW url \in MethodRoutes(s)
  PROVE  \E verb \in {"GET", "POST"}, m \in Methods(s) :
           url = URL(verb, <<Controllers, s.controller.name, <<Last(m)>> >>)
<1>1. PICK verb \in {"GET", "POST"}, l \in LocalMethods(s) : url = URL(verb, <<Controllers, s.controller.name, l>>)
  BY DEF MethodRoutes
<1>2. PICK m \in Methods(s) : l = <<Last(m)>>
  BY DEF LocalMethods
<1> QED
  BY <1>1, <1>2

(* A listed method route, requested with the name of its service.          *)
LEMMA ListedLeads ==
  ASSUME IInv, NEW s \in Present, s.described, NEW url \in MethodRoutes(s), Asks(url, s), ~Taken(url)
  PROVE  Reaches(s, s.controller.name \o url.path[3])
<1>1. PICK verb \in {"GET", "POST"}, m \in Methods(s) :
        url = URL(verb, <<Controllers, s.controller.name, <<Last(m)>> >>)
  BY Listed
<1> DEFINE path == <<Controllers, s.controller.name, <<Last(m)>> >>
<1>2. req # None /\ req.verb = verb /\ req.path = path /\ req.service = s.service
  BY <1>1, Asking DEF Asks
<1>3. /\ Handler(verb, path) \in {"get_method", "post_method"}
      /\ path[2] = s.controller.name /\ path[3] = <<Last(m)>> /\ path[Len(path)] = <<Last(m)>>
  BY <1>1, MethodRoute
<1>4. url.path = path
  BY <1>1 DEF URL
<1>5. PICK i \in DOMAIN services :
        /\ services[i] = s
        /\ MatchingServices(services, s.controller.name, s.service) = {i}
        /\ m = s.controller.name \o <<Last(m)>>
  BY Placed
<1>6. out.handler = Handler(verb, path)
  BY <1>2, Responding DEF IInv
<1> HIDE DEF path
<1>7. Reaches(services[i], req.path[2] \o req.path[Len(req.path)])
  BY <1>2, <1>3, <1>5, <1>6, Requested
<1> QED
  BY <1>2, <1>3, <1>4, <1>5, <1>7

(* The description of a service, requested with its name.                  *)
LEMMA SchemaLeads ==
  ASSUME IInv, NEW s \in Present, Asks(SchemaRoute(s), s), ~Taken(SchemaRoute(s))
  PROVE  out.outcome.service = s
<1> DEFINE path == <<Controllers, s.controller.name>>
<1>1. req # None /\ req.verb = "GET" /\ req.path = path /\ req.service = s.service
  BY Asking DEF Asks, SchemaRoute
<1>2. DOMAIN path = 1 .. 2 /\ Len(path) = 2 /\ path[1] = <<"controllers">> /\ path[2] = s.controller.name
  BY DEF Controllers
<1>3. path[2] # <<"refresh">>
  BY <1>2 DEF Taken, SchemaRoute, URL
<1> HIDE DEF path
<1>4. out.outcome = Describe(services, s.controller.name, s.service)
  BY <1>1, <1>2, <1>3, HandlerOf, Responding DEF IInv
<1>5. PICK i \in DOMAIN services :
        services[i] = s /\ MatchingServices(services, s.controller.name, s.service) = {i}
  BY Placed
<1>6. /\ Cardinality(MatchingServices(services, s.controller.name, s.service)) = 1
      /\ First(MatchingServices(services, s.controller.name, s.service)) = i
  <2>1. services \in Snapshots /\ MatchingServices(services, s.controller.name, s.service) \in SUBSET DOMAIN services
    BY <1>5 DEF IInv
  <2> QED
    BY <1>5, <2>1, OnlyOne
<1> QED
  BY <1>4, <1>5, <1>6 DEF Describe, Outcome

(* A documented route, requested as it is documented, without a service.   *)
LEMMA DocumentedLeads ==
  ASSUME IInv, req # None, req.service = None,
         NEW documented, documented = Documented(services, URL(req.verb, req.path)), documented # {},
         ~Taken(URL(req.verb, req.path))
  PROVE  IF Cardinality(MatchingServices(services, req.path[2], None)) = 1
           THEN Reaches(services[Max(documented)], req.path[2] \o req.path[3])
           ELSE out.outcome.service = None /\ out.status = 404
<1> DEFINE n == req.path[2]
           matches == MatchingServices(services, n, None)
<1>1. ASSUME NEW i \in documented
      PROVE  /\ i \in matches /\ services[i].described
             /\ req.path[3] = req.path[Len(req.path)]
             /\ n \o req.path[3] \in Methods(services[i])
             /\ out.handler \in {"get_method", "post_method"}
  <2> DEFINE s == services[i]
  <2>1. i \in DOMAIN services /\ s.described /\ URL(req.verb, req.path) \in MethodRoutes(s) /\ s \in Present
    BY <1>1 DEF Documented, Present, Range
  <2>2. PICK verb \in {"GET", "POST"}, m \in Methods(s) :
          URL(req.verb, req.path) = URL(verb, <<Controllers, s.controller.name, <<Last(m)>> >>)
    BY <2>1, Listed
  <2> DEFINE path == <<Controllers, s.controller.name, <<Last(m)>> >>
  <2>3. req.verb = verb /\ req.path = path
    BY <2>2, Asking
  <2>4. /\ Handler(verb, path) \in {"get_method", "post_method"}
        /\ path[2] = s.controller.name /\ path[3] = <<Last(m)>> /\ path[Len(path)] = <<Last(m)>>
    BY <2>2, MethodRoute
  <2>5. m = s.controller.name \o <<Last(m)>>
    BY <2>1, Placed
  <2>6. out.handler = Handler(verb, path)
    BY <2>3, Responding DEF IInv
  <2> HIDE DEF path
  <2>7. i \in matches
    BY <2>1, <2>3, <2>4 DEF MatchingServices
  <2> QED
    BY <2>1, <2>3, <2>4, <2>5, <2>6, <2>7
<1>2. services \in Snapshots /\ matches \in SUBSET DOMAIN services
  BY DEF IInv, MatchingServices
<1>3. CASE Cardinality(matches) = 1
  <2>1. PICK i \in DOMAIN services : matches = {i}
    BY <1>2, <1>3, OnlyOne
  <2>2. documented = {i}
    BY <1>1, <2>1
  <2>3. Max(documented) = i
    <3>1. i \in Nat
      BY <1>2, SnapshotAssumption, LenProperties
    <3> QED
      BY <2>2, <3>1 DEF Max
  <2>4. Reaches(services[i], n \o req.path[Len(req.path)])
    BY <1>1, <2>1, <2>2, Requested
  <2> QED
    BY <1>1, <1>3, <2>2, <2>3, <2>4
<1>4. CASE Cardinality(matches) # 1
  <2>1. /\ out.outcome = CallMethod(services, n, None, req.path[Len(req.path)], req.params)
        /\ out.status = Status(out.outcome.code)
    BY <1>1, Responding DEF IInv
  <2>2. out.outcome = Nothing(METHOD_NOT_FOUND)
    BY <1>4, <2>1 DEF CallMethod, CallService
  <2>3. out.outcome.service = None /\ out.outcome.code = METHOD_NOT_FOUND
    BY <2>2 DEF Nothing, Outcome
  <2>4. Status(METHOD_NOT_FOUND) = 404
    BY DEF Status, OK, METHOD_NOT_FOUND, INVALID_PARAMS, INTERNAL_ERROR
  <2> QED
    BY <1>4, <2>1, <2>3, <2>4
<1> QED
  BY <1>3, <1>4

(* Every route that the gateway lists or documents leads to the method it  *)
(* is for, for any services, whatever they are called.                     *)
THEOREM ListedLead == Spec => []ListedRoutesLead
<1>1. IInv => ListedRoutesLead
  <2> SUFFICES ASSUME IInv
               PROVE  ListedRoutesLead
    OBVIOUS
  <2>1. \A s \in Present : s.described =>
          /\ \A url \in MethodRoutes(s) : Asks(url, s) /\ ~Taken(url) =>
               Reaches(s, s.controller.name \o url.path[3])
          /\ Asks(SchemaRoute(s), s) /\ ~Taken(SchemaRoute(s)) => out.outcome.service = s
    BY ListedLeads, SchemaLeads
  <2> QED
    BY <2>1, DocumentedLeads DEF ListedRoutesLead
<1> QED
  BY <1>1, Invariance, PTL

=============================================================================
