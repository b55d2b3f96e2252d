------------------------------ MODULE MCRoutes ------------------------------
(***************************************************************************)
(* Every HTTP request of a bounded set, answered once over every snapshot  *)
(* of a bounded set.                                                       *)
(***************************************************************************)
EXTENDS Answers

Member(name, body) ==
  [name |-> name, public |-> TRUE, callable |-> TRUE, params |-> "model",
   result |-> "model", accepts |-> {"good"}, details |-> "plain", body |-> body]

Menu ==
  {<<Member("x", "returns"), Member("y", "opaque")>>,
   <<Member("x", "raises"), Member("schema", "returns")>>,
   <<Member("rpc", "returns"), Member("methods", "returns")>>}

Names == {<<"a">>, <<"a", "b">>, <<"refresh">>}

MCServices ==
  [service : {"s1", "s2"},
   controller : [name : Names, members : Menu],
   described : BOOLEAN]

MCSnapshots ==
  {<<>>} \cup {<<s>> : s \in MCServices}
    \cup {ss \in MCServices \X MCServices :
            RpcEndpoint(ss[1]) # RpcEndpoint(ss[2]) /\ ss[1].service = "s1"}

Locals == {<<"x">>, <<"schema">>, <<"rpc">>, <<"methods">>, <<"b", "x">>}

Paths ==
  {<<Controllers, c>> : c \in Names}
    \cup {<<Controllers, c, m>> : c \in Names, m \in Locals}
    \cup {<<Controllers, c, <<"methods">>, m>> : c \in Names, m \in Locals}

Gets == [verb : {"GET"}, path : Paths, service : {None, "s1"}, method : {None}, params : {"good"}]

Posts ==
  [verb : {"POST"}, path : Paths, service : {"s1", "s2"}, method : {<<"x">>, <<"a", "b", "x">>},
   params : {"good", "bad"}]

Bridged ==
  [verb : {"POST"}, path : {<< <<"rpc">> >>}, service : {None},
   method : {<<"a", "x">>, <<"a", "b", "x">>, <<"a", "y">>, <<"b", "x">>}, params : {"good", "bad"}]

MCRequests == Gets \cup Posts \cup Bridged

MCSegments ==
  {"x", "y", "schema", "rpc", "methods", "a", "b", "refresh", "controllers"}

=============================================================================
