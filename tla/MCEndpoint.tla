----------------------------- MODULE MCEndpoint -----------------------------
(***************************************************************************)
(* Every request of a bounded set, dispatched once by every controller of  *)
(* a bounded set.                                                          *)
(***************************************************************************)
EXTENDS Dispatch

Member(name, public, params, accepts, details, body) ==
  [name |-> name, public |-> public, callable |-> TRUE, params |-> params,
   result |-> "model", accepts |-> accepts, details |-> details, body |-> body]

Menu == << Member("_p", FALSE, "model", {"good"}, "plain",  "returns"),
           Member("a",  TRUE,  "model", {"good"}, "plain",  "returns"),
           Member("b",  TRUE,  "model", {"good"}, "plain",  "raises"),
           Member("o",  TRUE,  "model", {"good"}, "opaque", "opaque"),
           Member("u",  TRUE,  "other", {"good"}, "plain",  "returns") >>

MCControllers ==
  {[name |-> n, members |-> SelectSeq(Menu, LAMBDA m : m.name \in kept)] :
     n \in {<<"a">>, <<"a", "b">>},
     kept \in SUBSET {Menu[i].name : i \in DOMAIN Menu}}

MCSegments == {Menu[i].name : i \in DOMAIN Menu} \cup {""}

Methods == UNION {[1 .. n -> MCSegments] : n \in 1 .. 3}

MCRequests ==
  {[parses |-> p, id |-> i, method |-> m, params |-> v] :
     p \in BOOLEAN, i \in {7}, m \in Methods, v \in {"good", "bad"}}

=============================================================================
