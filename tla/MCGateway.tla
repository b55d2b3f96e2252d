----------------------------- MODULE MCGateway ------------------------------
(***************************************************************************)
(* Instances of Gateway: a camera controller that one service provides,    *)
(* then two, then another one, and a request of each kind.                 *)
(***************************************************************************)
EXTENDS Gateway, TLC

Service(name, open) ==
  [service |-> name, controller |-> "cam", methods |-> {<<"cam", "snap">>}, open |-> open]

MCCatalog ==
  0 :> {Service("left", TRUE)} @@
  1 :> {Service("left", TRUE), Service("right", FALSE)} @@
  2 :> {Service("right", TRUE)}

Ask(route, service, method) ==
  [route |-> route, controller |-> "cam", service |-> service, method |-> method]

MCAsks == {Ask("rpc", None, <<"cam", "snap">>),
           Ask("controller", "right", <<"snap">>),
           Ask("method", None, <<"snap">>),
           Ask("controller", None, <<"cam", "zoom">>)}

(* The world and the requests play no part. *)
NoAsks == {}

=============================================================================
