---------------------------- MODULE MCTransport -----------------------------
(***************************************************************************)
(* Instances of Transport: one small controller, and what is asked of it.  *)
(***************************************************************************)
EXTENDS Transport, TLC

Member(name, details, body) ==
  [name |-> name, public |-> TRUE, callable |-> TRUE, params |-> "model",
   result |-> "model", accepts |-> {"good"}, details |-> details, body |-> body]

(* One method that returns, one that raises, one whose result no JSON      *)
(* encoder takes.                                                          *)
MCController ==
  [name    |-> <<"m">>,
   members |-> << Member("add", "plain", "returns"),
                  Member("div", "plain", "raises"),
                  Member("img", "plain", "opaque") >>]

Ask(name, params) == [method |-> <<"m", name>>, params |-> params]

(* Every way a dispatch can end. *)
AllAsks == {Ask("add", "good"), Ask("add", "bad"), Ask("div", "good"),
            Ask("img", "good"), Ask("sub", "good")}

(* One that succeeds and one that is rejected before its effect.           *)
TwoAsks == {Ask("add", "good"), Ask("add", "bad")}

(* One that succeeds and one that ends the server.                         *)
SucceedsOrEscapes == {Ask("add", "good"), Ask("img", "good")}

Symmetry == Permutations(Callers) \cup Permutations(Probers)

=============================================================================
