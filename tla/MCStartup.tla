----------------------------- MODULE MCStartup ------------------------------
(***************************************************************************)
(* Instances of Startup: who sets the variable, and whose controllers      *)
(* announce the same methods.                                              *)
(***************************************************************************)
EXTENDS Startup, TLC

CONSTANTS
  Upgraded,   \* the processes that run a newer controller
  OptedOut    \* the processes whose user has set the variable to 0

OptOuts == [p \in Procs |-> IF p \in OptedOut THEN "0" ELSE "unset"]

Versions == [p \in Procs |-> IF p \in Upgraded THEN 2 ELSE 1]

=============================================================================
