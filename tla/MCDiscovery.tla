---------------------------- MODULE MCDiscovery -----------------------------
(***************************************************************************)
(* An instance of Discovery: two processes, the first of which force-      *)
(* removes or not, the second upgraded.                                    *)
(***************************************************************************)
EXTENDS Discovery, TLC

CONSTANTS
  Upgraded,   \* the processes that run a newer controller
  OptedOut    \* the processes whose user has set the variable to 0

OptOuts == [p \in Procs |-> IF p \in OptedOut THEN "0" ELSE "unset"]

Versions == [p \in Procs |-> IF p \in Upgraded THEN 2 ELSE 1]

=============================================================================
