------------------------------ MODULE Promise -------------------------------
(***************************************************************************)
(* What a remote call promises its caller, whatever the transport does: a  *)
(* method runs at most once per call; an answer tells truly whether it     *)
(* ran; after a refusal or an answer "did not run" it never will; only a   *)
(* call that was lost (timed out, interrupted) leaves the caller not       *)
(* knowing, and such a call may run later, without its caller.             *)
(***************************************************************************)
EXTENDS Naturals

CONSTANT Calls

VARIABLES
  phase,    \* what the caller knows of each call
  effects   \* how often each call has run its method

vars == <<phase, effects>>

Phases == {"new", "open", "refused", "lost", "ran", "untouched"}

Init ==
  /\ phase = [c \in Calls |-> "new"]
  /\ effects = [c \in Calls |-> 0]

Turn(c, from, to) ==
  /\ phase[c] = from
  /\ phase' = [phase EXCEPT ![c] = to]
  /\ UNCHANGED effects

Invoke(c) == Turn(c, "new", "open")

Refuse(c) == Turn(c, "new", "refused")

Lose(c) == Turn(c, "open", "lost")

AnswerRan(c) == effects[c] = 1 /\ Turn(c, "open", "ran")

AnswerUntouched(c) == effects[c] = 0 /\ Turn(c, "open", "untouched")

Execute(c) ==
  /\ phase[c] \in {"open", "lost"}
  /\ effects[c] = 0
  /\ effects' = [effects EXCEPT ![c] = 1]
  /\ UNCHANGED phase

Next ==
  \E c \in Calls :
    \/ Invoke(c)
    \/ Refuse(c)
    \/ Lose(c)
    \/ AnswerRan(c)
    \/ AnswerUntouched(c)
    \/ Execute(c)

Spec == Init /\ [][Next]_vars

=============================================================================
