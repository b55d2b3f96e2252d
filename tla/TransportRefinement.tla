------------------------ MODULE TransportRefinement -------------------------
(***************************************************************************)
(* The proof that Transport implements Promise, under the mapping P of     *)
(* Transport: every call keeps an at-most-once promise.                    *)
(***************************************************************************)
EXTENDS TransportProofs

(* The value of the mapped variable phase. *)
phases == [tok \in Tokens |-> Phase(tok)]

(* Phase, case by case.                                                    *)
LEMMA PhaseCases ==
  ASSUME NEW tok
  PROVE  /\ outcome[tok] \in {"refused", "lost"} => Phase(tok) = outcome[tok]
         /\ outcome[tok] \in EffectCodes => Phase(tok) = "ran"
         /\ outcome[tok] \in ReplyCodes \ EffectCodes => Phase(tok) = "untouched"
         /\ outcome[tok] = "none" /\ Waiting(tok) => Phase(tok) = "open"
         /\ outcome[tok] = "none" /\ ~Waiting(tok) => Phase(tok) = "new"
<1>1. EffectCodes \subseteq ReplyCodes
  BY DEF EffectCodes, ReplyCodes, Codes
<1> QED
  BY <1>1, OutcomesDiffer DEF Phase

LEMMA PhaseCasesNext ==
  ASSUME NEW tok
  PROVE  /\ outcome'[tok] \in {"refused", "lost"} => Phase(tok)' = outcome'[tok]
         /\ outcome'[tok] \in EffectCodes => Phase(tok)' = "ran"
         /\ outcome'[tok] \in ReplyCodes \ EffectCodes => Phase(tok)' = "untouched"
         /\ outcome'[tok] = "none" /\ Waiting(tok)' => Phase(tok)' = "open"
         /\ outcome'[tok] = "none" /\ ~Waiting(tok)' => Phase(tok)' = "new"
<1>1. EffectCodes \subseteq ReplyCodes
  BY DEF EffectCodes, ReplyCodes, Codes
<1> QED
  BY <1>1, OutcomesDiffer DEF Phase

LEMMA SamePhase ==
  ASSUME NEW tok, UNCHANGED outcome, Waiting(tok)' <=> Waiting(tok)
  PROVE  Phase(tok)' = Phase(tok)
  BY DEF Phase

-----------------------------------------------------------------------------

(* A step that leaves every phase but one, and all effects, as they were.  *)
LEMMA OneTurn ==
  ASSUME NEW tok \in Tokens, NEW from, NEW to,
         UNCHANGED ran,
         \A k \in Tokens : k # tok => Phase(k)' = Phase(k),
         Phase(tok) = from, Phase(tok)' = to
  PROVE  P!Turn(tok, from, to)
<1>1. phases' = [phases EXCEPT ![tok] = to]
  BY DEF phases
<1>2. phases[tok] = from
  BY DEF phases
<1> QED
  BY <1>1, <1>2 DEF P!Turn, phases

LEMMA InitPromise == Init => P!Init
<1> SUFFICES ASSUME Init PROVE P!Init
  OBVIOUS
<1>1. \A tok \in Tokens : Phase(tok) = "new"
  BY PhaseCases, TokenParts DEF Init, Waiting
<1> QED
  BY <1>1 DEF Init, P!Init

(* The steps of a thread that do not begin or end a call's waiting.        *)
LEMMA PreparingStutters ==
  ASSUME IInv, NEW t \in Threads,
         Call(t) \/ AskDescriptor(t) \/ StoreCounter(t) \/ Number(t) \/ PollEmpty(t)
  PROVE  UNCHANGED P!vars
<1>1. UNCHANGED <<outcome, ran>>
  BY DEF Call, AskDescriptor, StoreCounter, Number, PollEmpty
<1>2. \A tok \in Tokens : Waiting(tok)' <=> Waiting(tok)
  BY TokenParts DEF Call, AskDescriptor, StoreCounter, Number, PollEmpty, Waiting, Current,
                    IInv, TypeOK
<1>3. \A tok \in Tokens : Phase(tok)' = Phase(tok)
  BY <1>1, <1>2, SamePhase
<1> QED
  BY <1>1, <1>3 DEF P!vars

LEMMA SendInvokes ==
  ASSUME IInv, NEW t \in Threads, Send(t)
  PROVE  P!Next
<1>1. PICK tok \in Tokens : tok = Current(t) /\ outcome[tok] = "none" /\ tok[1] = t
  BY CurrentToken DEF IInv, Send, Current
<1>2. UNCHANGED <<outcome, ran>>
  BY DEF Send
<1>3. \A k \in Tokens : Waiting(k)' <=> Waiting(k) \/ k = tok
  BY <1>1, TokenParts DEF Send, Waiting, Current, IInv, TypeOK
<1>4. ~Waiting(tok)
  BY <1>1 DEF Send, Waiting
<1>5. \A k \in Tokens : k # tok => Phase(k)' = Phase(k)
  BY <1>2, <1>3, SamePhase
<1>6. Phase(tok) = "new" /\ Phase(tok)' = "open"
  BY <1>1, <1>2, <1>3, <1>4, PhaseCases, PhaseCasesNext
<1>7. P!Turn(tok, "new", "open")
  BY <1>1, <1>2, <1>5, <1>6, OneTurn
<1> QED
  BY <1>1, <1>7 DEF P!Next, P!Invoke

LEMMA LeaveEnds ==
  ASSUME IInv, NEW t \in Threads, pc[t] # "idle",
         NEW ending \in ReplyCodes \cup {"refused", "lost"}, Leave(t, ending),
         ending = "refused" <=> pc[t] # "poll",
         ending \in ReplyCodes => Settled(Current(t), ending)
  PROVE  P!Next
<1>1. PICK tok \in Tokens : /\ tok = Current(t) /\ tok[1] = t
                            /\ outcome[tok] = "none"
                            /\ Waiting(tok) <=> pc[t] = "poll"
  <2>1. Current(t) \in Tokens /\ outcome[Current(t)] = "none" /\ Current(t)[1] = t
    BY CurrentToken DEF IInv, Current
  <2> QED
    BY <2>1 DEF Waiting
<1>2. UNCHANGED <<ran, calls>>
  BY DEF Leave
<1>3. \A k \in Tokens : outcome'[k] = IF k = tok THEN ending ELSE outcome[k]
  <2>1. outcome' = [outcome EXCEPT ![tok] = ending]
    BY <1>1 DEF Leave
  <2> QED
    BY <2>1 DEF IInv, TypeOK
<1>4. \A k \in Tokens : k # tok => (Waiting(k)' <=> Waiting(k))
  BY <1>1, TokenParts DEF Leave, Waiting, Current, IInv, TypeOK
<1>5. \A k \in Tokens : k # tok => Phase(k)' = Phase(k)
  BY <1>3, <1>4 DEF Phase
<1>6. CASE ending = "refused"
  <2>1. ~Waiting(tok) /\ outcome'[tok] = "refused"
    BY <1>1, <1>3, <1>6
  <2>2. Phase(tok) = "new" /\ Phase(tok)' = "refused"
    BY <1>1, <2>1, PhaseCases, PhaseCasesNext
  <2>3. P!Turn(tok, "new", "refused")
    BY <1>1, <1>2, <1>5, <2>2, OneTurn
  <2> QED
    BY <1>1, <2>3 DEF P!Next, P!Refuse
<1>7. CASE ending = "lost"
  <2>1. Phase(tok) = "open" /\ Phase(tok)' = "lost"
    BY <1>1, <1>3, <1>7, PhaseCases, PhaseCasesNext
  <2>2. P!Turn(tok, "open", "lost")
    BY <1>1, <1>2, <1>5, <2>1, OneTurn
  <2> QED
    BY <1>1, <2>2 DEF P!Next, P!Lose
<1>8. CASE ending \in ReplyCodes
  <2>1. Phase(tok) = "open"
    BY <1>1, <1>8, PhaseCases, OutcomesDiffer
  <2>2. ran[tok] = IF ending \in EffectCodes THEN 1 ELSE 0
    <3>1. Settled(tok, ending)
      BY <1>1, <1>8
    <3> QED
      BY <3>1 DEF Settled
  <2>3. CASE ending \in EffectCodes
    <3>1. Phase(tok)' = "ran"
      BY <1>1, <1>3, <2>3, PhaseCasesNext
    <3>2. P!Turn(tok, "open", "ran")
      BY <1>1, <1>2, <1>5, <2>1, <3>1, OneTurn
    <3> QED
      BY <1>1, <2>2, <2>3, <3>2 DEF P!Next, P!AnswerRan
  <2>4. CASE ending \notin EffectCodes
    <3>1. Phase(tok)' = "untouched"
      BY <1>1, <1>3, <1>8, <2>4, PhaseCasesNext
    <3>2. P!Turn(tok, "open", "untouched")
      BY <1>1, <1>2, <1>5, <2>1, <3>1, OneTurn
    <3> QED
      BY <1>1, <2>2, <2>4, <3>2 DEF P!Next, P!AnswerUntouched
  <2> QED
    BY <2>3, <2>4
<1> QED
  BY <1>6, <1>7, <1>8

LEMMA ThreadsKeepPromise ==
  ASSUME IInv, NEW t \in Threads, Client(t)
  PROVE  P!Next \/ UNCHANGED P!vars
<1>1. CASE SendRefused(t)
  BY <1>1, LeaveEnds, OutcomesDiffer DEF SendRefused
<1>2. CASE PollReply(t)
  <2>1. inbox[t] \in Seq(Responses) /\ Len(inbox[t]) = 1
    BY <1>2 DEF IInv, TypeOK, AnswerInv, PollReply
  <2>2. Head(inbox[t]) = inbox[t][1] /\ inbox[t][1] \in Responses
    BY <2>1
  <2>3. Head(inbox[t]).code \in ReplyCodes
    BY <2>2 DEF Responses
  <2>4. Settled(Current(t), Head(inbox[t]).code)
    BY <1>2, <2>2 DEF IInv, AnswerInv, PollReply
  <2> QED
    BY <1>2, <2>3, <2>4, LeaveEnds, OutcomesDiffer DEF PollReply
<1>3. CASE Expire(t)
  BY <1>3, LeaveEnds, OutcomesDiffer DEF Expire
<1>4. CASE Interrupted(t)
  BY <1>4, LeaveEnds, OutcomesDiffer DEF Interrupted
<1>5. CASE Send(t)
  BY <1>5, SendInvokes
<1> QED
  BY <1>1, <1>2, <1>3, <1>4, <1>5, PreparingStutters DEF Client, Progress

-----------------------------------------------------------------------------

(* The server's steps change no phase; they run nothing, or what is being  *)
(* built, once.                                                            *)
LEMMA ServerKeepsPromise ==
  ASSUME IInv, UNCHANGED clientVars,
         \/ UNCHANGED ran
         \/ spc = "build" /\ ran' = [ran EXCEPT ![active.from] = @ + 1]
  PROVE  P!Next \/ UNCHANGED P!vars
<1>1. \A tok : Phase(tok)' = Phase(tok)
  BY ClientsRest, SamePhase DEF clientVars
<1>2. CASE UNCHANGED ran
  BY <1>1, <1>2 DEF P!vars
<1>3. CASE spc = "build" /\ ran' = [ran EXCEPT ![active.from] = @ + 1]
  <2> DEFINE tok == active.from
  <2>1. tok \in Tokens /\ ran[tok] = 0 /\ Sent(tok) /\ InHand(tok)
    BY <1>3, MessageParts DEF IInv, ServerInv, ActiveReleased, TypeOK, EffectInv,
                              OncePlaced, InHand
  <2>2. outcome[tok] \notin ReplyCodes
    BY <1>3, <2>1 DEF IInv, AnswerInv, Settled
  <2>3. outcome[tok] \in {"none", "refused", "lost"}
    BY <2>1, <2>2 DEF IInv, TypeOK
  <2>4. Waiting(tok) => outcome[tok] = "none"
    BY <2>1, TokenParts, CurrentToken DEF Waiting, IInv
  <2>5. Phase(tok) \in {"open", "lost"}
    BY <2>1, <2>3, <2>4, PhaseCases DEF Sent
  <2>6. ran' = [ran EXCEPT ![tok] = 1]
    BY <1>3, <2>1
  <2>7. P!Execute(tok)
    BY <1>1, <2>1, <2>5, <2>6 DEF P!Execute
  <2> QED
    BY <2>1, <2>7 DEF P!Next
<1> QED
  BY <1>2, <1>3

LEMMA NextPromise == IInv /\ [Next]_vars => [P!Next]_(P!vars)
<1> SUFFICES ASSUME IInv, [Next]_vars PROVE P!Next \/ UNCHANGED P!vars
  OBVIOUS
<1>1. ASSUME NEW t \in Threads, Client(t)
      PROVE  P!Next \/ UNCHANGED P!vars
  BY <1>1, ThreadsKeepPromise
<1>2. ASSUME NEW q \in wire, Discard(q)
      PROVE  P!Next \/ UNCHANGED P!vars
  BY <1>2, ServerKeepsPromise DEF Discard
<1>3. CASE Loop
  BY <1>3, ServerKeepsPromise DEF Loop, Wake, Receive, EmptyDrain, BuildRpc, BuildSchema,
                                  SendReply, SendFails, Delete, Close
<1>4. CASE Interrupt \/ Crash \/ Restart
  BY <1>4, ServerKeepsPromise DEF Interrupt, Crash, Restart
<1>5. CASE UNCHANGED vars
  BY <1>5, ServerKeepsPromise DEF vars
<1> QED
  BY <1>1, <1>2, <1>3, <1>4, <1>5 DEF Next

(* The transport implements the promise: for its caller, a call runs at    *)
(* most once, an answer or a refusal tells whether it ran, and only a call *)
(* that was lost may run without its caller knowing.                       *)
THEOREM ImplementsPromise == Spec => KeepsPromise
  BY InitPromise, NextPromise, Invariance, PTL DEF Spec, KeepsPromise, P!Spec

=============================================================================
