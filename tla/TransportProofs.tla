-------------------------- MODULE TransportProofs ---------------------------
(***************************************************************************)
(* Proofs about Transport, for any callers, probers, controller, requests  *)
(* and bounds.                                                             *)
(***************************************************************************)
EXTENDS Transport, TLAPS

-----------------------------------------------------------------------------
(* The dispatch, as far as the transport relies on it *)

(* Every dispatch yields a code of the list and truth values, says by its  *)
(* code whether the controller ran, and echoes the id of a request that    *)
(* parses.                                                                 *)
LEMMA DispatchResult ==
  ASSUME NEW ctl, NEW raw, raw.parses \in BOOLEAN
  PROVE  LET d == HandleBytes(ctl, raw)
         IN  /\ d.code \in Codes
             /\ d.runs \in BOOLEAN
             /\ d.encodes \in BOOLEAN
             /\ d.runs <=> d.code \in EffectCodes
             /\ d.id = IF raw.parses THEN raw.id ELSE None
<1>1. ASSUME NEW binding, NEW asked
      PROVE  LET d == Invoke(binding, asked)
             IN  /\ d.code \in Codes
                 /\ d.runs \in BOOLEAN
                 /\ d.encodes \in BOOLEAN
                 /\ d.runs <=> d.code \in EffectCodes
                 /\ d.id = asked.id
  BY DEF Invoke, Dispatched, Codes, EffectCodes, OK, PARSE_ERROR, METHOD_NOT_FOUND,
         INVALID_PARAMS, INTERNAL_ERROR
<1>2. LET d == Handle(ctl, raw)
      IN  /\ d.code \in Codes
          /\ d.runs \in BOOLEAN
          /\ d.encodes \in BOOLEAN
          /\ d.runs <=> d.code \in EffectCodes
          /\ d.id = raw.id
  BY <1>1 DEF Handle, Dispatched, Codes, EffectCodes, OK, PARSE_ERROR, METHOD_NOT_FOUND,
         INVALID_PARAMS, INTERNAL_ERROR
<1> QED
  BY <1>2 DEF HandleBytes, Dispatched, Codes, EffectCodes, OK, PARSE_ERROR,
         METHOD_NOT_FOUND, INVALID_PARAMS, INTERNAL_ERROR

-----------------------------------------------------------------------------
(* The inductive invariant *)

(* The request of the call is where a server can still take it up.         *)
OnTheWire(tok) == \E q \in wire : q.from = tok

(* The server holds the request, and the controller has not been run yet.  *)
InHand(tok) == active # None /\ active.from = tok

Sent(tok) == Waiting(tok) \/ outcome[tok] \notin {"none", "refused"}

(* What has become of a call whose answer has the given code.              *)
Settled(tok, code) ==
  /\ ran[tok] = IF code \in EffectCodes THEN 1 ELSE 0
  /\ ~OnTheWire(tok)
  /\ ~(spc = "build" /\ InHand(tok))

(* Threads and tokens: a thread in a call is at a token of its own, still  *)
(* without outcome, and the tokens of later calls are untouched.           *)
TokenInv ==
  /\ \A t \in Threads :
       /\ pc[t] # "idle" => calls[t] >= 1 /\ outcome[Current(t)] = "none"
       /\ pc[t] # "idle" => request[t] \in Requests
       /\ pc[t] \in {"store", "number"} => request[t].parses
       /\ inbox[t] # << >> => pc[t] = "poll"
  /\ \A tok \in Tokens : tok[2] > calls[tok[1]] => outcome[tok] = "none"

(* The server's registers agree with its program counter.                  *)
ServerInv ==
  /\ ActiveReleased
  /\ reply # None <=> spc = "send"
  /\ raising => spc = "delete"
  /\ spc \notin {"drain", "build", "send", "delete"} => channel = "schema"
  /\ spc = "down" => wire = {}
  /\ active # None => channel = Channel(active.from[1])

(* A request is in one place at a time, and that place is one where only   *)
(* a sent request can be.                                                  *)
OncePlaced ==
  /\ \A q \in wire : Sent(q.from) /\ ~InHand(q.from)
  /\ \A q1, q2 \in wire : q1.from = q2.from => q1 = q2
  /\ active # None => Sent(active.from)

(* While a request can still be taken up its method has not run; nor has   *)
(* that of a request that was never sent.                                  *)
EffectInv ==
  /\ \A tok \in Tokens : ran[tok] \in {0, 1}
  /\ \A tok \in Tokens : ~Sent(tok) => ran[tok] = 0
  /\ \A q \in wire : ran[q.from] = 0
  /\ spc = "build" => ran[active.from] = 0

(* Requests keep their content on the way, and answers belong to them.     *)
AnswerInv ==
  /\ \A q \in wire : Waiting(q.from) => q.raw = request[q.from[1]]
  /\ active # None /\ Waiting(active.from) => active.raw = request[active.from[1]]
  /\ spc = "send" => reply = AnswerTo(active.from, active.raw) /\ Settled(reply.of, reply.code)
  /\ \A t \in Threads : inbox[t] # << >> =>
       /\ Len(inbox[t]) = 1
       /\ inbox[t][1] = AnswerTo(Current(t), request[t])
       /\ Settled(Current(t), inbox[t][1].code)
       /\ ~(spc \in {"build", "send"} /\ InHand(Current(t)))
  /\ \A tok \in Tokens : outcome[tok] \in ReplyCodes => Settled(tok, outcome[tok])

IInv ==
  /\ TypeOK
  /\ TokenInv
  /\ ServerInv
  /\ OncePlaced
  /\ EffectInv
  /\ AnswerInv

-----------------------------------------------------------------------------
(* Facts about the data *)

LEMMA TokenParts ==
  ASSUME NEW tok \in Tokens
  PROVE  tok = <<tok[1], tok[2]>> /\ tok[1] \in Threads /\ tok[2] \in 1 .. MaxCalls
  BY DEF Tokens

LEMMA RequestParts ==
  ASSUME NEW r \in Requests
  PROVE  /\ r.parses \in BOOLEAN /\ r.id \in Ids
         /\ r.parses => r \in CallRequests
<1>1. CASE r = Probe
  <2>1. r.parses = FALSE /\ r.id = None
    BY <1>1 DEF Probe
  <2> QED
    BY <2>1 DEF Ids
<1>2. CASE r \in CallRequests
  <2>1. r.parses = TRUE /\ r.id \in Ids
    BY <1>2 DEF CallRequests
  <2> QED
    BY <1>2, <2>1
<1> QED
  BY <1>1, <1>2 DEF Requests

LEMMA MessageParts ==
  ASSUME NEW q \in Messages
  PROVE  /\ q.from \in Tokens /\ q.raw \in Requests
         /\ q.raw.parses \in BOOLEAN /\ q.raw.id \in Ids
         /\ q # None
<1>1. q.from \in Tokens /\ q.raw \in Requests /\ q # None
  BY NoneAssumption DEF Messages
<1> QED
  BY <1>1, RequestParts

(* What the dispatch of a message puts into a response.                    *)
LEMMA DispatchOfMessage ==
  ASSUME NEW q \in Messages
  PROVE  LET d == HandleBytes(Controller, q.raw)
         IN  /\ d.runs \in BOOLEAN /\ d.encodes \in BOOLEAN
             /\ d.runs <=> d.code \in EffectCodes
             /\ Response(q.from, d.id, d.code) \in Responses
<1>1. LET d == HandleBytes(Controller, q.raw)
      IN  /\ d.code \in Codes /\ d.runs \in BOOLEAN /\ d.encodes \in BOOLEAN
          /\ d.runs <=> d.code \in EffectCodes
          /\ d.id = IF q.raw.parses THEN q.raw.id ELSE None
  BY MessageParts, DispatchResult
<1> QED
  BY <1>1, MessageParts DEF Response, Responses, ReplyCodes, Ids

(* The call a busy thread is at.                                           *)
LEMMA CurrentToken ==
  ASSUME TypeOK, TokenInv, NEW t \in Threads, pc[t] # "idle"
  PROVE  Current(t) \in Tokens /\ outcome[Current(t)] = "none"
  BY TransportAssumption DEF TypeOK, TokenInv, Current, Tokens

-----------------------------------------------------------------------------
(* A thread before its send *)

(* As long as no thread begins or ends waiting, and the server and the     *)
(* wire stay as they are, the parts of the invariant about them hold.      *)
LEMMA Preparing ==
  ASSUME IInv, NEW t \in Threads, pc[t] # "poll", NEW p, p # "poll", NEW n, NEW r,
         pc' = [pc EXCEPT ![t] = p],
         calls' = [calls EXCEPT ![t] = n],
         request' = [request EXCEPT ![t] = r],
         UNCHANGED <<outcome, inbox, wire, linked, serverVars, ran>>
  PROVE  ServerInv' /\ OncePlaced' /\ EffectInv' /\ AnswerInv'
<1> USE DEF IInv
<1>1. \A tok : tok[1] \in Threads => (Waiting(tok)' <=> Waiting(tok))
  BY DEF TypeOK, Waiting, Current
<1>2. \A tok : tok[1] \in Threads => (Sent(tok)' <=> Sent(tok))
  BY <1>1 DEF Sent
<1>3. \A q \in wire : q.from \in Tokens /\ q.from[1] \in Threads
  BY TokenParts, MessageParts DEF TypeOK
<1>4. active # None => active.from \in Tokens /\ active.from[1] \in Threads
  BY TokenParts, MessageParts DEF TypeOK
<1>5. ServerInv'
  BY DEF ServerInv, ActiveReleased, serverVars
<1>6. OncePlaced'
  BY <1>2, <1>3, <1>4 DEF OncePlaced, InHand, serverVars
<1>7. EffectInv'
  BY <1>2, TokenParts DEF EffectInv, serverVars
<1>8. \A tok, code : Settled(tok, code)' <=> Settled(tok, code)
  BY DEF Settled, OnTheWire, InHand, serverVars
<1>9. AnswerInv'
  <2>1. \A u \in Threads : inbox[u] # << >> =>
          u # t /\ Current(u)' = Current(u) /\ request'[u] = request[u]
    BY DEF TypeOK, TokenInv, Current
  <2>2. ASSUME NEW q, q.from[1] \in Threads, Waiting(q.from)'
        PROVE  Waiting(q.from) /\ request'[q.from[1]] = request[q.from[1]]
    BY <1>1, <2>2 DEF Waiting, TypeOK
  <2>3. \A q \in wire' : Waiting(q.from)' => q.raw = request'[q.from[1]]
    BY <1>3, <2>2 DEF AnswerInv
  <2>4. active' # None /\ Waiting(active.from)' => active'.raw = request'[active'.from[1]]
    BY <1>4, <2>2 DEF AnswerInv, serverVars
  <2>5. spc' = "send" => reply' = AnswerTo(active.from, active.raw)'
                         /\ Settled(reply.of, reply.code)'
    BY <1>8 DEF AnswerInv, AnswerTo, Response, serverVars
  <2>6. \A u \in Threads : inbox'[u] # << >> =>
          /\ Len(inbox'[u]) = 1
          /\ inbox'[u][1] = AnswerTo(Current(u), request[u])'
          /\ Settled(Current(u), inbox[u][1].code)'
          /\ ~(spc' \in {"build", "send"} /\ InHand(Current(u))')
    BY <1>8, <2>1 DEF AnswerInv, AnswerTo, Response, InHand, serverVars
  <2>7. \A tok \in Tokens : outcome'[tok] \in ReplyCodes => Settled(tok, outcome[tok])'
    BY <1>8 DEF AnswerInv
  <2> QED
    BY <2>3, <2>4, <2>5, <2>6, <2>7 DEF AnswerInv
<1> QED
  BY <1>5, <1>6, <1>7, <1>9

(* A new call is at a token that has no outcome yet.                       *)
LEMMA Beginning ==
  ASSUME IInv, NEW t \in Threads, pc[t] = "idle", calls[t] < MaxCalls,
         NEW p, p # "poll", NEW r \in Requests, p # "send" => r.parses,
         calls' = [calls EXCEPT ![t] = @ + 1],
         pc' = [pc EXCEPT ![t] = p],
         request' = [request EXCEPT ![t] = r],
         UNCHANGED <<outcome, inbox>>
  PROVE  TokenInv'
<1> USE DEF IInv
<1>1. /\ calls[t] \in 0 .. MaxCalls
      /\ \A u \in Threads : calls'[u] = IF u = t THEN calls[t] + 1 ELSE calls[u]
      /\ \A u \in Threads : pc'[u] = IF u = t THEN p ELSE pc[u]
      /\ \A u \in Threads : request'[u] = IF u = t THEN r ELSE request[u]
  BY DEF TypeOK
<1>2. Current(t)' = <<t, calls[t] + 1>> /\ Current(t)' \in Tokens
  BY <1>1, TransportAssumption DEF Current, Tokens
<1>3. outcome[Current(t)'] = "none"
  BY <1>1, <1>2 DEF TokenInv
<1>4. \A u \in Threads : u # t => Current(u)' = Current(u)
  BY <1>1 DEF Current
<1>5. ASSUME NEW tok \in Tokens, tok[2] > calls'[tok[1]]
      PROVE  tok[2] > calls[tok[1]]
  <2> DEFINE u == tok[1]
             n == tok[2]
  <2>1. u \in Threads /\ n \in Int /\ calls[u] \in Int
    BY TokenParts, TransportAssumption DEF TypeOK
  <2>2. calls'[u] \in {calls[u], calls[u] + 1}
    BY <1>1, <2>1
  <2> HIDE DEF u, n
  <2>3. n > calls'[u]
    BY <1>5 DEF u, n
  <2>4. n > calls[u]
    BY <2>1, <2>2, <2>3
  <2> QED
    BY <2>4 DEF u, n
<1>6. ASSUME NEW u \in Threads
      PROVE  /\ pc'[u] # "idle" => calls'[u] >= 1 /\ outcome[Current(u)'] = "none"
             /\ pc'[u] # "idle" => request'[u] \in Requests
             /\ pc'[u] \in {"store", "number"} => request'[u].parses
             /\ inbox[u] # << >> => pc'[u] = "poll"
  <2>1. CASE u = t
    BY <1>1, <1>3, <2>1 DEF TokenInv
  <2>2. CASE u # t
    BY <1>1, <1>4, <2>2 DEF TokenInv
  <2> QED
    BY <2>1, <2>2
<1> QED
  BY <1>5, <1>6 DEF TokenInv

LEMMA CallStep ==
  ASSUME IInv, NEW t \in Threads, Call(t)
  PROVE  IInv'
<1>1. PICK ask \in Asks : request' = [request EXCEPT ![t] = Asking(ask)]
  BY DEF Call
<1>2. Asking(ask) \in Requests /\ Asking(ask).parses
  BY DEF Asking, Requests, CallRequests, Ids
<1>3. TypeOK'
  BY <1>1, <1>2, TransportAssumption DEF IInv, TypeOK, Call, serverVars
<1>4. TokenInv'
  BY <1>1, <1>2, Beginning DEF IInv, Call
<1> QED
  BY <1>1, <1>3, <1>4, Preparing DEF IInv, Call

LEMMA AskDescriptorStep ==
  ASSUME IInv, NEW t \in Threads, AskDescriptor(t)
  PROVE  IInv'
<1>1. Probe \in Requests
  BY DEF Requests
<1>2. TypeOK'
  BY <1>1, TransportAssumption DEF IInv, TypeOK, AskDescriptor, serverVars
<1>3. TokenInv'
  BY <1>1, Beginning DEF IInv, AskDescriptor
<1> QED
  BY <1>2, <1>3, Preparing DEF IInv, AskDescriptor

LEMMA StoreCounterStep ==
  ASSUME IInv, NEW t \in Threads, StoreCounter(t)
  PROVE  IInv'
<1>1. TypeOK'
  BY DEF IInv, TypeOK, StoreCounter, serverVars
<1>2. TokenInv'
  BY DEF IInv, TypeOK, TokenInv, StoreCounter, Current
<1>3. ServerInv' /\ OncePlaced' /\ EffectInv' /\ AnswerInv'
  <2>1. request' = [request EXCEPT ![t] = request[t]]
    BY DEF IInv, TypeOK, StoreCounter
  <2>2. calls' = [calls EXCEPT ![t] = calls[t]]
    BY DEF IInv, TypeOK, StoreCounter
  <2>3. /\ pc[t] # "poll"
        /\ pc' = [pc EXCEPT ![t] = "number"]
        /\ UNCHANGED <<outcome, inbox, wire, linked, serverVars, ran>>
    BY DEF StoreCounter
  <2> QED
    BY <2>1, <2>2, <2>3, Preparing
<1> QED
  BY <1>1, <1>2, <1>3 DEF IInv

LEMMA NumberStep ==
  ASSUME IInv, NEW t \in Threads, Number(t)
  PROVE  IInv'
<1>1. request[t] \in Requests /\ request[t].parses
  BY DEF IInv, TokenInv, Number
<1>2. /\ [request[t] EXCEPT !.id = counter] \in Requests
      /\ [request[t] EXCEPT !.id = counter].parses
  <2>1. request[t] \in CallRequests /\ counter \in Ids
    BY <1>1, RequestParts DEF IInv, TypeOK, Ids
  <2> QED
    BY <2>1 DEF Requests, CallRequests
<1>3. TypeOK'
  BY <1>2 DEF IInv, TypeOK, Number, serverVars
<1>4. TokenInv'
  BY <1>2 DEF IInv, TypeOK, TokenInv, Number, Current
<1>5. /\ request' = [request EXCEPT ![t] = [request[t] EXCEPT !.id = counter]]
      /\ calls' = [calls EXCEPT ![t] = calls[t]]
  BY DEF IInv, TypeOK, Number
<1> QED
  BY <1>3, <1>4, <1>5, Preparing DEF IInv, Number

-----------------------------------------------------------------------------
(* Sending, waiting, leaving *)

LEMMA SendStep ==
  ASSUME IInv, NEW t \in Threads, Send(t)
  PROVE  IInv'
<1> USE DEF IInv
<1> DEFINE tok == Current(t)
           msg == [from |-> tok, raw |-> request[t]]
<1>1. /\ tok \in Tokens /\ outcome[tok] = "none" /\ tok[1] = t
      /\ ~Waiting(tok) /\ ~Sent(tok) /\ ran[tok] = 0
  BY CurrentToken DEF Send, Sent, Waiting, Current, EffectInv
<1>2. msg \in Messages /\ request[t] \in Requests
  BY <1>1 DEF Send, Messages, TokenInv
<1>3. wire \subseteq wire' /\ wire' \subseteq wire \cup {msg}
  BY DEF Send
<1>4. /\ \A q \in wire : q.from # tok
      /\ ~InHand(tok)
  BY <1>1 DEF OncePlaced, InHand
<1>5. \A k \in Tokens : Waiting(k)' <=> Waiting(k) \/ k = tok
  BY <1>1, TokenParts DEF Send, Waiting, Current, TypeOK
<1>6. \A k \in Tokens : Sent(k)' <=> Sent(k) \/ k = tok
  BY <1>5 DEF Send, Sent
<1>7. UNCHANGED <<serverVars, ran, outcome, request, inbox, calls>>
  BY DEF Send
<1>8. \A q \in wire : q.from \in Tokens
  BY MessageParts DEF TypeOK
<1>9. active # None => active.from \in Tokens
  BY MessageParts DEF TypeOK
<1>10. inbox[t] = << >>
  BY DEF TokenInv, Send
<1>11. TypeOK'
  BY <1>2, <1>3, TransportAssumption DEF TypeOK, Send, serverVars
<1>12. TokenInv'
  BY DEF TypeOK, TokenInv, Send, Current
<1>13. ServerInv'
  <2>1. spc = "down" => wire' = wire
    BY DEF Send
  <2> QED
    BY <1>7, <2>1 DEF ServerInv, ActiveReleased, serverVars
<1>14. OncePlaced'
  BY <1>1, <1>3, <1>4, <1>6, <1>7, <1>8, <1>9 DEF OncePlaced, InHand, serverVars
<1>15. EffectInv'
  BY <1>1, <1>3, <1>6, <1>7 DEF EffectInv, serverVars
<1>16. AnswerInv'
  <2>1. \A k, code : k # tok => (Settled(k, code)' <=> Settled(k, code))
    BY <1>3, <1>7 DEF Settled, OnTheWire, InHand, serverVars
  <2>2. \A q \in wire' : Waiting(q.from)' => q.raw = request'[q.from[1]]
    BY <1>1, <1>3, <1>4, <1>5, <1>7, <1>8 DEF AnswerInv
  <2>3. active' # None /\ Waiting(active.from)' => active'.raw = request'[active'.from[1]]
    BY <1>4, <1>5, <1>7, <1>9 DEF AnswerInv, serverVars, InHand
  <2>4. spc' = "send" => reply' = AnswerTo(active.from, active.raw)'
                         /\ Settled(reply.of, reply.code)'
    <3>1. spc = "send" => active # None /\ active.from # tok /\ reply.of = active.from
      BY <1>4 DEF ServerInv, ActiveReleased, InHand, AnswerInv, AnswerTo, Response
    <3> QED
      BY <1>7, <2>1, <3>1 DEF AnswerInv, AnswerTo, Response, serverVars
  <2>5. \A u \in Threads : inbox'[u] # << >> =>
          /\ Len(inbox'[u]) = 1
          /\ inbox'[u][1] = AnswerTo(Current(u), request[u])'
          /\ Settled(Current(u), inbox[u][1].code)'
          /\ ~(spc' \in {"build", "send"} /\ InHand(Current(u))')
    <3>1. \A u \in Threads : inbox[u] # << >> => Current(u) # tok /\ Current(u)' = Current(u)
      BY <1>7, <1>10 DEF Current
    <3> QED
      BY <1>7, <2>1, <3>1 DEF AnswerInv, AnswerTo, Response, InHand, serverVars
  <2>6. \A k \in Tokens : outcome'[k] \in ReplyCodes => Settled(k, outcome[k])'
    <3>1. "none" \notin ReplyCodes
      BY DEF ReplyCodes, Codes, OK, PARSE_ERROR, METHOD_NOT_FOUND, INVALID_PARAMS,
             INTERNAL_ERROR, DESCRIPTOR
    <3> QED
      BY <1>1, <1>7, <2>1, <3>1 DEF AnswerInv
  <2> QED
    BY <2>2, <2>3, <2>4, <2>5, <2>6 DEF AnswerInv
<1> QED
  BY <1>11, <1>12, <1>13, <1>14, <1>15, <1>16

LEMMA PollEmptyStep ==
  ASSUME IInv, NEW t \in Threads, PollEmpty(t)
  PROVE  IInv'
<1> USE DEF IInv
<1>1. TypeOK'
  BY TransportAssumption DEF TypeOK, PollEmpty, serverVars
<1>2. TokenInv'
  BY DEF TokenInv, PollEmpty, Current
<1>3. ServerInv' /\ OncePlaced' /\ EffectInv'
  BY DEF ServerInv, ActiveReleased, OncePlaced, EffectInv, PollEmpty, Sent, Waiting,
         InHand, Current, serverVars
<1>4. AnswerInv'
  BY DEF AnswerInv, PollEmpty, AnswerTo, Response, Settled, OnTheWire, InHand, Waiting,
         Current, serverVars
<1> QED
  BY <1>1, <1>2, <1>3, <1>4

(* The codes and the other outcomes are different strings.                 *)
LEMMA OutcomesDiffer ==
  \A code \in ReplyCodes : code \notin {"none", "refused", "lost"}
  BY DEF ReplyCodes, Codes, OK, PARSE_ERROR, METHOD_NOT_FOUND, INVALID_PARAMS,
         INTERNAL_ERROR, DESCRIPTOR

(* However a call ends: its token counts as sent after it exactly if it    *)
(* did before, and what is recorded of it is settled.                      *)
LEMMA LeaveStep ==
  ASSUME IInv, NEW t \in Threads, pc[t] # "idle",
         NEW ending \in ReplyCodes \cup {"refused", "lost"}, Leave(t, ending),
         ending = "refused" <=> pc[t] # "poll",
         ending \in ReplyCodes => Settled(Current(t), ending)
  PROVE  IInv'
<1> USE DEF IInv
<1> DEFINE tok == Current(t)
<1>1. /\ tok \in Tokens /\ tok[1] = t
      /\ outcome[tok] = "none"
      /\ Waiting(tok) <=> pc[t] = "poll"
  BY CurrentToken DEF Waiting, Current
<1>2. UNCHANGED <<serverVars, ran, wire, calls>>
  BY DEF Leave
<1>3. \A k \in Tokens : outcome'[k] = IF k = tok THEN ending ELSE outcome[k]
  BY <1>1 DEF Leave, TypeOK
<1>4. \A k \in Tokens : Waiting(k)' <=> Waiting(k) /\ k # tok
  BY <1>1, TokenParts DEF Leave, Waiting, Current, TypeOK
<1>5. \A k \in Tokens : Sent(k)' <=> Sent(k)
  BY <1>1, <1>3, <1>4, OutcomesDiffer DEF Sent
<1>6. \A q \in wire : q.from \in Tokens
  BY MessageParts DEF TypeOK
<1>7. active # None => active.from \in Tokens
  BY MessageParts DEF TypeOK
<1>8. \A k, code : Settled(k, code)' <=> Settled(k, code)
  BY <1>2 DEF Settled, OnTheWire, InHand, serverVars
<1>9. \A u \in Threads : u # t =>
        /\ pc'[u] = pc[u] /\ request'[u] = request[u] /\ inbox'[u] = inbox[u]
        /\ Current(u)' = Current(u) /\ Current(u) # tok
  BY DEF Leave, TypeOK, Current
<1>10. pc'[t] = "idle" /\ inbox'[t] = << >>
  BY DEF Leave, TypeOK
<1>11. TypeOK'
  <2>1. /\ request' \in [Threads -> Requests \cup {None}]
        /\ polls' \in [Threads -> 0 .. MaxPolls]
        /\ loaded' \in [Threads -> Nat]
    BY TransportAssumption DEF TypeOK, Leave
  <2>2. inbox' \in [Threads -> Seq(Responses)]
    BY DEF TypeOK, Leave
  <2>3. outcome' \in [Tokens -> ReplyCodes \cup {"none", "refused", "lost"}]
    BY DEF TypeOK, Leave
  <2>4. pc' \in [Threads -> {"idle", "store", "number", "send", "poll"}]
    BY DEF TypeOK, Leave
  <2> QED
    BY <2>1, <2>2, <2>3, <2>4 DEF TypeOK, Leave, serverVars
<1>12. TokenInv'
  <2>1. ASSUME NEW u \in Threads
        PROVE  /\ pc'[u] # "idle" => calls'[u] >= 1 /\ outcome'[Current(u)'] = "none"
               /\ pc'[u] # "idle" => request'[u] \in Requests
               /\ pc'[u] \in {"store", "number"} => request'[u].parses
               /\ inbox'[u] # << >> => pc'[u] = "poll"
    <3>1. CASE u = t
      BY <1>10, <3>1
    <3>2. CASE u # t
      BY <1>2, <1>3, <1>9, <3>2, CurrentToken DEF TokenInv
    <3> QED
      BY <3>1, <3>2
  <2>2. \A k \in Tokens : k[2] > calls'[k[1]] => outcome'[k] = "none"
    <3>1. ~(tok[2] > calls[tok[1]])
      BY DEF Current, TypeOK
    <3> QED
      BY <1>2, <1>3, <3>1 DEF TokenInv
  <2> QED
    BY <2>1, <2>2 DEF TokenInv
<1>13. ServerInv'
  BY <1>2 DEF ServerInv, ActiveReleased, serverVars
<1>14. OncePlaced'
  BY <1>2, <1>5, <1>6, <1>7 DEF OncePlaced, InHand, serverVars
<1>15. EffectInv'
  BY <1>2, <1>5 DEF EffectInv, serverVars
<1>16. AnswerInv'
  <2>1. ASSUME NEW k \in Tokens, Waiting(k)'
        PROVE  Waiting(k) /\ request'[k[1]] = request[k[1]]
    <3>1. Waiting(k) /\ k # tok
      BY <1>4, <2>1
    <3>2. k[1] \in Threads /\ k[1] # t
      BY <3>1, TokenParts DEF Waiting
    <3> QED
      BY <1>9, <3>1, <3>2
  <2>2. \A q \in wire' : Waiting(q.from)' => q.raw = request'[q.from[1]]
    BY <1>2, <1>6, <2>1 DEF AnswerInv
  <2>3. active' # None /\ Waiting(active.from)' => active'.raw = request'[active'.from[1]]
    BY <1>2, <1>7, <2>1 DEF AnswerInv, serverVars
  <2>4. spc' = "send" => reply' = AnswerTo(active.from, active.raw)'
                         /\ Settled(reply.of, reply.code)'
    BY <1>2, <1>8 DEF AnswerInv, AnswerTo, Response, serverVars
  <2>5. ASSUME NEW u \in Threads, inbox'[u] # << >>
        PROVE  /\ Len(inbox'[u]) = 1
               /\ inbox'[u][1] = AnswerTo(Current(u), request[u])'
               /\ Settled(Current(u), inbox[u][1].code)'
               /\ ~(spc' \in {"build", "send"} /\ InHand(Current(u))')
    <3>1. u # t
      BY <1>10, <2>5
    <3> QED
      BY <1>2, <1>8, <1>9, <2>5, <3>1 DEF AnswerInv, AnswerTo, Response, InHand, serverVars
  <2>6. \A k \in Tokens : outcome'[k] \in ReplyCodes => Settled(k, outcome[k])'
    BY <1>3, <1>8 DEF AnswerInv
  <2> QED
    BY <2>2, <2>3, <2>4, <2>5, <2>6 DEF AnswerInv
<1> QED
  BY <1>11, <1>12, <1>13, <1>14, <1>15, <1>16

LEMMA SendRefusedStep ==
  ASSUME IInv, NEW t \in Threads, SendRefused(t)
  PROVE  IInv'
  BY LeaveStep, OutcomesDiffer DEF SendRefused

LEMMA PollReplyStep ==
  ASSUME IInv, NEW t \in Threads, PollReply(t)
  PROVE  IInv'
<1>1. inbox[t] \in Seq(Responses) /\ Len(inbox[t]) = 1
  BY DEF IInv, TypeOK, AnswerInv, PollReply
<1>2. Head(inbox[t]) = inbox[t][1] /\ inbox[t][1] \in Responses
  BY <1>1
<1>3. Head(inbox[t]).code \in ReplyCodes
  BY <1>2 DEF Responses
<1>4. Settled(Current(t), Head(inbox[t]).code)
  BY <1>2 DEF IInv, AnswerInv, PollReply
<1> QED
  BY <1>3, <1>4, LeaveStep, OutcomesDiffer DEF PollReply

LEMMA ExpireStep ==
  ASSUME IInv, NEW t \in Threads, Expire(t)
  PROVE  IInv'
  BY LeaveStep, OutcomesDiffer DEF Expire

LEMMA InterruptedStep ==
  ASSUME IInv, NEW t \in Threads, Interrupted(t)
  PROVE  IInv'
  BY LeaveStep, OutcomesDiffer DEF Interrupted

-----------------------------------------------------------------------------
(* The transport and the server *)

(* What the server's steps do not touch.                                   *)
LEMMA ClientsRest ==
  ASSUME IInv, UNCHANGED clientVars
  PROVE  /\ \A tok : Waiting(tok)' <=> Waiting(tok)
         /\ \A tok : Sent(tok)' <=> Sent(tok)
         /\ \A t : Current(t)' = Current(t)
  BY DEF clientVars, Waiting, Sent, Current

LEMMA DiscardStep ==
  ASSUME IInv, NEW q \in wire, Discard(q)
  PROVE  IInv'
<1> USE DEF IInv
<1>1. wire' \subseteq wire
  BY DEF Discard
<1>2. TypeOK'
  BY <1>1 DEF TypeOK, Discard, clientVars, serverVars
<1>3. TokenInv'
  BY DEF TokenInv, Discard, clientVars, Current
<1>4. ServerInv'
  BY <1>1 DEF ServerInv, ActiveReleased, Discard, serverVars
<1>5. OncePlaced' /\ EffectInv'
  BY <1>1 DEF OncePlaced, EffectInv, Discard, clientVars, serverVars, Sent, Waiting,
              InHand, Current
<1>6. AnswerInv'
  BY <1>1 DEF AnswerInv, Discard, clientVars, serverVars, Waiting, Current, AnswerTo,
              Response, Settled, OnTheWire, InHand
<1> QED
  BY <1>2, <1>3, <1>4, <1>5, <1>6

LEMMA ReceiveStep ==
  ASSUME IInv, Receive
  PROVE  IInv'
<1> USE DEF IInv
<1>1. PICK q \in wire : /\ Channel(q.from[1]) = channel
                        /\ wire' = wire \ {q}
                        /\ active' = q
  BY DEF Receive
<1>2. q \in Messages /\ q # None /\ q.from \in Tokens
  BY MessageParts DEF TypeOK
<1>3. /\ \A tok : Waiting(tok)' <=> Waiting(tok)
      /\ \A tok : Sent(tok)' <=> Sent(tok)
      /\ \A t : Current(t)' = Current(t)
  BY ClientsRest DEF Receive
<1>4. \A tok : InHand(tok)' <=> tok = q.from
  BY <1>1, <1>2 DEF InHand
<1>5. active = None /\ reply = None /\ ~raising /\ spc' = "build"
  BY DEF Receive, ServerInv, ActiveReleased
<1>6. \A k \in wire' : k.from # q.from
  BY <1>1 DEF OncePlaced
<1>7. TypeOK'
  BY <1>1, <1>2 DEF TypeOK, Receive, clientVars
<1>8. TokenInv'
  BY DEF TokenInv, Receive, clientVars, Current
<1>9. ServerInv'
  BY <1>1, <1>2, <1>5 DEF ServerInv, ActiveReleased, Receive, Channel
<1>10. OncePlaced'
  BY <1>1, <1>3, <1>4, <1>6 DEF OncePlaced
<1>11. EffectInv'
  BY <1>1, <1>3 DEF EffectInv, Receive
<1>12. AnswerInv'
  <2>1. ASSUME NEW tok, NEW code, Settled(tok, code)
        PROVE  Settled(tok, code)'
    BY <1>1, <1>4, <2>1 DEF Settled, OnTheWire, Receive
  <2>2. \A k \in wire' : Waiting(k.from)' => k.raw = request'[k.from[1]]
    BY <1>1, <1>3 DEF AnswerInv, Receive, clientVars
  <2>3. active' # None /\ Waiting(active.from)' => active'.raw = request'[active'.from[1]]
    BY <1>1, <1>3 DEF AnswerInv, Receive, clientVars
  <2>4. ASSUME NEW t \in Threads, inbox[t] # << >>
        PROVE  ~InHand(Current(t))'
    BY <1>1, <1>3, <1>4, <2>4 DEF AnswerInv, Settled, OnTheWire
  <2>5. \A t \in Threads : inbox'[t] # << >> =>
          /\ Len(inbox'[t]) = 1
          /\ inbox'[t][1] = AnswerTo(Current(t), request[t])'
          /\ Settled(Current(t), inbox[t][1].code)'
          /\ ~(spc' \in {"build", "send"} /\ InHand(Current(t))')
    BY <1>3, <2>1, <2>4 DEF AnswerInv, AnswerTo, Response, Receive, clientVars
  <2>6. \A tok \in Tokens : outcome'[tok] \in ReplyCodes => Settled(tok, outcome[tok])'
    BY <2>1 DEF AnswerInv, Receive, clientVars
  <2> QED
    BY <1>5, <2>2, <2>3, <2>5, <2>6 DEF AnswerInv
<1> QED
  BY <1>7, <1>8, <1>9, <1>10, <1>11, <1>12

(* The steps that end work on a request, or do none: they put nothing on   *)
(* the wire, run and deliver nothing, and leave nothing being built.       *)
LEMMA Releasing ==
  ASSUME IInv, wire' \subseteq wire, UNCHANGED <<clientVars, inbox, ran>>,
         active' \in {active, None}, spc' \notin {"build", "send"}
  PROVE  TokenInv' /\ OncePlaced' /\ EffectInv' /\ AnswerInv'
<1> USE DEF IInv
<1>1. TokenInv'
  BY DEF TokenInv, clientVars, Current
<1>2. \A tok : InHand(tok)' => InHand(tok)
  BY DEF InHand
<1>3. OncePlaced' /\ EffectInv'
  BY <1>2, ClientsRest DEF OncePlaced, EffectInv
<1>4. \A tok, code : Settled(tok, code) => Settled(tok, code)'
  BY DEF Settled, OnTheWire
<1>5. AnswerInv'
  BY <1>4, ClientsRest DEF AnswerInv, clientVars, AnswerTo, Response
<1> QED
  BY <1>1, <1>3, <1>5

LEMMA WakeStep ==
  ASSUME IInv, Wake
  PROVE  IInv'
<1>1. TypeOK'
  BY DEF IInv, TypeOK, Wake, clientVars
<1>2. ServerInv'
  BY DEF IInv, ServerInv, ActiveReleased, Wake
<1> QED
  BY <1>1, <1>2, Releasing DEF IInv, Wake

LEMMA EmptyDrainStep ==
  ASSUME IInv, EmptyDrain
  PROVE  IInv'
<1>1. TypeOK'
  BY DEF IInv, TypeOK, EmptyDrain, clientVars
<1>2. ServerInv' /\ spc' \notin {"build", "send"}
  BY DEF IInv, ServerInv, ActiveReleased, EmptyDrain
<1> QED
  BY <1>1, <1>2, Releasing DEF IInv, EmptyDrain

LEMMA SendFailsStep ==
  ASSUME IInv, SendFails
  PROVE  IInv'
<1>1. TypeOK'
  BY DEF IInv, TypeOK, SendFails, clientVars
<1>2. ServerInv'
  BY DEF IInv, ServerInv, ActiveReleased, SendFails, Channel
<1> QED
  BY <1>1, <1>2, Releasing DEF IInv, SendFails

LEMMA DeleteStep ==
  ASSUME IInv, Delete
  PROVE  IInv'
<1>1. TypeOK'
  BY DEF IInv, TypeOK, Delete, clientVars
<1>2. ServerInv' /\ spc' \notin {"build", "send"}
  BY DEF IInv, ServerInv, ActiveReleased, Delete
<1> QED
  BY <1>1, <1>2, Releasing DEF IInv, Delete

LEMMA CloseStep ==
  ASSUME IInv, Close
  PROVE  IInv'
<1>1. TypeOK'
  BY DEF IInv, TypeOK, Close, clientVars
<1>2. ServerInv'
  BY DEF IInv, ServerInv, ActiveReleased, Close
<1> QED
  BY <1>1, <1>2, Releasing DEF IInv, Close

LEMMA CrashStep ==
  ASSUME IInv, Crash
  PROVE  IInv'
<1>1. TypeOK'
  BY DEF IInv, TypeOK, Crash, clientVars
<1>2. ServerInv'
  BY DEF IInv, ServerInv, ActiveReleased, Crash
<1> QED
  BY <1>1, <1>2, Releasing DEF IInv, Crash

LEMMA RestartStep ==
  ASSUME IInv, Restart
  PROVE  IInv'
<1>1. TypeOK'
  <2>1. linked' \in BOOLEAN
    BY DEF IInv, TypeOK, Restart
  <2>2. restarts' \in 0 .. MaxRestarts
    BY TransportAssumption DEF IInv, TypeOK, Restart
  <2> QED
    BY <2>1, <2>2 DEF IInv, TypeOK, Restart, clientVars
<1>2. ServerInv'
  BY DEF IInv, ServerInv, ActiveReleased, Restart
<1> QED
  BY <1>1, <1>2, Releasing DEF IInv, Restart

-----------------------------------------------------------------------------
(* Running and answering *)

(* The step that ends "build": it may run the controller, once, and what   *)
(* it prepares to send tells whether it did.                               *)
LEMMA Running ==
  ASSUME IInv, spc = "build", UNCHANGED <<clientVars, inbox, wire, active>>,
         ran' \in {ran, [ran EXCEPT ![active.from] = @ + 1]},
         spc' \in {"send", "delete"},
         spc' = "send" => /\ reply' = AnswerTo(active.from, active.raw)
                          /\ ran'[active.from] = IF reply'.code \in EffectCodes THEN 1 ELSE 0
  PROVE  TokenInv' /\ OncePlaced' /\ EffectInv' /\ AnswerInv'
<1> USE DEF IInv
<1> DEFINE tok == active.from
<1>1. active # None /\ tok \in Tokens /\ ran[tok] = 0 /\ Sent(tok) /\ InHand(tok)
  BY MessageParts DEF ServerInv, ActiveReleased, TypeOK, EffectInv, OncePlaced, InHand
<1>2. /\ \A k \in Tokens : k # tok => ran'[k] = ran[k]
      /\ ran'[tok] \in {0, 1}
  BY <1>1 DEF TypeOK
<1>3. /\ \A k : InHand(k)' <=> InHand(k)
      /\ \A k : InHand(k) <=> k = tok
      /\ \A k : OnTheWire(k)' <=> OnTheWire(k)
      /\ ~OnTheWire(tok)
  BY <1>1 DEF InHand, OnTheWire, OncePlaced
<1>4. TokenInv'
  BY DEF TokenInv, clientVars, Current
<1>5. OncePlaced'
  BY <1>3, ClientsRest DEF OncePlaced
<1>6. EffectInv'
  <2>1. \A q \in wire : q.from \in Tokens /\ q.from # tok
    BY <1>3, MessageParts DEF TypeOK, OnTheWire
  <2> QED
    BY <1>1, <1>2, <2>1, ClientsRest DEF EffectInv
<1>7. ASSUME NEW k \in Tokens, NEW code, Settled(k, code)
      PROVE  Settled(k, code)'
  BY <1>1, <1>2, <1>3, <1>7 DEF Settled
<1>8. AnswerInv'
  <2>1. /\ \A q \in wire' : Waiting(q.from)' => q.raw = request'[q.from[1]]
        /\ active' # None /\ Waiting(active.from)' => active'.raw = request'[active'.from[1]]
    BY ClientsRest DEF AnswerInv, clientVars
  <2>2. spc' = "send" => reply' = AnswerTo(active.from, active.raw)'
                         /\ Settled(reply.of, reply.code)'
    <3>1. AnswerTo(active.from, active.raw)' = AnswerTo(active.from, active.raw)
      BY DEF AnswerTo, Response
    <3>2. AnswerTo(active.from, active.raw).of = tok
      BY DEF AnswerTo, Response
    <3> QED
      BY <1>3, <3>1, <3>2 DEF Settled
  <2>3. ASSUME NEW t \in Threads, inbox[t] # << >>
        PROVE  /\ Len(inbox'[t]) = 1
               /\ inbox'[t][1] = AnswerTo(Current(t), request[t])'
               /\ Settled(Current(t), inbox[t][1].code)'
               /\ ~(spc' \in {"build", "send"} /\ InHand(Current(t))')
    <3>1. Current(t) \in Tokens /\ Current(t)' = Current(t)
      BY <2>3, CurrentToken, ClientsRest DEF TokenInv
    <3>2. Settled(Current(t), inbox[t][1].code)'
      BY <1>7, <2>3, <3>1 DEF AnswerInv
    <3> QED
      BY <1>3, <2>3, <3>1, <3>2 DEF AnswerInv, AnswerTo, Response, clientVars
  <2>4. \A k \in Tokens : outcome'[k] \in ReplyCodes => Settled(k, outcome[k])'
    BY <1>7 DEF AnswerInv, clientVars
  <2> QED
    BY <2>1, <2>2, <2>3, <2>4 DEF AnswerInv
<1> QED
  BY <1>4, <1>5, <1>6, <1>8

LEMMA BuildRpcStep ==
  ASSUME IInv, BuildRpc
  PROVE  IInv'
<1> USE DEF IInv
<1> DEFINE d == HandleBytes(Controller, active.raw)
<1>1. active \in Messages /\ active # None /\ active.from \in Tokens /\ ran[active.from] = 0
  BY MessageParts DEF BuildRpc, ServerInv, ActiveReleased, TypeOK, EffectInv
<1>2. /\ d.runs \in BOOLEAN /\ d.encodes \in BOOLEAN
      /\ d.runs <=> d.code \in EffectCodes
      /\ Response(active.from, d.id, d.code) \in Responses
  BY <1>1, DispatchOfMessage
<1>3. active.from[1] \in Callers
  BY <1>1 DEF BuildRpc, ServerInv, Channel
<1>4. /\ ran' = IF d.runs THEN [ran EXCEPT ![active.from] = @ + 1] ELSE ran
      /\ \/ d.encodes /\ reply' = Response(active.from, d.id, d.code) /\ spc' = "send"
            /\ UNCHANGED raising
         \/ ~d.encodes /\ raising' = TRUE /\ spc' = "delete" /\ UNCHANGED reply
      /\ spc = "build"
      /\ UNCHANGED <<clientVars, inbox, wire, linked, channel, active, restarts>>
  BY DEF BuildRpc
<1> HIDE DEF d
<1>5. ran'[active.from] = IF d.code \in EffectCodes THEN 1 ELSE 0
  BY <1>1, <1>2, <1>4 DEF TypeOK
<1>6. TypeOK'
  <2>1. ran' \in [Tokens -> Nat]
    BY <1>1, <1>4 DEF TypeOK
  <2>2. reply' \in Responses \cup {None} /\ raising' \in BOOLEAN
    BY <1>2, <1>4 DEF TypeOK
  <2> QED
    BY <1>4, <2>1, <2>2 DEF TypeOK, clientVars
<1>7. ServerInv'
  <2>1. Response(active.from, d.id, d.code) # None
    BY <1>2, NoneAssumption
  <2> QED
    BY <1>1, <1>4, <2>1 DEF ServerInv, ActiveReleased, Channel
<1>8. spc' = "send" => /\ reply' = AnswerTo(active.from, active.raw)
                       /\ reply'.code = d.code
  BY <1>3, <1>4 DEF AnswerTo, Response, d
<1>9. ran' \in {ran, [ran EXCEPT ![active.from] = @ + 1]} /\ spc' \in {"send", "delete"}
  BY <1>4
<1> QED
  BY <1>4, <1>5, <1>6, <1>7, <1>8, <1>9, Running

LEMMA BuildSchemaStep ==
  ASSUME IInv, BuildSchema
  PROVE  IInv'
<1> USE DEF IInv
<1>1. active \in Messages /\ active # None /\ active.from \in Tokens /\ ran[active.from] = 0
  BY MessageParts DEF BuildSchema, ServerInv, ActiveReleased, TypeOK, EffectInv
<1>2. active.from[1] \notin Callers
  BY <1>1 DEF BuildSchema, ServerInv, Channel
<1>3. Response(active.from, None, DESCRIPTOR) \in Responses
  BY <1>1 DEF Response, Responses, Ids, ReplyCodes
<1>4. TypeOK'
  BY <1>3 DEF TypeOK, BuildSchema, clientVars
<1>5. ServerInv'
  BY <1>1, <1>3, NoneAssumption DEF ServerInv, ActiveReleased, BuildSchema, Channel
<1>6. reply' = AnswerTo(active.from, active.raw) /\ reply'.code \notin EffectCodes
  BY <1>2 DEF AnswerTo, BuildSchema, Response, EffectCodes, DESCRIPTOR, OK, INTERNAL_ERROR
<1> QED
  BY <1>1, <1>4, <1>5, <1>6, Running DEF BuildSchema

LEMMA InterruptStep ==
  ASSUME IInv, Interrupt
  PROVE  IInv'
<1> USE DEF IInv
<1>1. ServerInv'
  BY DEF ServerInv, ActiveReleased, Interrupt, Channel
<1>2. CASE UNCHANGED ran
  <2>1. TypeOK'
    BY <1>2 DEF TypeOK, Interrupt, clientVars
  <2>2. spc' \notin {"build", "send"}
    BY DEF Interrupt
  <2> QED
    BY <1>1, <1>2, <2>1, <2>2, Releasing DEF Interrupt
<1>3. CASE ~UNCHANGED ran
  <2>1. /\ spc = "build" /\ spc' = "delete"
        /\ ran' = [ran EXCEPT ![active.from] = @ + 1]
        /\ UNCHANGED <<clientVars, inbox, wire, active>>
    BY <1>3 DEF Interrupt
  <2>2. active.from \in Tokens
    BY <2>1, MessageParts DEF ServerInv, ActiveReleased, TypeOK
  <2>3. ran' \in [Tokens -> Nat]
    BY <2>1, <2>2 DEF TypeOK
  <2>4. TypeOK'
    BY <2>1, <2>3 DEF TypeOK, Interrupt, clientVars
  <2> QED
    BY <1>1, <2>1, <2>4, Running
<1> QED
  BY <1>2, <1>3

LEMMA SendReplyStep ==
  ASSUME IInv, SendReply
  PROVE  IInv'
<1> USE DEF IInv
<1> DEFINE tok == active.from
<1>1. /\ active # None /\ tok \in Tokens
      /\ reply \in Responses /\ reply.of = tok
      /\ reply = AnswerTo(tok, active.raw) /\ Settled(tok, reply.code)
  BY MessageParts DEF SendReply, ServerInv, ActiveReleased, TypeOK, AnswerInv, AnswerTo,
                      Response
<1>2. /\ spc = "send" /\ spc' = "delete" /\ reply' = None
      /\ UNCHANGED <<clientVars, wire, linked, channel, active, raising, restarts, ran>>
  BY DEF SendReply
<1>3. \A t \in Threads :
        inbox'[t] = IF Waiting(tok) /\ t = tok[1] THEN Append(inbox[t], reply) ELSE inbox[t]
  BY <1>1 DEF SendReply, Delivered, TypeOK
<1>4. Waiting(tok) => /\ tok[1] \in Threads /\ tok = Current(tok[1]) /\ pc[tok[1]] = "poll"
                      /\ inbox[tok[1]] = << >>
                      /\ active.raw = request[tok[1]]
  BY <1>1, <1>2, TokenParts DEF Waiting, AnswerInv, InHand
<1>5. TypeOK'
  <2>1. inbox' \in [Threads -> Seq(Responses)]
    BY <1>1, <1>4 DEF SendReply, Delivered, TypeOK
  <2> QED
    BY <1>2, <2>1 DEF TypeOK, clientVars
<1>6. TokenInv'
  BY <1>2, <1>3, <1>4 DEF TokenInv, clientVars, Current
<1>7. ServerInv'
  BY <1>2 DEF ServerInv, ActiveReleased, Channel
<1>8. OncePlaced' /\ EffectInv'
  BY <1>2, ClientsRest DEF OncePlaced, EffectInv, InHand
<1>9. \A k, code : Settled(k, code) => Settled(k, code)'
  BY <1>2 DEF Settled, OnTheWire, InHand
<1>10. AnswerInv'
  <2>1. /\ \A q \in wire' : Waiting(q.from)' => q.raw = request'[q.from[1]]
        /\ active' # None /\ Waiting(active.from)' => active'.raw = request'[active'.from[1]]
    BY <1>2, ClientsRest DEF AnswerInv, clientVars
  <2>2. ASSUME NEW t \in Threads, inbox'[t] # << >>
        PROVE  /\ Len(inbox'[t]) = 1
               /\ inbox'[t][1] = AnswerTo(Current(t), request[t])'
               /\ Settled(Current(t), inbox[t][1].code)'
               /\ ~(spc' \in {"build", "send"} /\ InHand(Current(t))')
    <3>1. /\ AnswerTo(Current(t), request[t])' = AnswerTo(Current(t), request[t])
          /\ Current(t)' = Current(t)
      BY <1>2 DEF AnswerTo, Response, clientVars, Current
    <3>2. CASE Waiting(tok) /\ t = tok[1]
      <4>1. tok = Current(t) /\ active.raw = request[t] /\ inbox[t] = << >>
        BY <1>4, <3>2
      <4>2. inbox'[t] = Append(<< >>, reply)
        BY <1>3, <3>2, <4>1
      <4>3. Len(inbox'[t]) = 1 /\ inbox'[t][1] = reply
        BY <4>2
      <4>4. \A code : code = reply.code => Settled(Current(t), code)'
        BY <1>1, <1>9, <3>1, <4>1
      <4> QED
        BY <1>1, <1>2, <3>1, <4>1, <4>3, <4>4
    <3>3. CASE ~(Waiting(tok) /\ t = tok[1])
      <4>1. inbox'[t] = inbox[t] /\ inbox[t] # << >>
        BY <1>3, <2>2, <3>3
      <4>2. Settled(Current(t), inbox[t][1].code)'
        BY <1>9, <3>1, <4>1 DEF AnswerInv
      <4> QED
        BY <1>2, <3>1, <4>1, <4>2 DEF AnswerInv
    <3> QED
      BY <3>2, <3>3
  <2>3. \A k \in Tokens : outcome'[k] \in ReplyCodes => Settled(k, outcome[k])'
    BY <1>2, <1>9 DEF AnswerInv, clientVars
  <2>4. spc' # "send"
    BY <1>2
  <2> QED
    BY <2>1, <2>2, <2>3, <2>4 DEF AnswerInv
<1> QED
  BY <1>5, <1>6, <1>7, <1>8, <1>10

-----------------------------------------------------------------------------
(* The invariant *)

LEMMA InitIInv == Init => IInv
<1> SUFFICES ASSUME Init PROVE IInv
  OBVIOUS
<1>1. TypeOK
  <2>1. calls \in [Threads -> 0 .. MaxCalls] /\ polls \in [Threads -> 0 .. MaxPolls]
        /\ restarts \in 0 .. MaxRestarts
    BY TransportAssumption DEF Init
  <2>2. /\ counter \in Nat
        /\ pc \in [Threads -> {"idle", "store", "number", "send", "poll"}]
        /\ loaded \in [Threads -> Nat]
        /\ ran \in [Tokens -> Nat]
    BY DEF Init
  <2>3. /\ request \in [Threads -> Requests \cup {None}]
        /\ inbox \in [Threads -> Seq(Responses)]
        /\ wire \in SUBSET Messages
    BY DEF Init
  <2>4. outcome \in [Tokens -> ReplyCodes \cup {"none", "refused", "lost"}]
    BY DEF Init
  <2> QED
    BY <2>1, <2>2, <2>3, <2>4 DEF Init, TypeOK
<1>2. TokenInv
  BY DEF Init, TokenInv, Current
<1>3. ServerInv
  BY DEF Init, ServerInv, ActiveReleased
<1>4. OncePlaced /\ EffectInv
  BY DEF Init, OncePlaced, EffectInv
<1>5. AnswerInv
  BY OutcomesDiffer DEF Init, AnswerInv
<1> QED
  BY <1>1, <1>2, <1>3, <1>4, <1>5 DEF IInv

LEMMA StutterStep ==
  ASSUME IInv, UNCHANGED vars
  PROVE  IInv'
<1>1. UNCHANGED <<clientVars, inbox, wire, linked, spc, channel, active, reply, raising,
                  restarts, ran>>
  BY DEF vars, serverVars
<1>2. TypeOK' /\ TokenInv' /\ ServerInv'
  BY <1>1 DEF IInv, TypeOK, TokenInv, ServerInv, ActiveReleased, clientVars, Current
<1>3. OncePlaced' /\ EffectInv'
  BY <1>1, ClientsRest DEF IInv, OncePlaced, EffectInv, InHand
<1>4. AnswerInv'
  BY <1>1, ClientsRest DEF IInv, AnswerInv, clientVars, AnswerTo, Response, Settled,
                           OnTheWire, InHand
<1> QED
  BY <1>2, <1>3, <1>4 DEF IInv

LEMMA NextIInv == IInv /\ [Next]_vars => IInv'
<1> SUFFICES ASSUME IInv, [Next]_vars PROVE IInv'
  OBVIOUS
<1>1. ASSUME NEW t \in Threads, Client(t) PROVE IInv'
  BY <1>1, CallStep, AskDescriptorStep, StoreCounterStep, NumberStep, SendStep,
     SendRefusedStep, PollReplyStep, PollEmptyStep, ExpireStep, InterruptedStep
     DEF Client, Progress
<1>2. ASSUME NEW q \in wire, Discard(q) PROVE IInv'
  BY <1>2, DiscardStep
<1>3. CASE Loop
  BY <1>3, WakeStep, ReceiveStep, EmptyDrainStep, BuildRpcStep, BuildSchemaStep,
     SendReplyStep, SendFailsStep, DeleteStep, CloseStep DEF Loop
<1>4. CASE Interrupt
  BY <1>4, InterruptStep
<1>5. CASE Crash
  BY <1>5, CrashStep
<1>6. CASE Restart
  BY <1>6, RestartStep
<1>7. CASE UNCHANGED vars
  BY <1>7, StutterStep
<1> QED
  BY <1>1, <1>2, <1>3, <1>4, <1>5, <1>6, <1>7 DEF Next

(* Threads, requests, answers and the server's registers fit together, for *)
(* any number of threads, any controller and any bounds.                   *)
THEOREM Invariance == Spec => []IInv
  BY InitIInv, NextIInv, PTL DEF Spec

-----------------------------------------------------------------------------
(* What follows *)

(* The state keeps its shape: every register of the registry, the wire and *)
(* the server holds a value of its kind.                                   *)
THEOREM TypeCorrect == Spec => []TypeOK
<1>1. IInv => TypeOK
  BY DEF IInv
<1> QED
  BY <1>1, Invariance, PTL

(* No call runs its method twice.                                          *)
THEOREM RunsAtMostOnce == Spec => []AtMostOnce
<1>1. IInv => AtMostOnce
  BY DEF IInv, EffectInv, AtMostOnce
<1> QED
  BY <1>1, Invariance, PTL

(* Whatever is queued for a thread answers the request that it waits for,  *)
(* and is the only answer.                                                 *)
THEOREM AnswersFit == Spec => []AnswersFitRequests
<1>1. ASSUME IInv, NEW t \in Threads
      PROVE  /\ Len(inbox[t]) <= 1
             /\ \A i \in DOMAIN inbox[t] : inbox[t][i] = AnswerTo(Current(t), request[t])
  <2>1. inbox[t] \in Seq(Responses)
    BY <1>1 DEF IInv, TypeOK
  <2>2. CASE inbox[t] = << >>
    BY <2>2
  <2>3. CASE inbox[t] # << >>
    <3>1. Len(inbox[t]) = 1 /\ inbox[t][1] = AnswerTo(Current(t), request[t])
      BY <1>1, <2>3 DEF IInv, AnswerInv
    <3>2. \A i \in DOMAIN inbox[t] : i = 1
      BY <2>1, <3>1
    <3> QED
      BY <3>1, <3>2
  <2> QED
    BY <2>2, <2>3
<1>2. IInv => AnswersFitRequests
  BY <1>1 DEF AnswersFitRequests
<1> QED
  BY <1>2, Invariance, PTL

(* A call that ended with a response, or that was refused, tells the truth *)
(* about its effect, and goes on to.                                       *)
THEOREM OutcomesAreTruthful == Spec => []TruthfulOutcomes
<1>1. ASSUME IInv, NEW tok \in Tokens
      PROVE  /\ outcome[tok] \in EffectCodes => ran[tok] = 1
             /\ outcome[tok] \in ReplyCodes \ EffectCodes => ran[tok] = 0
             /\ outcome[tok] \in {"none", "refused"} /\ ~Waiting(tok) => ran[tok] = 0
  <2>1. EffectCodes \subseteq ReplyCodes
    BY DEF EffectCodes, ReplyCodes, Codes
  <2>2. outcome[tok] \in ReplyCodes => Settled(tok, outcome[tok])
    BY <1>1 DEF IInv, AnswerInv
  <2>3. outcome[tok] \in {"none", "refused"} /\ ~Waiting(tok) => ran[tok] = 0
    BY <1>1 DEF IInv, EffectInv, Sent
  <2> QED
    BY <2>1, <2>2, <2>3 DEF Settled
<1>2. IInv => TruthfulOutcomes
  BY <1>1 DEF TruthfulOutcomes
<1> QED
  BY <1>2, Invariance, PTL

(* The server holds an active request exactly while it serves it.          *)
THEOREM NothingLeaks == Spec => []ActiveReleased
<1>1. IInv => ActiveReleased
  BY DEF IInv, ServerInv
<1> QED
  BY <1>1, Invariance, PTL

=============================================================================
