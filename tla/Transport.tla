----------------------------- MODULE Transport ------------------------------
(***************************************************************************)
(* One server process and the client threads that share one registry: the  *)
(* path of a call from Iox2RpcRegistry.call through the iceoryx2 services  *)
(* to Iox2JsonRpcServer.run_forever and back.                              *)
(*                                                                         *)
(* Callers run call() on the registry's one rpc client; each prober runs   *)
(* the schema request of load_all_descriptors on a client of its own.      *)
(* Both end in _request_bytes.  A token names one call of one thread.      *)
(*                                                                         *)
(* Of iceoryx2 (external) the model assumes: a request sent while a server *)
(* is connected stays receivable until the server receives it or stops,    *)
(* except that one whose caller gave up may be dropped; requests are       *)
(* received in any order; a response reaches the pending response of its   *)
(* own request or, once that is gone, nobody.                              *)
(***************************************************************************)
EXTENDS Endpoint, FiniteSets

CONSTANTS
  Callers,      \* threads that call methods through the shared registry
  Probers,      \* threads that request descriptors
  Controller,   \* the controller that is served, as in Endpoint
  Asks,         \* the [method, params] that callers may ask for
  MaxActive,    \* max_active_requests_per_client
  MaxPolls,     \* how many waits of 10 ms the timeout leaves room for
  MaxCalls,     \* bound: calls per thread
  MaxRestarts   \* bound: restarts of the server

Threads == Callers \cup Probers

Tokens == Threads \X (1 .. MaxCalls)

ASSUME TransportAssumption ==
  /\ Callers \cap Probers = {}
  /\ MaxActive \in Nat \ {0}
  /\ MaxPolls \in Nat
  /\ MaxCalls \in Nat
  /\ MaxRestarts \in Nat

VARIABLES
  (* the registry and its threads *)
  counter,    \* request_counter, shared by the callers
  pc,         \* where each thread is
  calls,      \* how many calls each thread has begun
  loaded,     \* the counter value a thread has read and not yet written back
  request,    \* the JSON-RPC request a thread is sending or waiting for
  polls,      \* the waits a thread has spent in _request_bytes
  inbox,      \* the responses queued at each thread's pending response
  outcome,    \* how each call ended: "refused" before anything was sent, "lost"
              \* after it, or with the code of its response
  (* iceoryx2 *)
  wire,       \* the requests sent and not yet received
  linked,     \* do the clients hold the services that the server serves?
  (* the server process *)
  spc,        \* where run_forever is
  channel,    \* the drain it is in, "schema" outside of both
  active,     \* the active request it holds
  reply,      \* the response it is about to send
  raising,    \* is an exception on its way out of the loop?
  restarts,   \* bound: how often it was started again
  ran         \* history: how often the controller ran for each call

clientVars == <<counter, pc, calls, loaded, request, polls, outcome>>
serverVars == <<spc, channel, active, reply, raising, restarts>>
vars == <<clientVars, inbox, wire, linked, serverVars, ran>>

-----------------------------------------------------------------------------
(* Data *)

DESCRIPTOR == "DESCRIPTOR"    \* the code of a schema response here

(* The payload of a schema request is "{}": no JSON-RPC request.           *)
Probe == [parses |-> FALSE, id |-> None, method |-> << >>, params |-> None]

Asking(ask) ==
  [parses |-> TRUE, id |-> None, method |-> ask.method, params |-> ask.params]

ReplyCodes == Codes \cup {DESCRIPTOR}

(* The codes that say: the method has run.                                 *)
EffectCodes == {OK, INTERNAL_ERROR}

Ids == Nat \cup {None}

CallRequests ==
  [parses : {TRUE}, id : Ids, method : {ask.method : ask \in Asks},
   params : {ask.params : ask \in Asks}]

Requests == {Probe} \cup CallRequests

Responses == [of : Tokens, id : Ids, code : ReplyCodes]

Messages == [from : Tokens, raw : Requests]

(* None is none of the data it may stand for.                              *)
ASSUME NoneAssumption == None \notin Requests \cup Responses \cup Messages

Current(t) == <<t, calls[t]>>

Channel(t) == IF t \in Callers THEN "rpc" ELSE "schema"

Response(tok, id, code) == [of |-> tok, id |-> id, code |-> code]

(* The pending response of a call lives from send until _request_bytes     *)
(* returns or raises.                                                      *)
Waiting(tok) == pc[tok[1]] = "poll" /\ tok = Current(tok[1])

-----------------------------------------------------------------------------
(* The registry's threads *)

(* call: the augmented assignment to request_counter loads the attribute,  *)
(* adds one and stores it; then the attribute is read again for the id.    *)
(* Nothing locks the three steps.                                          *)
Call(t) ==
  /\ t \in Callers
  /\ pc[t] = "idle"
  /\ calls[t] < MaxCalls
  /\ \E ask \in Asks : request' = [request EXCEPT ![t] = Asking(ask)]
  /\ calls' = [calls EXCEPT ![t] = @ + 1]
  /\ loaded' = [loaded EXCEPT ![t] = counter]
  /\ pc' = [pc EXCEPT ![t] = "store"]
  /\ UNCHANGED <<counter, polls, outcome, inbox, wire, linked, serverVars, ran>>

StoreCounter(t) ==
  /\ pc[t] = "store"
  /\ counter' = loaded[t] + 1
  /\ loaded' = [loaded EXCEPT ![t] = 0]
  /\ pc' = [pc EXCEPT ![t] = "number"]
  /\ UNCHANGED <<calls, request, polls, outcome, inbox, wire, linked, serverVars, ran>>

Number(t) ==
  /\ pc[t] = "number"
  /\ request' = [request EXCEPT ![t] = [@ EXCEPT !.id = counter]]
  /\ pc' = [pc EXCEPT ![t] = "send"]
  /\ UNCHANGED <<counter, calls, loaded, polls, outcome, inbox, wire, linked,
                 serverVars, ran>>

(* load_all_descriptors asks for a descriptor with the payload "{}".       *)
AskDescriptor(t) ==
  /\ t \in Probers
  /\ pc[t] = "idle"
  /\ calls[t] < MaxCalls
  /\ request' = [request EXCEPT ![t] = Probe]
  /\ calls' = [calls EXCEPT ![t] = @ + 1]
  /\ pc' = [pc EXCEPT ![t] = "send"]
  /\ UNCHANGED <<counter, loaded, polls, outcome, inbox, wire, linked, serverVars, ran>>

(* The callers' client has a slot for the request: callers that wait each  *)
(* hold one.  A prober is alone on its client.                             *)
SlotFree(t) ==
  t \in Callers => Cardinality({c \in Callers : pc[c] = "poll"}) < MaxActive

(* _request_bytes: send, which yields the pending response.  The request   *)
(* reaches a server only if one is connected.                              *)
Send(t) ==
  /\ pc[t] = "send"
  /\ SlotFree(t)
  /\ wire' = IF linked /\ spc # "down"
               THEN wire \cup {[from |-> Current(t), raw |-> request[t]]}
               ELSE wire
  /\ polls' = [polls EXCEPT ![t] = 0]
  /\ pc' = [pc EXCEPT ![t] = "poll"]
  /\ UNCHANGED <<counter, calls, loaded, request, outcome, inbox, linked, serverVars, ran>>

(* A deliberately wrong variant: the pending response outlives the call    *)
(* that made it.                                                           *)
LeaveKeepsPending(t, ending) ==
  /\ outcome' = [outcome EXCEPT ![Current(t)] = ending]
  /\ loaded' = [loaded EXCEPT ![t] = 0]
  /\ polls' = [polls EXCEPT ![t] = 0]
  /\ pc' = [pc EXCEPT ![t] = "idle"]
  /\ UNCHANGED <<inbox, request, counter, calls, wire, linked, serverVars, ran>>

(* _request_bytes is left: the pending response and all it holds are gone. *)
Leave(t, ending) ==
  /\ outcome' = [outcome EXCEPT ![Current(t)] = ending]
  /\ inbox' = [inbox EXCEPT ![t] = << >>]
  /\ request' = [request EXCEPT ![t] = None]
  /\ loaded' = [loaded EXCEPT ![t] = 0]
  /\ polls' = [polls EXCEPT ![t] = 0]
  /\ pc' = [pc EXCEPT ![t] = "idle"]
  /\ UNCHANGED <<counter, calls, wire, linked, serverVars, ran>>

(* The client has as many active requests as it may: send raises.          *)
SendRefused(t) ==
  /\ pc[t] = "send"
  /\ ~SlotFree(t)
  /\ Leave(t, "refused")

(* One pass of the polling loop, before the deadline: the first response,  *)
(* if there is one, is returned.                                           *)
PollReply(t) ==
  /\ pc[t] = "poll"
  /\ polls[t] < MaxPolls
  /\ inbox[t] # << >>
  /\ Leave(t, Head(inbox[t]).code)

(* A deliberately wrong variant: every wait moves the deadline.            *)
PollEmptyRestarts(t) ==
  /\ pc[t] = "poll"
  /\ polls[t] < MaxPolls
  /\ inbox[t] = << >>
  /\ polls' = [polls EXCEPT ![t] = 0]
  /\ UNCHANGED <<counter, pc, calls, loaded, request, outcome, inbox, wire, linked,
                 serverVars, ran>>

(* A deliberately wrong variant: one wait too many.                        *)
PollEmptyLate(t) ==
  /\ pc[t] = "poll"
  /\ polls[t] <= MaxPolls
  /\ inbox[t] = << >>
  /\ polls' = [polls EXCEPT ![t] = @ + 1]
  /\ UNCHANGED <<counter, pc, calls, loaded, request, outcome, inbox, wire, linked,
                 serverVars, ran>>

(* Otherwise node.wait: 10 ms, in which a response may still arrive.       *)
PollEmpty(t) ==
  /\ pc[t] = "poll"
  /\ polls[t] < MaxPolls
  /\ inbox[t] = << >>
  /\ polls' = [polls EXCEPT ![t] = @ + 1]
  /\ UNCHANGED <<counter, pc, calls, loaded, request, outcome, inbox, wire, linked,
                 serverVars, ran>>

(* TimeoutError: the deadline is tested before the queue is looked at, so  *)
(* a response that came during the last wait goes unread.                  *)
Expire(t) ==
  /\ pc[t] = "poll"
  /\ polls[t] = MaxPolls
  /\ Leave(t, "lost")

(* Any other exception out of the call: the loan, the send, the wait, the  *)
(* decoding, a KeyboardInterrupt.                                          *)
Interrupted(t) ==
  \/ /\ pc[t] \in {"store", "number", "send"}
     /\ Leave(t, "refused")
  \/ /\ pc[t] = "poll"
     /\ Leave(t, "lost")

-----------------------------------------------------------------------------
(* iceoryx2 *)

(* A request whose caller gave up may be dropped, by a full buffer or by   *)
(* the server port's receive.                                              *)
Discard(q) ==
  /\ q \in wire
  /\ ~Waiting(q.from)
  /\ wire' = wire \ {q}
  /\ UNCHANGED <<clientVars, inbox, linked, serverVars, ran>>

(* The response reaches the pending response of its own request, if that   *)
(* still lives.                                                            *)
Delivered(r) ==
  IF Waiting(r.of)
    THEN [inbox EXCEPT ![r.of[1]] = Append(@, r)]
    ELSE inbox

-----------------------------------------------------------------------------
(* The server: run_forever *)

(* node.wait is over; the schema requests are drained first.               *)
Wake ==
  /\ spc = "wait"
  /\ spc' = "drain"
  /\ UNCHANGED <<clientVars, inbox, wire, linked, channel, active, reply, raising, restarts, ran>>

Receive ==
  /\ spc = "drain"
  /\ \E q \in wire :
       /\ Channel(q.from[1]) = channel
       /\ wire' = wire \ {q}
       /\ active' = q
  /\ spc' = "build"
  /\ UNCHANGED <<clientVars, inbox, linked, channel, reply, raising, restarts, ran>>

Queued(ch) == {q \in wire : Channel(q.from[1]) = ch}

(* A deliberately wrong variant: only schema requests are drained.         *)
EmptyDrainOnce ==
  /\ spc = "drain"
  /\ Queued(channel) = {}
  /\ spc' = "wait"
  /\ UNCHANGED <<clientVars, inbox, wire, linked, channel, active, reply, raising,
                 restarts, ran>>

(* receive returned None: on to the rpc requests, or back to node.wait.    *)
EmptyDrain ==
  /\ spc = "drain"
  /\ Queued(channel) = {}
  /\ \/ channel = "schema" /\ channel' = "rpc" /\ UNCHANGED spc
     \/ channel = "rpc" /\ channel' = "schema" /\ spc' = "wait"
  /\ UNCHANGED <<clientVars, inbox, wire, linked, active, reply, raising, restarts, ran>>

(* A deliberately wrong variant: an answer that cannot be encoded is       *)
(* replaced by an error response that blames the params.                   *)
BuildRpcBlamesParams ==
  /\ spc = "build"
  /\ channel = "rpc"
  /\ LET d == HandleBytes(Controller, active.raw)
     IN  /\ ran' = IF d.runs THEN [ran EXCEPT ![active.from] = @ + 1] ELSE ran
         /\ reply' = Response(active.from, d.id, IF d.encodes THEN d.code ELSE INVALID_PARAMS)
  /\ spc' = "send"
  /\ UNCHANGED <<clientVars, inbox, wire, linked, channel, active, raising, restarts>>

(* build_response for an rpc request: the bytes are dispatched.  An answer *)
(* that cannot be encoded is an exception, whatever has run by then.       *)
BuildRpc ==
  /\ spc = "build"
  /\ channel = "rpc"
  /\ LET d == HandleBytes(Controller, active.raw)
     IN  /\ ran' = IF d.runs THEN [ran EXCEPT ![active.from] = @ + 1] ELSE ran
         /\ \/ /\ d.encodes
               /\ reply' = Response(active.from, d.id, d.code)
               /\ spc' = "send"
               /\ UNCHANGED raising
            \/ /\ ~d.encodes
               /\ raising' = TRUE
               /\ spc' = "delete"
               /\ UNCHANGED reply
  /\ UNCHANGED <<clientVars, inbox, wire, linked, channel, active, restarts>>

(* build_response for a schema request: the descriptor, whatever it asks.  *)
BuildSchema ==
  /\ spc = "build"
  /\ channel = "schema"
  /\ reply' = Response(active.from, None, DESCRIPTOR)
  /\ spc' = "send"
  /\ UNCHANGED <<clientVars, inbox, wire, linked, channel, active, raising, restarts, ran>>

(* _send_response.                                                         *)
SendReply ==
  /\ spc = "send"
  /\ inbox' = Delivered(reply)
  /\ reply' = None
  /\ spc' = "delete"
  /\ UNCHANGED <<clientVars, wire, linked, channel, active, raising, restarts, ran>>

(* A deliberately wrong variant: a failed send builds the response again.  *)
SendFailsRetries ==
  /\ spc = "send"
  /\ reply' = None
  /\ spc' = "build"
  /\ UNCHANGED <<clientVars, inbox, wire, linked, channel, active, raising, restarts, ran>>

(* The loan, the copy or the send of a response raises.                    *)
SendFails ==
  /\ spc = "send"
  /\ reply' = None
  /\ raising' = TRUE
  /\ spc' = "delete"
  /\ UNCHANGED <<clientVars, inbox, wire, linked, channel, active, restarts, ran>>

(* finally: active_request.delete(), on the way to the next receive or out *)
(* of run_forever.                                                         *)
Delete ==
  /\ spc = "delete"
  /\ active' = None
  /\ spc' = IF raising THEN "closing" ELSE "drain"
  /\ channel' = IF raising THEN "schema" ELSE channel
  /\ raising' = FALSE
  /\ UNCHANGED <<clientVars, inbox, wire, linked, reply, restarts, ran>>

(* A deliberately wrong variant: an exception skips the delete.            *)
InterruptSkipsDelete ==
  /\ spc \in {"wait", "drain", "build", "send", "delete"}
  /\ reply' = None
  /\ spc' = "closing"
  /\ UNCHANGED <<clientVars, inbox, wire, linked, channel, active, raising, restarts, ran>>

(* KeyboardInterrupt or NodeWaitFailure.  With an active request in hand   *)
(* the exception first passes the finally clause.  The controller may have *)
(* been interrupted before its effect or after it.                         *)
Interrupt ==
  /\ \/ /\ spc \in {"wait", "drain"}
        /\ spc' = "closing"
        /\ channel' = "schema"
        /\ UNCHANGED <<raising, ran>>
     \/ /\ spc \in {"build", "send", "delete"}
        /\ spc' = "delete"
        /\ raising' = TRUE
        /\ UNCHANGED channel
        /\ \/ UNCHANGED ran
           \/ /\ spc = "build" /\ channel = "rpc"
              /\ HandleBytes(Controller, active.raw).runs
              /\ ran' = [ran EXCEPT ![active.from] = @ + 1]
  /\ reply' = None
  /\ UNCHANGED <<clientVars, inbox, wire, linked, active, restarts>>

(* close, and the end of the process: the requests that its ports had      *)
(* queued are lost.                                                        *)
Close ==
  /\ spc = "closing"
  /\ spc' = "down"
  /\ wire' = {}
  /\ UNCHANGED <<clientVars, inbox, linked, channel, active, reply, raising, restarts, ran>>

(* The process dies at any point of the loop.                              *)
Crash ==
  /\ spc # "down"
  /\ spc' = "down"
  /\ wire' = {}
  /\ active' = None
  /\ reply' = None
  /\ raising' = FALSE
  /\ channel' = "schema"
  /\ UNCHANGED <<clientVars, inbox, linked, restarts, ran>>

(* A new process serves the services that the clients have open, or, where *)
(* it force-removed them, new ones that these clients never reach.         *)
Restart ==
  /\ spc = "down"
  /\ restarts < MaxRestarts
  /\ restarts' = restarts + 1
  /\ spc' = "wait"
  /\ linked' \in {linked, FALSE}
  /\ UNCHANGED <<clientVars, inbox, wire, channel, active, reply, raising, ran>>

-----------------------------------------------------------------------------

Init ==
  /\ counter = 0
  /\ pc = [t \in Threads |-> "idle"]
  /\ calls = [t \in Threads |-> 0]
  /\ loaded = [t \in Threads |-> 0]
  /\ request = [t \in Threads |-> None]
  /\ polls = [t \in Threads |-> 0]
  /\ inbox = [t \in Threads |-> << >>]
  /\ outcome = [tok \in Tokens |-> "none"]
  /\ wire = {}
  /\ linked = TRUE
  /\ spc = "wait"
  /\ channel = "schema"
  /\ active = None
  /\ reply = None
  /\ raising = FALSE
  /\ restarts = 0
  /\ ran = [tok \in Tokens |-> 0]

(* The steps of a call in progress; the rest is up to the thread's user.   *)
Progress(t) ==
  \/ StoreCounter(t)
  \/ Number(t)
  \/ Send(t)
  \/ SendRefused(t)
  \/ PollReply(t)
  \/ PollEmpty(t)
  \/ Expire(t)

Client(t) ==
  \/ Call(t)
  \/ AskDescriptor(t)
  \/ Progress(t)
  \/ Interrupted(t)

(* The steps of run_forever itself. *)
Loop ==
  \/ Wake
  \/ Receive
  \/ EmptyDrain
  \/ BuildRpc
  \/ BuildSchema
  \/ SendReply
  \/ SendFails
  \/ Delete
  \/ Close

Next ==
  \/ \E t \in Threads : Client(t)
  \/ \E q \in wire : Discard(q)
  \/ Loop
  \/ Interrupt
  \/ Crash
  \/ Restart

Spec == Init /\ [][Next]_vars

(* A thread in a call and the server's loop keep running; nobody is bound  *)
(* to call, to interrupt or to restart.                                    *)
Fairness ==
  /\ \A t \in Threads : WF_vars(Progress(t))
  /\ WF_vars(Loop)

FairSpec == Spec /\ Fairness

-----------------------------------------------------------------------------
(* Properties *)

(* The shape of the state.  A pending response has at most one response.   *)
TypeOK ==
  /\ counter \in Nat
  /\ pc \in [Threads -> {"idle", "store", "number", "send", "poll"}]
  /\ calls \in [Threads -> 0 .. MaxCalls]
  /\ loaded \in [Threads -> Nat]
  /\ request \in [Threads -> Requests \cup {None}]
  /\ polls \in [Threads -> 0 .. MaxPolls]
  /\ inbox \in [Threads -> Seq(Responses)]
  /\ outcome \in [Tokens -> ReplyCodes \cup {"none", "refused", "lost"}]
  /\ wire \in SUBSET Messages
  /\ linked \in BOOLEAN
  /\ spc \in {"down", "wait", "drain", "build", "send", "delete", "closing"}
  /\ channel \in {"schema", "rpc"}
  /\ active \in Messages \cup {None}
  /\ reply \in Responses \cup {None}
  /\ raising \in BOOLEAN
  /\ restarts \in 0 .. MaxRestarts
  /\ ran \in [Tokens -> Nat]

(* The controller runs at most once for a call: no failed send, restart,   *)
(* late answer or repeated poll runs a method again.                       *)
AtMostOnce == \A tok \in Tokens : ran[tok] <= 1

(* The answer to a request: for a caller, what the dispatch of its own     *)
(* request yields; for a prober, the descriptor.                           *)
AnswerTo(tok, raw) ==
  IF tok[1] \in Callers
    THEN LET d == HandleBytes(Controller, raw) IN Response(tok, d.id, d.code)
    ELSE Response(tok, None, DESCRIPTOR)

(* What is queued for a thread is the answer to the request it waits for,  *)
(* and there is at most one: not another thread's although ids may be      *)
(* shared (the counter is not locked), not the late answer to an earlier   *)
(* call of the same thread, not one of the other channel.                  *)
AnswersFitRequests ==
  \A t \in Threads :
    /\ Len(inbox[t]) <= 1
    /\ \A i \in DOMAIN inbox[t] : inbox[t][i] = AnswerTo(Current(t), request[t])

(* What a caller is told is what happened, and stays so: after OK or       *)
(* INTERNAL_ERROR the method has run once, after any other answer and      *)
(* after a refusal it has not run and never will.                          *)
TruthfulOutcomes ==
  \A tok \in Tokens :
    /\ outcome[tok] \in EffectCodes => ran[tok] = 1
    /\ outcome[tok] \in ReplyCodes \ EffectCodes => ran[tok] = 0
    /\ outcome[tok] \in {"none", "refused"} /\ ~Waiting(tok) => ran[tok] = 0

(* The server holds an active request only while it serves it: outside of  *)
(* that, and whenever run_forever has been left, every request it received *)
(* has been deleted, so that no exception leaks a client's request slot.   *)
ActiveReleased ==
  (active # None) <=> spc \in {"build", "send", "delete"}

(* Every call returns, with an answer, a timeout or an error, whatever the *)
(* server does: polling ends at a deadline that is computed once.          *)
CallReturns == \A t \in Threads : (pc[t] # "idle") ~> (pc[t] = "idle")

(* No request is left waiting by a server that keeps running: it is        *)
(* received (or dropped once its caller has given up) or the server stops. *)
RequestServed ==
  \A t \in Threads : (\E q \in wire : q.from[1] = t) ~> (\A q \in wire : q.from[1] # t)

-----------------------------------------------------------------------------
(* The promise that this transport keeps *)

Phase(tok) ==
  CASE outcome[tok] \in {"refused", "lost"}     -> outcome[tok]
    [] outcome[tok] \in EffectCodes             -> "ran"
    [] outcome[tok] \in ReplyCodes \ EffectCodes -> "untouched"
    [] outcome[tok] = "none"                    -> IF Waiting(tok) THEN "open" ELSE "new"

P == INSTANCE Promise WITH
       Calls <- Tokens, phase <- [tok \in Tokens |-> Phase(tok)], effects <- ran

(* The transport implements the promise of an at-most-once call.           *)
KeepsPromise == P!Spec

=============================================================================
