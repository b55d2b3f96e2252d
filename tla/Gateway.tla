------------------------------- MODULE Gateway ------------------------------
(***************************************************************************)
(* The HTTP gateway of examples/webapi.py: threads that rediscover the RPC *)
(* services and replace the gateway's registry, the lifespan that runs the *)
(* refresh loop and ends it, and request threads that look a service up in *)
(* the registry and forward a call to it.                                  *)
(*                                                                         *)
(* The world of RPC services goes through numbered versions.  A registry   *)
(* is the version its discovery saw.  A discovery that sees parts of two   *)
(* versions is not modelled.                                               *)
(*                                                                         *)
(* A service is a record: its service and controller names, the methods it *)
(* serves, and whether its descriptor could be loaded (open), without      *)
(* which the registry has no rpc client for it.                            *)
(*                                                                         *)
(* registry.call is what Transport was proved to implement, a call of      *)
(* Promise: Call!Invoke sends, Call!Refuse raises before a send, Call!Lose *)
(* raises after it, Call!Execute runs the method in the server.            *)
(*                                                                         *)
(* Refreshes and requests run in the threads of asyncio.to_thread's pool   *)
(* (external): a job waits in the order of its arrival for a free thread,  *)
(* and one that is cancelled while it waits does not run.                  *)
(***************************************************************************)
EXTENDS Naturals, Sequences, SequencesExt, FiniteSets

CONSTANTS
  Loop,       \* the refreshes of the lifespan and its loop
  Others,     \* the refreshes of POST /refresh
  Clients,    \* the HTTP requests that call a method
  PoolSize,   \* the threads of the pool
  Catalog,    \* the services of each version of the world
  Asks,       \* the requests: [route, controller, service, method]
  MaxCount,   \* bound: refreshes are counted up to this number
  None

Workers == {Loop} \cup Others

Versions == DOMAIN Catalog

ASSUME GatewayAssumption ==
  /\ Loop \notin Others
  /\ Workers \cap Clients = {}
  /\ {PoolSize, MaxCount} \subseteq Nat \ {0}
  /\ Versions \subseteq Nat
  /\ 0 \in Versions
  /\ None \notin Versions

VARIABLES
  (* the gateway *)
  registry,       \* the version of the registry, None before the first
  last_error,     \* did the refresh that finished last fail?
  refresh_count,
  (* refresh *)
  wpc,            \* where each refresh is
  found,          \* what its factory returned; None for an exception
  since,          \* history: what has finished since each POST /refresh was
                  \* asked for: the versions installed, None for a failure
  (* the lifespan *)
  app,            \* "starting", "running", "stopping", "stopped"
  task,           \* the refresh loop: "none", "check", "refreshing", "waiting",
                  \* "done"
  (* requests *)
  rpc,            \* where each request is
  ask,            \* what it asks for
  target,         \* the service it found
  code,           \* the code of its answer
  (* the rest of the world *)
  queue,          \* the jobs that wait for a thread of the pool
  world,          \* the version that the services are in
  phase,          \* how far each request's registry.call is
  effects         \* how often it has run the method

gateway == <<registry, last_error, refresh_count>>
refreshes == <<wpc, found, since>>
lifespan == <<app, task>>
calls == <<phase, effects>>
requests == <<rpc, ask, target, code, calls>>
vars == <<gateway, refreshes, lifespan, requests, queue, world>>

Call == INSTANCE Promise WITH Calls <- Clients

Counted(n) == IF n < MaxCount THEN n + 1 ELSE n

-----------------------------------------------------------------------------
(* asyncio.to_thread *)

Busy ==
  {w \in Workers : wpc[w] \notin {"idle", "queued"}}
    \cup {r \in Clients : rpc[r] \notin {"new", "queued", "answered"}}

Submit(job) == queue' = Append(queue, job)

(* The first job gets a free thread.                                       *)
Start ==
  /\ queue # <<>>
  /\ Cardinality(Busy) < PoolSize
  /\ queue' = Tail(queue)
  /\ LET job == Head(queue)
     IN  IF job \in Workers
           THEN wpc' = [wpc EXCEPT ![job] = "discovering"] /\ UNCHANGED rpc
           ELSE rpc' = [rpc EXCEPT ![job] = "lookup"] /\ UNCHANGED wpc
  /\ UNCHANGED <<gateway, found, since, lifespan, ask, target, code, calls, world>>

-----------------------------------------------------------------------------
(* refresh *)

(* The factory runs outside of the lock: once the job has a thread,        *)
(* Discover is the moment whose services it returns, DiscoveryFails its    *)
(* exception.                                                              *)
Begin(w) ==
  /\ wpc[w] = "idle"
  /\ wpc' = [wpc EXCEPT ![w] = "queued"]
  /\ Submit(w)
  /\ UNCHANGED <<gateway, found, since, requests, world>>

Discover(w) ==
  /\ wpc[w] = "discovering"
  /\ found' = [found EXCEPT ![w] = world]
  /\ wpc' = [wpc EXCEPT ![w] = "found"]
  /\ UNCHANGED <<gateway, since, lifespan, requests, queue, world>>

DiscoveryFails(w) ==
  /\ wpc[w] = "discovering"
  /\ wpc' = [wpc EXCEPT ![w] = "failed"]
  /\ UNCHANGED <<gateway, found, since, lifespan, requests, queue, world>>

(* The lock is released: every POST /refresh that has been asked for and   *)
(* is not answered may see the outcome.                                    *)
Finish(w, outcome) ==
  /\ wpc' = [wpc EXCEPT ![w] = "reporting"]
  /\ found' = [found EXCEPT ![w] = None]
  /\ since' = [u \in Others |-> IF wpc[u] = "idle" THEN {} ELSE since[u] \cup {outcome}]
  /\ UNCHANGED <<lifespan, requests, queue, world>>

(* Deliberately wrong variants: only the first registry is installed; the  *)
(* error of an earlier refresh stays.                                      *)
InstallFirst(w) ==
  /\ wpc[w] = "found"
  /\ registry' = IF registry = None THEN found[w] ELSE registry
  /\ last_error' = FALSE
  /\ refresh_count' = Counted(refresh_count)
  /\ Finish(w, found[w])

InstallKeepsError(w) ==
  /\ wpc[w] = "found"
  /\ registry' = found[w]
  /\ refresh_count' = Counted(refresh_count)
  /\ UNCHANGED last_error
  /\ Finish(w, found[w])

(* Under the lock.                                                         *)
Install(w) ==
  /\ wpc[w] = "found"
  /\ registry' = found[w]
  /\ last_error' = FALSE
  /\ refresh_count' = Counted(refresh_count)
  /\ Finish(w, found[w])

(* A deliberately wrong variant: a failed refresh unloads the registry.    *)
RecordErrorUnloads(w) ==
  /\ wpc[w] = "failed"
  /\ last_error' = TRUE
  /\ refresh_count' = Counted(refresh_count)
  /\ registry' = None
  /\ Finish(w, None)

RecordError(w) ==
  /\ wpc[w] = "failed"
  /\ last_error' = TRUE
  /\ refresh_count' = Counted(refresh_count)
  /\ UNCHANGED registry
  /\ Finish(w, None)

(* return self.status(), with the lock taken again: last_error and         *)
(* registry as they now are.  The refresh loop discards the answer.        *)
Report(w) ==
  /\ wpc[w] = "reporting"
  /\ wpc' = [wpc EXCEPT ![w] = "idle"]
  /\ since' = [u \in Others |-> IF u = w THEN {} ELSE since[u]]
  /\ UNCHANGED <<gateway, found, lifespan, requests, queue, world>>

(* POST /refresh, while the app serves.                                    *)
RefreshNow(w) ==
  /\ w \in Others
  /\ app = "running"
  /\ Begin(w)
  /\ UNCHANGED lifespan

-----------------------------------------------------------------------------
(* The lifespan and _run_gateway_refresh_loop *)

(* refresh_on_startup, if it is asked for, is awaited; then the loop's     *)
(* task is created, if there is a refresh_interval_s.                      *)
StartupRefresh ==
  /\ app = "starting"
  /\ refresh_count = 0
  /\ Begin(Loop)
  /\ UNCHANGED lifespan

Started ==
  /\ app = "starting"
  /\ wpc[Loop] = "idle"
  /\ app' = "running"
  /\ task' \in {"check", "none"}
  /\ UNCHANGED <<gateway, refreshes, requests, queue, world>>

(* A deliberately wrong variant: "while True".                             *)
LoopRefreshAlways ==
  /\ task = "check"
  /\ Begin(Loop)
  /\ task' = "refreshing"
  /\ UNCHANGED app

(* The stop event is not set: await to_thread(refresh).                    *)
LoopRefresh ==
  /\ task = "check"
  /\ app = "running"
  /\ Begin(Loop)
  /\ task' = "refreshing"
  /\ UNCHANGED app

LoopRefreshed ==
  /\ task = "refreshing"
  /\ wpc[Loop] = "idle"
  /\ task' = "waiting"
  /\ UNCHANGED <<gateway, refreshes, app, requests, queue, world>>

(* The wait for the stop event ends: refresh_interval_s is over, or the    *)
(* event is set.  In the latter case Python 3.11 returns from wait_for     *)
(* although the task was cancelled.                                        *)
LoopWaited ==
  /\ task = "waiting"
  /\ task' = "check"
  /\ UNCHANGED <<gateway, refreshes, app, requests, queue, world>>

(* The stop event is found set.                                            *)
LoopStops ==
  /\ task = "check"
  /\ app = "stopping"
  /\ task' = "done"
  /\ UNCHANGED <<gateway, refreshes, app, requests, queue, world>>

(* Shutdown: stop.set() and task.cancel() are one step of the event loop.  *)
(* The cancellation ends the task, if there is one, where it is, or is     *)
(* lost in wait_for.                                                       *)
(* A refresh that still waits for a thread is cancelled with it; one that  *)
(* a thread is in goes on.                                                 *)
Shutdown ==
  /\ app = "running"
  /\ app' = "stopping"
  /\ task' \in {"done"} \cup ({"waiting"} \cap {task})
  /\ queue' = RemoveFirst(queue, Loop)
  /\ wpc' = [wpc EXCEPT ![Loop] = IF @ = "queued" THEN "idle" ELSE @]
  /\ UNCHANGED <<gateway, found, since, requests, world>>

(* The task has been awaited.                                              *)
Stopped ==
  /\ app = "stopping"
  /\ task = "done"
  /\ app' = "stopped"
  /\ UNCHANGED <<gateway, refreshes, task, requests, queue, world>>

-----------------------------------------------------------------------------
(* Requests *)

Arrive(r) ==
  /\ app = "running"
  /\ rpc[r] = "new"
  /\ \E a \in Asks : ask' = [ask EXCEPT ![r] = a]
  /\ rpc' = [rpc EXCEPT ![r] = "queued"]
  /\ Submit(r)
  /\ UNCHANGED <<gateway, refreshes, lifespan, target, code, calls, world>>

(* The services that fit: on /rpc by the method, as find_by_method does,   *)
(* elsewhere by the controller and, if it is given, the service.           *)
Fits(s, a) ==
  IF a.route = "rpc"
    THEN a.method \in s.methods
    ELSE s.controller = a.controller /\ a.service \in {None, s.service}

Matching(a) == IF registry = None THEN {} ELSE {s \in Catalog[registry] : Fits(s, a)}

Reply(r, answer) ==
  /\ code' = [code EXCEPT ![r] = answer]
  /\ rpc' = [rpc EXCEPT ![r] = "answered"]
  /\ UNCHANGED <<gateway, refreshes, lifespan, queue, ask, target, world>>

(* A deliberately wrong variant: a request that comes before the first     *)
(* registry waits for it, in its thread.                                   *)
LookupFailsWaits(r) ==
  /\ rpc[r] = "lookup"
  /\ registry # None
  /\ Cardinality(Matching(ask[r])) # 1
  /\ Reply(r, "METHOD_NOT_FOUND")
  /\ UNCHANGED calls

(* No registry, no service, or more than one.                              *)
LookupFails(r) ==
  /\ rpc[r] = "lookup"
  /\ Cardinality(Matching(ask[r])) # 1
  /\ Reply(r, "METHOD_NOT_FOUND")
  /\ UNCHANGED calls

(* call_rpc goes on with the registry it has; the controller routes take   *)
(* another snapshot.                                                       *)
LookupFinds(r) ==
  /\ rpc[r] = "lookup"
  /\ Cardinality(Matching(ask[r])) = 1
  /\ \E s \in Matching(ask[r]) : target' = [target EXCEPT ![r] = s]
  /\ rpc' = [rpc EXCEPT ![r] = IF ask[r].route = "rpc" THEN "call" ELSE "snapshot"]
  /\ UNCHANGED <<gateway, refreshes, lifespan, ask, code, calls, queue, world>>

(* _call_service: the registry of the call is not that of the lookup.  If  *)
(* there is none, the answer is that none has been loaded.                 *)
SecondSnapshot(r) ==
  /\ rpc[r] = "snapshot"
  /\ rpc' = [rpc EXCEPT ![r] = IF registry # None THEN "call" ELSE "answered"]
  /\ code' = [code EXCEPT ![r] = IF registry # None THEN @ ELSE "METHOD_NOT_FOUND"]
  /\ UNCHANGED <<gateway, refreshes, lifespan, ask, target, calls, queue, world>>

(* The method that is forwarded: controller_rpc completes a bare name, the *)
(* method routes always prepend the controller.                            *)
Forwarded(a) ==
  IF a.route = "method" \/ (a.route = "controller" /\ Len(a.method) = 1)
    THEN <<a.controller>> \o a.method
    ELSE a.method

(* What now is served where the target was: nothing, once it is gone.      *)
Alive(s) == {t \in Catalog[world] : t.service = s.service /\ t.controller = s.controller}

Served(r) == \E s \in Alive(target[r]) : Forwarded(ask[r]) \in s.methods

(* The answer to an exception of registry.call.                            *)
Raised(r) == IF ask[r].route = "rpc" THEN "METHOD_NOT_FOUND" ELSE "INTERNAL_ERROR"

(* There is no rpc client, or the send is refused.                         *)
CallRefused(r) ==
  /\ rpc[r] = "call"
  /\ Call!Refuse(r)
  /\ Reply(r, Raised(r))

CallSent(r) ==
  /\ rpc[r] = "call"
  /\ target[r].open
  /\ Call!Invoke(r)
  /\ rpc' = [rpc EXCEPT ![r] = "waiting"]
  /\ UNCHANGED <<gateway, refreshes, lifespan, queue, ask, target, code, world>>

(* The server runs the method, perhaps for a caller who has given up.      *)
Runs(r) ==
  /\ phase[r] # "new"
  /\ Served(r)
  /\ Call!Execute(r)
  /\ UNCHANGED <<gateway, refreshes, lifespan, queue, rpc, ask, target, code, world>>

(* A deliberately wrong variant: an exception of the controller is blamed  *)
(* on the params.                                                          *)
CallReturnsBlames(r) ==
  /\ rpc[r] = "waiting"
  /\ \/ Call!AnswerRan(r) /\ \E answer \in {"OK", "INVALID_PARAMS"} : Reply(r, answer)
     \/ /\ Alive(target[r]) # {}
        /\ Call!AnswerUntouched(r)
        /\ Reply(r, IF Served(r) THEN "INVALID_PARAMS" ELSE "METHOD_NOT_FOUND")

(* registry.call returns the server's answer.                              *)
CallReturns(r) ==
  /\ rpc[r] = "waiting"
  /\ \/ Call!AnswerRan(r) /\ \E answer \in {"OK", "INTERNAL_ERROR"} : Reply(r, answer)
     \/ /\ Alive(target[r]) # {}
        /\ Call!AnswerUntouched(r)
        /\ Reply(r, IF Served(r) THEN "INVALID_PARAMS" ELSE "METHOD_NOT_FOUND")

(* A deliberately wrong variant: every route answers as call_rpc does.     *)
CallLostNotFound(r) ==
  /\ rpc[r] = "waiting"
  /\ Call!Lose(r)
  /\ Reply(r, "METHOD_NOT_FOUND")

(* It raises after the send: a timeout, a response that does not decode.   *)
CallLost(r) ==
  /\ rpc[r] = "waiting"
  /\ Call!Lose(r)
  /\ Reply(r, Raised(r))

(* Services start, stop and change.                                        *)
WorldChanges ==
  /\ world + 1 \in Versions
  /\ world' = world + 1
  /\ UNCHANGED <<gateway, refreshes, lifespan, requests, queue>>

-----------------------------------------------------------------------------

Init ==
  /\ registry = None
  /\ last_error = FALSE
  /\ refresh_count = 0
  /\ wpc = [w \in Workers |-> "idle"]
  /\ found = [w \in Workers |-> None]
  /\ since = [w \in Others |-> {}]
  /\ app = "starting"
  /\ task = "none"
  /\ rpc = [r \in Clients |-> "new"]
  /\ ask = [r \in Clients |-> None]
  /\ target = [r \in Clients |-> None]
  /\ code = [r \in Clients |-> "none"]
  /\ queue = <<>>
  /\ world = 0
  /\ Call!Init

Refreshing(w) ==
  \/ Discover(w)
  \/ DiscoveryFails(w)
  \/ Install(w)
  \/ RecordError(w)
  \/ Report(w)

AppLoop ==
  \/ StartupRefresh
  \/ Started
  \/ LoopRefresh
  \/ LoopRefreshed
  \/ LoopWaited
  \/ LoopStops
  \/ Stopped

Serving(r) ==
  \/ LookupFails(r)
  \/ LookupFinds(r)
  \/ SecondSnapshot(r)
  \/ CallRefused(r)
  \/ CallSent(r)
  \/ CallReturns(r)
  \/ CallLost(r)

Next ==
  \/ \E w \in Workers : RefreshNow(w) \/ Refreshing(w)
  \/ AppLoop
  \/ Shutdown
  \/ Start
  \/ \E r \in Clients : Arrive(r) \/ Serving(r) \/ Runs(r)
  \/ WorldChanges

Spec == Init /\ [][Next]_vars

(* Threads and the event loop keep running; discovery does not fail for    *)
(* ever.                                                                   *)
Fairness ==
  /\ \A w \in Workers : WF_vars(Refreshing(w)) /\ SF_vars(Discover(w))
  /\ WF_vars(AppLoop)
  /\ WF_vars(Start)
  /\ \A r \in Clients : WF_vars(Serving(r))

FairSpec == Spec /\ Fairness

-----------------------------------------------------------------------------
(* Properties *)

(* An answer to POST /refresh may be about another refresh, which finished *)
(* between the two times this one takes the lock, but never about one that *)
(* finished before this one was asked for: an error is that of a refresh   *)
(* that failed since, and the services of an ok are those of a registry    *)
(* that was installed since.                                               *)
ReportsNothingOld ==
  \A w \in Others :
    wpc[w] = "reporting" => (IF last_error THEN None ELSE registry) \in since[w]

(* A service that was looked up can be called: between the two snapshots   *)
(* of a controller route no refresh, failed or not, takes the registry     *)
(* away.                                                                   *)
RegistryStays == \A r \in Clients : rpc[r] = "snapshot" => registry # None

(* What an answer says is what happened: "method not found" (HTTP 404) and *)
(* "invalid params" (422) mean that the method has not run for this        *)
(* request and will not, OK that it has.  (A "method not found" of /rpc is *)
(* left out: it stands for every exception, a timeout too.)                *)
RefusalMeansNotRun ==
  \A r \in Clients :
    /\ code[r] = "OK" => effects[r] = 1
    /\ code[r] = "INVALID_PARAMS" \/ (code[r] = "METHOD_NOT_FOUND" /\ ask[r].route # "rpc") =>
         effects[r] = 0 /\ phase[r] \notin {"open", "lost"}

(* What the HTTP client knows of its request from the answer: an internal  *)
(* error, and on /rpc a "method not found", leave everything open.  It     *)
(* counts as invoked when the gateway may be calling.  Elsewhere a "method *)
(* not found" says that nothing has run; whether the gateway or the server *)
(* has found none, which the client is not told and which makes no         *)
(* difference to it, only chooses between two names of that.               *)
Told ==
  [r \in Clients |->
     CASE code[r] = "OK" -> "ran"
       [] code[r] = "INVALID_PARAMS" -> "untouched"
       [] code[r] = "INTERNAL_ERROR" -> "lost"
       [] code[r] = "METHOD_NOT_FOUND" ->
            IF ask[r].route = "rpc" THEN "lost"
            ELSE IF phase[r] = "new" THEN "refused"
            ELSE "untouched"
       [] OTHER ->
            IF rpc[r] \in {"call", "waiting"} \/ (rpc[r] = "lookup" /\ ask[r].route = "rpc")
              THEN "open"
              ELSE "new"]

Http == INSTANCE Promise WITH Calls <- Clients, phase <- Told, effects <- effects

(* The gateway hands on the promise it is given: an HTTP request is itself *)
(* a call of Promise, run at most once and answered truly, through stale   *)
(* registries, a second snapshot, a full pool, timeouts and late runs.     *)
HttpKeepsPromise == Http!Spec

(* Every request is answered, also when the pool's threads are taken by    *)
(* slow refreshes and calls that time out, and no registry was ever found. *)
RequestAnswered == \A r \in Clients : (rpc[r] = "queued") ~> (rpc[r] = "answered")

(* A shutdown ends: the awaited task does, also when the cancellation was  *)
(* lost in wait_for and only the loop's own test is left to end it.        *)
ShutdownEnds == (app = "stopping") ~> (app = "stopped")

(* While the app stays up with its loop, the registry catches up with the  *)
(* services again and again, whatever slow or failed refreshes come        *)
(* between.                                                                *)
CatchesUp == <>[](app = "running" /\ task # "none") => []<>(registry = world)

(* "stores the latest registry snapshot": a registry is not replaced by    *)
(* one that was discovered before it.                                      *)
LatestSnapshot == [][registry # None => registry' >= registry]_vars

=============================================================================
