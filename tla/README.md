# A TLA+ development of iox2_jsonrpc

iox2_jsonrpc serves the typed methods of a Python controller over iceoryx2
request-response services (JSON-RPC 2.0 as bytes in shared memory), finds such
services at run time, calls them, and offers an HTTP gateway on top. The modules
here model what can go wrong between its processes and threads; TLC checks them
on small instances, and TLAPS proves the safety results about dispatch, calls,
server processes, discovery and gateway for every instance.

## The system

| Part | Source | State | Operations |
|---|---|---|---|
| Dispatch | `controller.py`, `endpoint.py` | none | `iter_rpc_methods`, `describe_controller`, `handle`, `handle_bytes` |
| Data | `models.py` | none | requests, responses, descriptors, their validation and encoding |
| Server | `iceoryx_server.py` | two services, two server ports, node; the active request in hand | constructor, `run_forever`, the two drains, `close` |
| Helpers | `iceoryx_helpers.py`, `iceoryx_runtime.py` | an environment variable, set on import | dead-node cleanup, retry of the server port, force removal |
| Registry | `iceoryx_registry.py` | list of discovered services, `request_counter` | `discover_all`, `load_all_descriptors`, `call`, `call_unique`, `call_endpoint` |
| Gateway | `examples/webapi.py` | registry, last error, refresh count, a lock; the refresh loop's task and stop event | `refresh`, the routes, lifespan, the OpenAPI document |
| Examples | `examples/cli.py`, `examples/camera.py` | none of their own | a script of calls, the start of the API; a demo controller |

How they interact. A server process owns two iceoryx2 services per controller:
`<service>/<controller>/rpc` and `.../schema`. Its loop waits 10 ms, drains the
schema requests, drains the rpc requests, and runs the controller in the same
thread. A registry finds services by their attributes, asks each for its
descriptor on the schema service, and opens an rpc client. `call` sends a request
and polls its pending response until a deadline. The gateway refreshes one
registry from several threads, and HTTP threads share it, with its rpc client
and its counter.

What is hard about it, and what makes it correct:

* Dispatch: what is announced is what is served; the code of an answer tells
  whether the controller ran.
* Calls: at most one execution per call; the answer a thread gets is the one to
  its own request although ids are taken from an unlocked counter and nobody
  compares them; a timeout leaves the outcome open, everything else tells it
  truly; every call returns; no active request is leaked on an exception.
* Server processes: crashed, closing and starting processes compete for
  `max_servers(1)`; a name has one server, the two names the same one; a failed
  start holds nothing; retries end. Force removal is on by default and breaks
  the first two.
* Discovery: a registry is put together from several reads of a changing world.
  An entry is loaded whole or not at all, its client leads where its descriptor
  came from, one failure stays one, the deadline ends an empty listing, and what
  a registry keeps alive goes again.
* Gateway: overlapping refreshes; a lookup and a call through two different
  registries; exceptions turned into codes; a pool of threads that refreshes and
  calls share; the end of the loop. What the HTTP client is told is as true as
  what the call told the gateway.
* Routes: the order of the table, names rebuilt and stripped three times,
  ambiguous names. A listed route leads to what it is listed for.

`PROJECT.json` lists the hazards line by line, with the properties that cover them.

## Modules

**Endpoint** translates the dispatch to operators. A dotted name is the sequence
of its segments, so `startswith("<controller>.")` is a strict prefix. `Handle`
returns the answer's id and code, whether the controller ran, and whether the
answer can be encoded; an answer that cannot is an exception out of
`handle_bytes`. Methods are known by their positions among the members that
`dir()` lists, and the loop stops at the first that matches (`First`). **Dispatch**
(extends Endpoint) serves one request of any controller, and states what must be
true of its answer; `MCEndpoint` is its instance.

**Transport** (extends Endpoint) is one server process and the threads that share
a registry.

| Code | Model |
|---|---|
| `request_counter += 1`, then its second read | `Call`, `StoreCounter`, `Number`: three steps without a lock |
| `pending_response = ...send()` | `Send`, `SendRefused` when the client has no slot |
| the polling loop | `PollReply`, `PollEmpty`, `Expire` |
| other exceptions out of a call | `Interrupted` |
| `load_all_descriptors`' request | `AskDescriptor` of a prober, then the same loop |
| `server.receive()` | `Receive`, `EmptyDrain` |
| `build_response` | `BuildRpc` (dispatch, effect, encoding), `BuildSchema` |
| `_send_response` | `SendReply`, `SendFails` |
| `finally: active_request.delete()` | `Delete` |
| `except KeyboardInterrupt`, `close()` | `Interrupt`, `Close` |
| death and a new start of the process | `Crash`, `Restart` (with or without the services the clients hold) |

**Promise** is what a remote call promises, without transport: executed at most
once; an answer tells truly whether it ran; only a lost call leaves that open.
`Transport!KeepsPromise` is Promise under a refinement mapping: the phase of a
call is read off its `outcome` and whether its pending response is alive, the
effects are `ran`.

**Startup** is several server processes over the same two names: `CreateNode`,
`ForceRemove`, `OpenOrCreate`, `Incompatible`, `CreatePort`, `Retry`, `GiveUp`,
`PortFails`, `Interrupted`, then `Stop`, `ClosePort`, `CloseService`, `Finish`; `pc` and `at`
walk through the constructor (rpc before schema) and `close` (schema before rpc).
An interrupt of either passes every handler and closes nothing: what the process
has is left to the interpreter, which drops the attributes one by one in the order
of their assignment (`DropService`, `DropPort`; `iceoryx_server.py:47-50`), rpc
before schema, while other processes act in between. A process that is gone before
or during that is one of `Crash`. (A `close` after an interrupted `close` needs a
`with` statement around the server, which nothing in the repository has.)
A service is known by its creator, so a force-removed service and its successor
under the same name are two.

**Discovery** (extends Startup) adds the owner of a registry, who discovers again
and again while Startup's servers come and go.

| Code | Model |
|---|---|
| `discover_all`: node, cleanup, deadline | `Discover` |
| one pass over `Service.list`, and the wait | `List`: any part of what is listed may be skipped by an exception; the first pass that shows something is the last |
| `while time.monotonic() < deadline` | `Deadline`; `Raises` for an exception out of the listing |
| opening the schema service | `OpenSchema`, `OpenSchemaFails` |
| `_request_bytes` on the schema client, validation | `DescriptorArrives` from whoever has the port of the service that was opened, `NoDescriptor` |
| opening the rpc service, the client, the four assignments | `OpenRpc`, `OpenRpcFails` |
| the owner's assignment of the new registry | `Replace` |
| Python's references to services and clients | `Holding`, `Keep`: Startup's `client` is what the locals, the new entries and the registry in use refer to |
| other controllers in the list | `LoadElsewhere`, in one step |

The services a discovery opens keep their names alive, so Startup's servers and
the owner interact both ways. (In Startup itself `ClientOpen` and `ClientClose` are
any clients at all; Discovery puts its owner in their place.) The request of a
descriptor is one step here, as Transport has its polling. Only
`load_descriptors=True` is modelled: without it every entry stays as listed.

**Gateway** is the refreshing threads (`Begin`, `Discover`, `DiscoveryFails`,
`Install`, `RecordError`, and `Report`, the status that the refresh returns after it
has released the lock), the lifespan and its loop (`StartupRefresh` ...
`Stopped`), HTTP requests (`Arrive`, `LookupFails`, `LookupFinds`, `SecondSnapshot`,
`CallRefused`, `CallSent`, `CallReturns`, `CallLost`; `Runs` is the server), and the
pool of `asyncio.to_thread` that runs both (`queue`, `Start`). A registry is the
number of the version of the world that its discovery saw. The history variable
`since` keeps, for each POST /refresh under way, what has finished since it was asked
for.

Gateway is composed with Transport through **Promise**: `Call` is an instance of
Promise, and its actions, which Transport was proved to implement, are the only
ones that `registry.call` may do here. In turn an HTTP request is a call of
Promise to the HTTP client: `Http` is the same module under the mapping `Told`,
which reads off the HTTP answer what the client may take as done, not done, or
open, and `HttpKeepsPromise` says that the gateway implements it. Only between two
names for "nothing has run", the gateway's own refusal and the server's, does `Told`
choose by the gateway's state; the client is not told which, and acts alike.

**Routes** (extends Endpoint) translates to operators what one HTTP request
reaches: the route table in its order, `_find_service`, `call_unique` and
`call_endpoint`, the name that each route forwards, the dispatch of Endpoint, the
exception handlers and the HTTP status; and the routes that `/controllers` lists and
`/openapi.json` documents. What a search finds are positions in the snapshot.
**Answers** (extends Routes) serves one request per behaviour over one snapshot and
states what must be true of the answer. That no two services of a snapshot have the
same rpc endpoint (`SnapshotAssumption`) is what the dictionary in `discover_all`
ensures.

**MCEndpoint, MCTransport, MCStartup, MCDiscovery, MCGateway, MCRoutes** hold the instances. Definitions commented as
deliberately wrong variants are never used by a specification: each shows, put in
place of the definition after it, that some property can fail.

iceoryx2, the operating system and the other processes are external. What the
models assume of iceoryx2 is stated at the head of Transport and of Startup.

## Runs

| Run | Instance | Shows |
|---|---|---|
| `endpoint` | 2 controller names (one dotted), all subsets of 5 members, all names of 1 to 3 segments out of 6 (one empty) | `DescriptorMatchesDispatch`, `RunsOnlyAdmitted`, `CodeTellsTheEffect` |
| `calls` | 2 callers, 2 calls each, 2 slots, no restart | `AtMostOnce`, `AnswersFitRequests` |
| `faults` | 2 callers with 1 slot, no prober, 1 call each, every way a dispatch ends, 1 restart, fair | `AtMostOnce`, `TruthfulOutcomes`, `CallReturns`, `KeepsPromise` |
| `live` | 1 caller, 1 prober, 2 calls each, 1 slot, no restart, fair | `TypeOK`, `ActiveReleased`, `CallReturns`, `RequestServed`, `KeepsPromise` |
| `startup_opt_out` | 3 processes, one upgraded, 2 attempts, variable 0 | `TypeOK`, `OneServer`, `NoMixedPair` |
| `startup_forced` | 2 processes, one with the default setting, 3 attempts, fair | `WholeOrGone`, `StartEnds` |
| `startup_default` | 2 processes, variable unset | violates `NobodyIsTakenOver` |
| `discovery` | 2 processes, the first force-removing, the second upgraded and opted out, 1 other controller, listings that show nothing once | `DiscoveryTypeOK`, `ClientFitsDescriptor`, `FailureIsLocal` |
| `discovery_live` | 2 processes, both opted out, the second upgraded, up to 2 empty listings, fair | `DiscoveryEnds`, `StaleServicesGo` |
| `gateway` | loop, 1 POST /refresh, 1 request out of 4 kinds, 2 threads, 3 versions of the world, fair | `ReportsNothingOld`, `RegistryStays`, `RefusalMeansNotRun`, `HttpKeepsPromise`, `RequestAnswered`, `ShutdownEnds`, `CatchesUp` |
| `gateway_latest` | loop and POST /refresh, no requests, not fair | violates `LatestSnapshot` |
| `routes` | registries of up to 2 services with 3 controller names (one dotted, one `refresh`), 3 sets of methods (some called `schema`, `methods`, `rpc`), loaded or not; 33 paths with both verbs, with and without `?service=`, and `/rpc` | `ListedRoutesLead`, `FixedPathsStay`, `AliasAlwaysLeads`, `AmbiguityResolved`, `StatusTellsTheEffect` |

The two violations are disagreements of the code with its own texts. Importing
the package sets `IOX2_JSONRPC_FORCE_REMOVE_SERVICES` to 1 where it is unset
(`iceoryx_runtime.py:7`), while the error text in `iceoryx_helpers.py:177-179`
offers it as something one can also set; so a second start takes over the names
of a live server by default. And `refresh` (`webapi.py:112`) runs discovery outside
of the lock, so that of two overlapping refreshes the older may be installed
last, while the docstring (`webapi.py:57-58`) says the latest snapshot is stored.
`CatchesUp` shows that the loop repairs this at a later refresh.

What the passing runs say about the limits of the code:

* `ListedRoutesLead` needs its exceptions (`Taken`): `method_routes` (`webapi.py:208`)
  lists `GET .../schema`, `GET .../methods` and `POST .../rpc` for methods of
  these names although the fixed subpaths take them, by intent
  (`webapi.py:765`), and a controller called `refresh` has no describing route. With
  another verb than the one a subpath is registered for (`GET .../rpc`,
  `POST .../methods`) these words are methods' names like any other
  (`FixedPathsStay` is about the registered verbs). The
  alias under `/methods/` reaches every method (`AliasAlwaysLeads`).
* `Told` counts a "method not found" of `/rpc` as an open outcome, since `call_rpc`
  gives every exception this code (`webapi.py:311`); on all other routes it does
  mean that nothing ran.
* `NoMixedPair` needs its exception: `close` gives the ports back in the reverse
  order of the constructor, but a process that is interrupted in `close` or before
  `run_forever` leaves them to the interpreter, in the order of the constructor. Then
  its schema port may outlive its rpc port and meet the rpc port of the next server.
  Its loop answers no more, so a client that asks for a descriptor there times out.
* An answer to POST /refresh may be about another refresh that finished in
  between, but not about one from before (`ReportsNothingOld`).
* A discovery that sees no service until its deadline yields an empty registry,
  which replaces a good one; no property expects otherwise.
* `ClientFitsDescriptor` holds while the described process serves and has its
  name. Afterwards, also when a takeover falls between the two opens, the entry is
  stale until the next discovery.

### Bounds

* `MaxCalls` (Transport): two calls of one thread are what a late answer to an
  earlier call needs; two callers are what a lost update of the counter needs. A
  bounded number of calls also bounds the queue, so `RequestServed` does not see
  an endless stream of schema requests that keeps the drain from ending
  (`iceoryx_server.py:142`): that the loop gets to the rpc requests is shown only
  for clients that pause.
* `MaxPolls` is 1: one wait before the deadline and one answer that may come in
  it or after it. The loop has no other memory of how often it ran.
* `MaxActive` is the real limit of 8 scaled down, so that it is reached
  (`faults`) and not reached (`calls`).
* `MaxRestarts` is 1 where a run is about restarts (`faults`): the old and the
  new process are what a request can be confused between. It is 0 in `calls` and
  `live`, whose questions are a second call after a late answer and both channels.
* `MaxAttempts` is 20 in the code; 2 and 3 have a first, a middle and a last.
* `MaxPasses` (Discovery) counts the time until the deadline in listings: 1 is a
  deadline after one empty listing, 2 leaves a second chance. The loop remembers
  nothing between listings but that nothing was found. In these two runs
  `MaxAttempts` is 1: the retry of a port is Startup's own matter.
* `Others` (Discovery) is one controller, before or after the one that fails; the
  `discovery_live` run has none, since it cannot hold the modelled names.
* `PoolSize` is 2 for three jobs: there is always one that may have to wait, and two
  refreshes overlap in every way.
* One request (Gateway): requests write nothing that another one reads, and meet
  only in the pool, where a refresh takes a second request's place.
* `MaxCount` (Gateway) is 1: the code only reports `refresh_count`, and the model asks
  of it whether the start-up refresh, the first of all, has been.
* Symmetry is used for threads, in runs without liveness only.

### Fairness

Threads in a call, and the server's loop, keep being scheduled (weak fairness of
`Progress` and `Loop`): the code has no lock between them, each step ends by
itself, and waits are timed. Nothing obliges a user to call, a crash to happen or
a server to be restarted. In Startup a process that has begun goes on (weak
fairness of `Progress`), since every wait there is a timed sleep; that iceoryx2
fails or a user interrupts is never relied on. In Discovery the owner's thread
goes on and discovers again (weak fairness of `Discover`, `Listing`, `Loading`:
every wait is timed); that the listing gets through again and again, instead of
raising every time, is an assumption about iceoryx2 (strong fairness), used by
`StaleServicesGo`. In Gateway the event loop, the pool and its threads go on (weak
fairness); a call returns or is lost because Transport's does (`CallReturns` there);
that a discovery succeeds again if it is tried again and again (strong fairness
of `Discover`) is an assumption about the environment, used by `CatchesUp` alone.

## Proofs

All theorems hold for any sets of processes, threads, controllers, requests and
any bounds, from the assumptions named in the modules and nothing else. Liveness
apart, every property that a passing run checks is proved.

| Module | Theorem | Property |
|---|---|---|
| `DispatchProofs` | `AnnouncedIsServed` | `DescriptorMatchesDispatch` |
| | `OnlyAdmittedRun` | `RunsOnlyAdmitted` |
| | `CodesAreTrue` | `CodeTellsTheEffect` |
| `TransportProofs` | `TypeCorrect` | `TypeOK` |
| | `RunsAtMostOnce` | `AtMostOnce` |
| | `AnswersFit` | `AnswersFitRequests` |
| | `OutcomesAreTruthful` | `TruthfulOutcomes` |
| | `NothingLeaks` | `ActiveReleased` |
| `TransportRefinement` | `ImplementsPromise` | `KeepsPromise` |
| `StartupProofs` | `TypeCorrect` | `TypeOK` |
| | `WholeOrGoneAlways` | `WholeOrGone` |
| | `OneServerOptedOut` (nobody forces) | `OneServer` |
| | `NoMixedPairOptedOut` (nobody forces) | `NoMixedPair` |
| | `ServingKeepsItsNames` (nobody forces) | the names of a serving process lead to it |
| `DiscoveryProofs` | `DiscoveryTypeCorrect` | `DiscoveryTypeOK` |
| | `ClientAlwaysFits` | `ClientFitsDescriptor` |
| | `FailureStaysLocal` | `FailureIsLocal` |
| `GatewayProofs` | `ReportsAreCurrent` | `ReportsNothingOld` |
| | `RegistryAlwaysStays` | `RegistryStays` |
| | `RefusalsAreTrue` | `RefusalMeansNotRun` |
| | `HandsOnThePromise` | `HttpKeepsPromise` |
| | `AloneTheLatestStays` (loop alone) | `LatestSnapshot` |
| `RoutesProofs` | `ListedLead` | `ListedRoutesLead` |
| | `FixedSubpathsWin` | `FixedPathsStay` |
| | `AliasReaches` | `AliasAlwaysLeads` |
| | `NeverPicked` | `AmbiguityResolved` |
| | `StatusIsTrue` | `StatusTellsTheEffect` |

"Nobody forces" is `NobodyForces`: every user has set the variable to 0. It is a
hypothesis of those three theorems because force removal lets a second start take
over the names of a live server, as `startup_default` shows. Likewise `AloneTheLatestStays` assumes that there is no POST
/refresh: the run `gateway_latest` needs one.

**Transport.** Everything follows from `Invariance`, `Spec => []IInv`. None of the
properties is inductive alone. That a method does not run twice needs: a request
is in one place at a time (`OncePlaced`), and while it is on the wire or about to
be built it has not run (`EffectInv`). That an outcome is truthful needs: from the
moment a response exists, its request can no longer be taken up and the count of
executions is what its code says (`Settled`, kept for the response in the server's
hand, in an inbox, and as an outcome, in `AnswerInv`). That an answer fits needs:
what travels is what the waiting thread still has as its request, and a thread's
tokens are new at each call (`TokenInv`). `ServerInv` ties the server's registers to
its program counter. The proof has a lemma per action; `DispatchResult` is the
lemma about Endpoint all of them use. `ImplementsPromise` maps initial states to
initial states, and under `IInv` every step to a step of Promise or a stutter
(`Send` invokes, `Leave` ends a call, `BuildRpc` and an interrupted build execute).

**Dispatch.** `Stripped` is the heart: for any name, method and last segment,
prepending the controller's name and stripping it are inverse, also with dots and
empty segments. `FirstOf` says that the loop finds the first match (a well-founded
minimum, since positions are numbers). `Dispatching` puts them together. These
lemmas are in EndpointProofs, because both DispatchProofs and RoutesProofs rest on
them.

**Startup.** `IInv` says for each process what it has at each place of the
constructor and of `close` (`Place`), and that no service has two ports (`OnePort`).
`Place` also says that whoever has the schema port has the rpc port: this is what the
opposite orders of constructor and `close` are for, and `NoMixedPair` rests on it. It
excepts the dead and those whose ports the interpreter is dropping.
Each step touches one process and sweeps some of the dead (`Aside`); `OwnPart`
reduces its lemma to that process. Where nobody forces, names are never taken from
those who hold their services or have ports of them (`NamesLead`), so that two ports under a name would
be two of one service, which `OnePort` excludes.

**Discovery.** The invariant adds to Startup's that services are created once
(`CreatedOnce`: a process that has yet to create a service is not the creator of
any that is named or held), and that the described process has served (`Past`).
So a name that was taken from a serving process never comes back to the service it
holds: `Moves` is what a step may do to names, `MovesKeep` that clients go on
fitting. `OpenRpc` establishes the fit, because the name it opens is, if the
described process has it, that process's port. That a failed load leaves the others
alone is `OthersLoaded`, relative to what is still to be done.

**Gateway.** `CallOK` relates how far a request is, how far its `registry.call` is,
whether the method ran, and what was answered; `QueueOK` says that the pool's queue
holds the waiting jobs once each; `RefreshOK` that a refresh that has found a
registry can install it, and that what a reporting refresh reads is among what has
finished since it was asked for, because its own outcome is, and whoever changed
the registry or the error after it added theirs. `HandsOnThePromise` composes: under `IInv` each step of the
gateway, whose calls move by the actions of Promise alone, is seen through `Told` a
step of Promise or none. `AloneTheLatestStays` adds that what the loop has found is
no older than the registry in use (`Ordered`).

**Routes.** `Rows` says of each of the 16 routes which paths it fits, `HandlerOf`
which one of those is the first for the paths of a controller, whatever the
controller and the method are called, as long as each is one segment of the URL. `Alone` says that a controller's name with a
service name finds one service, `OnlyOne` that a search that finds one service
returns it. Then `Reaching` puts the chain together: the name that the route
rebuilds is announced, so `Dispatching` excludes "method not found".
`StatusTellsTheEffect` needs none of this: it holds whichever service and whichever
member are chosen (`Calling`).

Before they were proved the invariants were checked by TLC on the instances of
the runs. Only model-checked: liveness, which is out of the prover's reach
(`CallReturns`, `RequestServed`, `StartEnds`, `DiscoveryEnds`, `StaleServicesGo`,
`RequestAnswered`, `ShutdownEnds`, `CatchesUp`).

## Not modelled

Pydantic's parsing and schema generation, JSON encoding and byte copies (flags
say whether they succeed); attributes beyond `rpc.methods`; log and print output;
the JSON documents of the catalog, of `/describe` and of OpenAPI beyond the service
each is about, and the operationIds in it; the protocol declarations and
re-exports, which hold no behaviour; the command line and camera examples, a
script of calls and a controller with two fields.

In Routes a controller's name and a method's name are one segment of the URL each:
names that are empty or hold a slash, which the package does not refuse, are left out.
Verbs other than GET and POST are left out as well.

A discovery that sees parts of two worlds is in Discovery, not in Gateway, where it
would multiply the versions: what it yields there is a service without client, or
one that is gone when it is called, and both are in Gateway's catalog. Two owners
whose discoveries overlap are not modelled; each could keep a closed server's name
alive for the other to find.

## Plan

1. Endpoint, Transport, Promise, with the proofs of the call path (done).
2. Startup and Gateway, model-checked (done).
3. Discovery over Startup; Gateway composed with Promise and the thread pool;
   Routes (done).
4. Proofs about Gateway, its refinement of Promise included (done).
5. Proofs about Startup for any number of processes (done).
6. Proofs about Discovery (done).
7. Proofs about Endpoint (done).
8. Proofs about Routes, for any snapshot and request (done).
