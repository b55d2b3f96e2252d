----------------------------- MODULE Discovery ------------------------------
(***************************************************************************)
(* Iox2RpcRegistry.discover_all and load_all_descriptors, run again and    *)
(* again by one owner that keeps the latest registry, while the servers of *)
(* one controller start, serve, close and crash as in Startup.             *)
(*                                                                         *)
(* Startup's two names belong to the entry Here.  The entries of Others    *)
(* are controllers whose servers do not change; each is loaded in one step *)
(* and matters for what happens to the rest of the list.                   *)
(*                                                                         *)
(* A descriptor is known by the process that sent it.  What a registry     *)
(* opens stays in the system while Python refers to it: the locals of      *)
(* load_all_descriptors until they are bound again or the function         *)
(* returns, the entries as long as their registry is used.                 *)
(***************************************************************************)
EXTENDS Startup

CONSTANTS
  Here,        \* the rpc endpoint whose servers Startup models
  Others,      \* other rpc endpoints
  MaxPasses    \* bound: listings until the deadline

Listable == {Here} \cup Others

ASSUME DiscoveryAssumption ==
  /\ Here \notin Others
  /\ Listable \cap (Procs \cup {None}) = {}
  /\ MaxPasses \in Nat \ {0}

VARIABLES
  dpc,       \* where the discovery is: "idle", "listing", "loading", "asking",
             \* "opening"
  passes,    \* the time spent on listings that have shown nothing
  entries,   \* the entry made for each endpoint, None for one not listed
  todo,      \* the endpoints whose descriptors are still to be loaded
  local,     \* schema_service and rpc_service, if they are of Here, and
             \* descriptor
  registry   \* the entries of the registry in use, None before the first

discovery == <<dpc, passes, entries, todo, local, registry>>
allVars == <<vars, discovery>>

-----------------------------------------------------------------------------

NoEntries == [e \in Listable |-> None]

Unbound == [schema |-> None, rpc |-> None, descriptor |-> None]

(* The methods that an endpoint's descriptor, or attribute, announces.     *)
Announced(who) == IF who \in Procs THEN Methods[who] ELSE who

(* DiscoveredRpcService, as the attributes describe it and after loading.  *)
Unloaded(who) == [methods |-> Announced(who), descriptor |-> None, service |-> None]

Loaded(descriptor, service) ==
  [methods |-> Announced(descriptor), descriptor |-> descriptor, service |-> service]

(* None is none of the entries it may stand for.                           *)
ASSUME NoneAssumption ==
  None \notin {Unloaded(who) : who \in Procs \cup Others}
               \cup {Loaded(who, service) : who, service \in Procs \cup Others}

HasClient(es, e) == es[e] # None /\ es[e].service # None

(* What keeps services of Here alive.                                      *)
OpenRpcServices ==
  {local.rpc}
    \cup (IF HasClient(entries, Here) THEN {entries[Here].service} ELSE {})
    \cup (IF registry # None /\ HasClient(registry, Here)
            THEN {registry[Here].service} ELSE {})

Holding ==
  [ep \in Endpoints |-> (IF ep = "rpc" THEN OpenRpcServices ELSE {local.schema}) \ {None}]

(* Objects nothing refers to are dropped, and services nobody holds go.    *)
Keep == client' = Holding' /\ Settle(named)

(* try_cleanup_dead_nodes of a node or a service.                          *)
Sweep ==
  \E gone \in SUBSET Dead : held' = Swept(held, gone) /\ port' = Swept(port, gone)

Processes == <<pc, at, attempts>>

-----------------------------------------------------------------------------
(* discover_all *)

Discover ==
  /\ dpc = "idle"
  /\ dpc' = "listing"
  /\ passes' = 0
  /\ UNCHANGED <<entries, todo, local, registry, Processes>>
  /\ Sweep
  /\ Keep

(* The rpc services that iox2.Service.list shows.                          *)
Listed == Others \cup (IF named["rpc"] # None THEN {Here} ELSE {})

Entry(e) == Unloaded(IF e = Here THEN named["rpc"] ELSE e)

(* A deliberately wrong variant: a listing that shows nothing is repeated  *)
(* for as long as it shows nothing.                                        *)
ListForever(seen) ==
  /\ dpc = "listing"
  /\ IF seen = {}
       THEN UNCHANGED <<dpc, entries, todo>>
       ELSE /\ entries' = [e \in Listable |-> IF e \in seen THEN Entry(e) ELSE None]
            /\ todo' = seen
            /\ dpc' = "loading"
  /\ UNCHANGED <<passes, local, registry, vars>>

(* One pass: a service whose details raise an exception is skipped; the    *)
(* first pass that shows any service ends the listing.  A pass, with the   *)
(* wait after it, takes some of the time until the deadline.               *)
List(seen) ==
  /\ dpc = "listing"
  /\ passes < MaxPasses
  /\ IF seen = {}
       THEN passes' \in passes + 1 .. MaxPasses /\ UNCHANGED <<dpc, entries, todo>>
       ELSE /\ entries' = [e \in Listable |-> IF e \in seen THEN Entry(e) ELSE None]
            /\ todo' = seen
            /\ dpc' = "loading"
            /\ UNCHANGED passes
  /\ UNCHANGED <<local, registry, vars>>

(* The deadline has passed: the registry will be empty.                    *)
Deadline ==
  /\ dpc = "listing"
  /\ passes = MaxPasses
  /\ dpc' = "loading"
  /\ UNCHANGED <<passes, entries, todo, local, registry, vars>>

(* The node, the listing or the wait raises: there is no new registry.     *)
Raises ==
  /\ dpc = "listing"
  /\ dpc' = "idle"
  /\ UNCHANGED <<passes, entries, todo, local, registry, vars>>

-----------------------------------------------------------------------------
(* load_all_descriptors *)

LoadElsewhere(e) ==
  /\ dpc = "loading"
  /\ e \in todo \cap Others
  /\ todo' = todo \ {e}
  /\ entries' = [entries EXCEPT ![e] = Loaded(e, e)]
  /\ local' = [Unbound EXCEPT !.descriptor = e]
  /\ UNCHANGED <<dpc, passes, registry, Processes, held, port>>
  /\ Keep

OpenSchema ==
  /\ dpc = "loading"
  /\ Here \in todo
  /\ named["schema"] # None
  /\ todo' = todo \ {Here}
  /\ local' = [local EXCEPT !.schema = named["schema"]]
  /\ dpc' = "asking"
  /\ UNCHANGED <<passes, entries, registry, Processes>>
  /\ Sweep
  /\ Keep

(* The exception is caught in the loop: the entry stays as it is, what has *)
(* been bound stays bound, and the next entry is loaded.                   *)
OpenSchemaFails ==
  /\ dpc = "loading"
  /\ Here \in todo
  /\ todo' = todo \ {Here}
  /\ UNCHANGED <<dpc, passes, entries, local, registry, vars>>

(* A deliberately wrong variant: the descriptor is assigned when it comes. *)
DescriptorArrivesEarly ==
  /\ dpc = "asking"
  /\ \E q \in Procs :
       /\ pc[q] = "serving"
       /\ port[q]["schema"] = local.schema
       /\ local' = [local EXCEPT !.descriptor = q]
       /\ entries' = [entries EXCEPT ![Here] = Loaded(q, None)]
  /\ dpc' = "opening"
  /\ UNCHANGED <<passes, todo, registry, vars>>

(* The process with the server port of the schema service answers.         *)
DescriptorArrives ==
  /\ dpc = "asking"
  /\ \E q \in Procs :
       /\ pc[q] = "serving"
       /\ port[q]["schema"] = local.schema
       /\ local' = [local EXCEPT !.descriptor = q]
  /\ dpc' = "opening"
  /\ UNCHANGED <<passes, entries, todo, registry, vars>>

(* A deliberately wrong variant: a failure ends the loop.                  *)
NoDescriptorEnds ==
  /\ dpc = "asking"
  /\ dpc' = "loading"
  /\ todo' = {}
  /\ UNCHANGED <<passes, entries, local, registry, vars>>

(* No schema client, a timeout, or a descriptor that does not validate.    *)
NoDescriptor ==
  /\ dpc = "asking"
  /\ dpc' = "loading"
  /\ UNCHANGED <<passes, entries, todo, local, registry, vars>>

(* A deliberately wrong variant: the client of the last registry is used   *)
(* again.                                                                  *)
OpenRpcReuses ==
  /\ dpc = "opening"
  /\ named["rpc"] # None
  /\ LET service == IF registry # None /\ HasClient(registry, Here)
                      THEN registry[Here].service
                      ELSE named["rpc"]
     IN  /\ local' = [local EXCEPT !.rpc = service]
         /\ entries' = [entries EXCEPT ![Here] = Loaded(local.descriptor, service)]
  /\ dpc' = "loading"
  /\ UNCHANGED <<passes, todo, registry, Processes>>
  /\ Sweep
  /\ Keep

(* The rpc service is the one that the name leads to now.                  *)
OpenRpc ==
  /\ dpc = "opening"
  /\ named["rpc"] # None
  /\ local' = [local EXCEPT !.rpc = named["rpc"]]
  /\ entries' = [entries EXCEPT ![Here] = Loaded(local.descriptor, named["rpc"])]
  /\ dpc' = "loading"
  /\ UNCHANGED <<passes, todo, registry, Processes>>
  /\ Sweep
  /\ Keep

(* The service cannot be opened, or no rpc client can be created on it.    *)
OpenRpcFails ==
  /\ dpc = "opening"
  /\ local' \in {local, [local EXCEPT !.rpc = named["rpc"]]}
  /\ dpc' = "loading"
  /\ UNCHANGED <<passes, entries, todo, registry, Processes, held, port>>
  /\ Keep

(* A deliberately wrong variant: an entry that cannot be loaded any more   *)
(* is taken from the last registry.                                        *)
ReplaceMerges ==
  /\ dpc = "loading"
  /\ todo = {}
  /\ registry' = IF registry # None /\ HasClient(registry, Here) /\ ~HasClient(entries, Here)
                   THEN [entries EXCEPT ![Here] = registry[Here]]
                   ELSE entries
  /\ entries' = NoEntries
  /\ local' = Unbound
  /\ dpc' = "idle"
  /\ UNCHANGED <<passes, todo, Processes, held, port>>
  /\ Keep

(* The registry replaces the owner's last one.                             *)
Replace ==
  /\ dpc = "loading"
  /\ todo = {}
  /\ registry' = entries
  /\ entries' = NoEntries
  /\ local' = Unbound
  /\ dpc' = "idle"
  /\ UNCHANGED <<passes, todo, Processes, held, port>>
  /\ Keep

-----------------------------------------------------------------------------

DiscoveryInit ==
  /\ Init
  /\ dpc = "idle"
  /\ passes = 0
  /\ entries = NoEntries
  /\ todo = {}
  /\ local = Unbound
  /\ registry = None

Listing == Deadline \/ \E seen \in SUBSET Listed : List(seen)

Loading ==
  \/ \E e \in Others : LoadElsewhere(e)
  \/ OpenSchema
  \/ OpenSchemaFails
  \/ DescriptorArrives
  \/ NoDescriptor
  \/ OpenRpc
  \/ OpenRpcFails
  \/ Replace

DiscoveryNext ==
  \/ Discover
  \/ Raises
  \/ Listing
  \/ Loading
  \/ \E p \in Procs : Step(p) /\ UNCHANGED discovery

DiscoverySpec == DiscoveryInit /\ [][DiscoveryNext]_allVars

(* The owner discovers again and again, and its discovery does not raise   *)
(* for ever.                                                               *)
DiscoveryFairness ==
  /\ WF_allVars(Discover)
  /\ WF_allVars(Listing)
  /\ SF_allVars(Listing /\ dpc' = "loading")
  /\ WF_allVars(Loading)

FairDiscovery == DiscoverySpec /\ DiscoveryFairness

-----------------------------------------------------------------------------
(* Properties *)

Stages == {"idle", "listing", "loading", "asking", "opening"}

EntryLists ==
  [Listable -> {None} \cup {Unloaded(p) : p \in Procs} \cup {Unloaded(e) : e \in Others}
                 \cup {Loaded(p, q) : p, q \in Procs} \cup {Loaded(e, e) : e \in Others}]

(* The shape of the state, and with it that an entry is loaded as a whole: *)
(* client, descriptor and the descriptor's methods come together or not at *)
(* all, wherever its load fails.  Between discoveries nothing but the      *)
(* registry in use keeps services open.                                    *)
DiscoveryTypeOK ==
  /\ TypeOK
  /\ dpc \in Stages
  /\ passes \in 0 .. MaxPasses
  /\ entries \in EntryLists
  /\ todo \in SUBSET {e \in Listable : entries[e] # None}
  /\ local \in [schema : Services, rpc : Services, descriptor : Services \cup Others]
  /\ registry \in EntryLists \cup {None}
  /\ dpc = "idle" => todo = {} /\ entries = NoEntries /\ local = Unbound

(* The entry made for Here, in the registry or in the discovery under way. *)
Made == {es \in {entries, registry} \ {None} : HasClient(es, Here)}

(* Descriptor and client fit: as long as the process that described itself *)
(* serves and its rpc name leads to it, the entry's client leads to it     *)
(* too.  Schema and rpc service are opened at different moments, processes *)
(* take the names from one another in between, and neither the order of    *)
(* the two opens nor an earlier registry may give the described process a  *)
(* client of another.                                                      *)
ClientFitsDescriptor ==
  \A es \in Made :
    LET p == es[Here].descriptor
    IN  /\ p \in Procs
        /\ pc[p] = "serving" /\ named["rpc"] = held[p]["rpc"] =>
             es[Here].service = port[p]["rpc"]

(* One entry's failure is its own: every other entry that was listed is    *)
(* loaded when the registry is put to use.                                 *)
FailureIsLocal ==
  registry # None => \A e \in Others : registry[e] # None => HasClient(registry, e)

(* A discovery ends, whatever the servers do and however little it sees:   *)
(* at its deadline it makes do with what there is.                         *)
DiscoveryEnds == (dpc # "idle") ~> (dpc = "idle")

(* A registry keeps the services that it opened alive, and its owner finds *)
(* them again when it lists.  Still they go: once every server has closed, *)
(* names and client are gone for good after some discoveries, and an       *)
(* upgraded server is not turned away by the attributes of the old.        *)
StaleServicesGo ==
  <>[](\A p \in Procs : pc[p] \in {"new", "ended"}) =>
    <>[](named = Nothing /\ client = [ep \in Endpoints |-> {}])

=============================================================================
