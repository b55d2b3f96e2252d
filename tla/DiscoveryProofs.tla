--------------------------- MODULE DiscoveryProofs --------------------------
(***************************************************************************)
(* Proofs about Discovery, for any processes, settings and controllers,    *)
(* any other endpoints, and any number of listings until the deadline.     *)
(***************************************************************************)
EXTENDS Discovery, StartupProofs

-----------------------------------------------------------------------------
(* The inductive invariant *)

(* A process that has yet to open, and perhaps to create, a service.       *)
Fresh(p, ep) ==
  \/ pc[p] \in {"new", "remove"}
  \/ pc[p] = "open" /\ (at[p] = "rpc" \/ ep = "schema")

(* No service is there before its creator creates it.                      *)
CreatedOnce ==
  \A ep \in Endpoints :
    /\ named[ep] # None => ~Fresh(named[ep], ep)
    /\ \A p \in Procs : held[p][ep] # None => ~Fresh(held[p][ep], ep)

(* A process that has served, or failed to.                                *)
Past(p) == pc[p] \notin Starting \cup {"new"}

(* The entries of Here are of its processes; an entry with a client is one *)
(* of a process that has served, and its client fits.                      *)
HereEntries ==
  {None} \cup {Unloaded(p) : p \in Procs} \cup {Loaded(p, q) : p, q \in Procs}

Fits(es) ==
  HasClient(es, Here) =>
    LET p == es[Here].descriptor
    IN  /\ p \in Procs
        /\ Past(p)
        /\ pc[p] = "serving" /\ named["rpc"] = held[p]["rpc"] =>
             es[Here].service = port[p]["rpc"]

EntriesFit(es) == es[Here] \in HereEntries /\ Fits(es)

(* What is listed of the others is loaded once it is no more to be done.   *)
OthersLoaded(es, left) ==
  \A e \in Others \ left : es[e] # None => HasClient(es, e)

DInv ==
  /\ IInv
  /\ DiscoveryTypeOK
  /\ CreatedOnce
  /\ EntriesFit(entries)
  /\ registry # None => EntriesFit(registry)
  /\ OthersLoaded(entries, todo)
  /\ registry # None => OthersLoaded(registry, {})
  /\ dpc = "listing" => todo = {} /\ entries = NoEntries /\ local = Unbound
  /\ dpc = "opening" => local.descriptor \in Procs /\ Past(local.descriptor)

-----------------------------------------------------------------------------
(* What a step may do to the services *)

(* Processes get on, nobody gets back to a service that it did not hold,   *)
(* and a name that moves moves to a service that is just being created.    *)
Moves ==
  /\ \A p \in Procs : Past(p) => Past(p)'
  /\ \A p \in Procs, ep \in Endpoints : Fresh(p, ep)' => Fresh(p, ep)
  /\ \A ep \in Endpoints :
       \/ named'[ep] \in {named[ep], None}
       \/ \E p \in Procs : named'[ep] = p /\ Fresh(p, ep) /\ ~Fresh(p, ep)'
  /\ \A p \in Procs, ep \in Endpoints : held'[p][ep] \in {None, held[p][ep], named'[ep]}
  /\ \A p \in Procs :
       Past(p) /\ pc'[p] = "serving" =>
         /\ pc[p] = "serving"
         /\ held'[p]["rpc"] = held[p]["rpc"]
         /\ port'[p]["rpc"] = port[p]["rpc"]

(* Then a service is still created once, and clients still fit: a name     *)
(* does not come back to a service that its process has served.            *)
LEMMA MovesKeep ==
  ASSUME IInv, TypeOK', CreatedOnce, Moves
  PROVE  CreatedOnce' /\ \A es : Fits(es) => Fits(es)'
<1>1. CreatedOnce'
  <2>1. ASSUME NEW ep \in Endpoints, named'[ep] # None
        PROVE  ~Fresh(named[ep], ep)'
    <3>1. named'[ep] \in Procs
      BY <2>1 DEF TypeOK, Services
    <3>2. CASE named'[ep] = named[ep]
      BY <2>1, <3>1, <3>2 DEF CreatedOnce, Moves, Fresh
    <3>3. CASE \E p \in Procs : named'[ep] = p /\ ~Fresh(p, ep)'
      BY <3>3 DEF Fresh
    <3> QED
      BY <2>1, <3>2, <3>3 DEF Moves
  <2>2. ASSUME NEW ep \in Endpoints, NEW p \in Procs, held'[p][ep] # None
        PROVE  ~Fresh(held[p][ep], ep)'
    <3>1. held'[p][ep] \in Procs
      BY <2>2 DEF TypeOK, Services
    <3>2. CASE held'[p][ep] = held[p][ep]
      BY <2>2, <3>1, <3>2 DEF CreatedOnce, Moves, Fresh
    <3>3. CASE held'[p][ep] = named'[ep]
      BY <2>1, <2>2, <3>3 DEF Fresh
    <3> QED
      BY <2>2, <3>2, <3>3 DEF Moves
  <2> QED
    BY <2>1, <2>2 DEF CreatedOnce
<1>2. ASSUME NEW es, Fits(es), HasClient(es, Here),
             pc'[es[Here].descriptor] = "serving",
             named'["rpc"] = held'[es[Here].descriptor]["rpc"]
      PROVE  es[Here].service = port'[es[Here].descriptor]["rpc"]
  <2> DEFINE p == es[Here].descriptor
  <2>1. /\ p \in Procs
        /\ pc[p] = "serving" /\ named["rpc"] = held[p]["rpc"] => es[Here].service = port[p]["rpc"]
        /\ pc[p] = "serving" /\ held'[p]["rpc"] = held[p]["rpc"] /\ port'[p]["rpc"] = port[p]["rpc"]
    BY <1>2 DEF Fits, Moves
  <2>2. held[p]["rpc"] # None
    BY <2>1, EndpointFacts DEF IInv, Place
  <2>3. ~Fresh(held[p]["rpc"], "rpc")
    BY <2>1, <2>2, EndpointFacts DEF CreatedOnce
  <2>4. named["rpc"] = held[p]["rpc"]
    BY <1>2, <2>1, <2>2, <2>3, EndpointFacts DEF Moves
  <2> QED
    BY <2>1, <2>4
<1>3. ASSUME NEW es, Fits(es), HasClient(es, Here)
      PROVE  es[Here].descriptor \in Procs /\ Past(es[Here].descriptor)'
  BY <1>3 DEF Fits, Moves
<1> QED
  BY <1>1, <1>2, <1>3 DEF Fits, Past

(* What a cleanup leaves of what some process had at hand.                 *)
LEMMA SweptMoves ==
  ASSUME NEW mine \in Holdings, NEW gone \in SUBSET Dead, held' = Swept(mine, gone)
  PROVE  /\ \A p \in Procs, ep \in Endpoints : held'[p][ep] \in {None, mine[p][ep]}
         /\ \A p \in Procs : pc[p] # "dead" => held'[p]["rpc"] = mine[p]["rpc"]
  BY SweptParts, EndpointFacts DEF Dead

LEMMA SweptPorts ==
  ASSUME TypeOK, NEW gone \in SUBSET Dead, port' = Swept(port, gone)
  PROVE  \A p \in Procs : pc[p] # "dead" => port'[p]["rpc"] = port[p]["rpc"]
  BY SweptParts, EndpointFacts DEF Dead, TypeOK, Holdings

(* A step of the process p that creates no service.                        *)
LEMMA OnlyProgress ==
  ASSUME TypeOK, NEW p \in Procs,
         \A q \in Procs \ {p} : pc'[q] = pc[q] /\ at'[q] = at[q],
         Past(p) => Past(p)' /\ pc'[p] # "serving",
         \A ep \in Endpoints : Fresh(p, ep)' => Fresh(p, ep),
         \A ep \in Endpoints : named'[ep] \in {named[ep], None},
         \A q \in Procs, ep \in Endpoints : held'[q][ep] \in {None, held[q][ep]},
         \A q \in Procs \ {p} :
           pc[q] = "serving" => held'[q]["rpc"] = held[q]["rpc"] /\ port'[q]["rpc"] = port[q]["rpc"]
  PROVE  Moves
  BY DEF Moves, Past, Fresh

(* What the processes do, whoever force-removes.                           *)
LEMMA StepMoves ==
  ASSUME IInv, NEW p \in Procs, Step(p)
  PROVE  Moves
<1> USE EndpointFacts
<1>1. TypeOK
  BY DEF IInv
<1>2. CASE CreateNode(p) \/ Finish(p)
  <2>1. PICK gone \in SUBSET Dead : held' = Swept(held, gone) /\ port' = Swept(port, gone)
    BY <1>2 DEF CreateNode, Finish
  <2>2. \A ep \in Endpoints : named'[ep] \in {named[ep], None}
    BY <1>2, SettledNames DEF CreateNode, Finish, IInv, TypeOK
  <2>3. /\ \A q \in Procs, ep \in Endpoints : held'[q][ep] \in {None, held[q][ep]}
        /\ \A q \in Procs : pc[q] # "dead" =>
             held'[q]["rpc"] = held[q]["rpc"] /\ port'[q]["rpc"] = port[q]["rpc"]
    BY <1>1, <2>1, SweptMoves, SweptPorts DEF TypeOK, Holdings
  <2>4. /\ \A q \in Procs \ {p} : pc'[q] = pc[q] /\ at'[q] = at[q]
        /\ Past(p) => Past(p)' /\ pc'[p] # "serving"
        /\ \A ep \in Endpoints : Fresh(p, ep)' => Fresh(p, ep)
    BY <1>1, <1>2 DEF CreateNode, Finish, TypeOK, Past, Fresh, Starting
  <2> QED
    BY <1>1, <2>2, <2>3, <2>4, OnlyProgress
<1>3. CASE Retry(p) \/ GiveUp(p)
  <2>1. PICK gone \in SUBSET Dead : held' = Swept(held, gone) /\ port' = Swept(port, gone)
    BY <1>3 DEF Retry, GiveUp, PortTaken
  <2>2. \A ep \in Endpoints : named'[ep] \in {named[ep], None}
    BY <1>3, SettledNames DEF Retry, GiveUp, PortTaken, IInv, TypeOK
  <2>3. /\ \A q \in Procs, ep \in Endpoints : held'[q][ep] \in {None, held[q][ep]}
        /\ \A q \in Procs : pc[q] # "dead" =>
             held'[q]["rpc"] = held[q]["rpc"] /\ port'[q]["rpc"] = port[q]["rpc"]
    BY <1>1, <2>1, SweptMoves, SweptPorts DEF TypeOK, Holdings
  <2>4. /\ \A q \in Procs \ {p} : pc'[q] = pc[q] /\ at'[q] = at[q]
        /\ Past(p) => Past(p)' /\ pc'[p] # "serving"
        /\ \A ep \in Endpoints : Fresh(p, ep)' => Fresh(p, ep)
    BY <1>1, <1>3 DEF Retry, GiveUp, PortTaken, BeginClose, TypeOK, Past, Fresh, Starting
  <2> QED
    BY <1>1, <2>2, <2>3, <2>4, OnlyProgress
<1>4. CASE ForceRemove(p)
  <2>1. \A ep \in Endpoints : named'[ep] \in {named[ep], None}
    BY <1>1, <1>4 DEF ForceRemove, TypeOK
  <2>2. /\ pc[p] = "remove" /\ pc'[p] \in {"remove", "open"}
        /\ \A q \in Procs \ {p} : pc'[q] = pc[q] /\ at'[q] = at[q]
    BY <1>1, <1>4, AdvanceParts DEF ForceRemove
  <2> QED
    BY <1>1, <1>4, <2>1, <2>2, OnlyProgress DEF ForceRemove, Past, Fresh, Starting
<1>5. CASE OpenOrCreate(p)
  <2>0. PICK ep \in Endpoints : ep = at[p]
    BY <1>1 DEF TypeOK
  <2> DEFINE service == IF named[ep] = None THEN p ELSE named[ep]
             opened == [held EXCEPT ![p][ep] = service]
             names == [named EXCEPT ![ep] = service]
  <2>1. PICK gone \in SUBSET Dead : held' = Swept(opened, gone) /\ port' = Swept(port, gone)
    BY <1>5, <2>0 DEF OpenOrCreate
  <2>2. /\ service \in Services
        /\ opened \in Holdings /\ names \in [Endpoints -> Services]
    BY <1>1 DEF TypeOK, Services, Holdings
  <2>3. /\ pc[p] = "open"
        /\ \/ at[p] = "rpc" /\ at'[p] = "schema" /\ pc'[p] = "open"
           \/ at[p] = "schema" /\ at'[p] = "rpc" /\ pc'[p] = "port"
        /\ \A q \in Procs \ {p} : pc'[q] = pc[q] /\ at'[q] = at[q]
    BY <1>1, <1>5, AdvanceParts DEF OpenOrCreate
  <2>4. /\ opened[p][ep] = service /\ names[ep] = service
        /\ \A e \in Endpoints \ {ep} : opened[p][e] = held[p][e] /\ names[e] = named[e]
        /\ \A q \in Procs \ {p} : opened[q] = held[q]
    BY <1>1, <2>2 DEF TypeOK
  <2>5. Settle(names)
    BY <1>5, <2>0 DEF OpenOrCreate
  <2>6. service = named[ep] \/ service = p
    OBVIOUS
  <2> HIDE DEF opened, names, service
  <2>7. Fresh(p, ep) /\ ~Fresh(p, ep)' /\ \A e \in Endpoints : Fresh(p, e)' => Fresh(p, e)
    BY <2>0, <2>3 DEF Fresh
  <2>8. \A e \in Endpoints :
          \/ named'[e] \in {named[e], None}
          \/ \E q \in Procs : named'[e] = q /\ Fresh(q, e) /\ ~Fresh(q, e)'
    BY <2>2, <2>4, <2>5, <2>6, <2>7, SettledNames
  <2>9. held'[p][ep] = service /\ named'[ep] = service
    <3>1. p \notin gone
      BY <2>3 DEF Dead
    <3>2. held'[p][ep] = service
      BY <2>1, <2>2, <2>4, <3>1, SweptParts
    <3> QED
      BY <2>2, <2>4, <2>5, <3>2, SettledNames
  <2>10. \A q \in Procs, e \in Endpoints : held'[q][e] \in {None, held[q][e], named'[e]}
    BY <2>1, <2>2, <2>4, <2>9, SweptMoves
  <2>11. \A q \in Procs \ {p} :
           pc[q] = "serving" => held'[q]["rpc"] = held[q]["rpc"] /\ port'[q]["rpc"] = port[q]["rpc"]
    BY <1>1, <2>1, <2>2, <2>4, SweptMoves, SweptPorts
  <2>12. ~Past(p) /\ \A q \in Procs \ {p} : Past(q) => Past(q)'
    BY <2>3 DEF Past, Starting
  <2>13. \A q \in Procs, e \in Endpoints : Fresh(q, e)' => Fresh(q, e)
    BY <2>3, <2>7 DEF Fresh
  <2> QED
    BY <2>3, <2>8, <2>10, <2>11, <2>12, <2>13 DEF Moves
<1>6. CASE CreatePort(p)
  <2>1. /\ pc[p] = "port" /\ pc'[p] \in {"port", "serving"}
        /\ \A q \in Procs \ {p} : pc'[q] = pc[q] /\ at'[q] = at[q]
    BY <1>1, <1>6, AdvanceParts DEF CreatePort
  <2>2. UNCHANGED <<named, held>> /\ \A q \in Procs \ {p} : port'[q] = port[q]
    BY <1>1, <1>6 DEF CreatePort, TypeOK
  <2> QED
    BY <1>1, <2>1, <2>2, OnlyProgress DEF Past, Fresh, Starting
<1>7. CASE ClosePort(p) \/ CloseService(p)
  <2>1. \A ep \in Endpoints : named'[ep] \in {named[ep], None}
    BY <1>7, SettledNames DEF ClosePort, CloseService, IInv, TypeOK
  <2>2. /\ pc'[p] \in {"close_ports", "close_services", "cleanup"}
        /\ \A q \in Procs \ {p} : pc'[q] = pc[q] /\ at'[q] = at[q]
    BY <1>1, <1>7, RetreatParts DEF ClosePort, CloseService
  <2>3. /\ \A q \in Procs, ep \in Endpoints : held'[q][ep] \in {None, held[q][ep]}
        /\ \A q \in Procs \ {p} : held'[q] = held[q] /\ port'[q] = port[q]
    <3>1. CASE ClosePort(p)
      BY <1>1, <3>1 DEF ClosePort, TypeOK
    <3>2. CASE CloseService(p)
      BY <1>1, <3>2 DEF CloseService, TypeOK
    <3> QED
      BY <1>7, <3>1, <3>2
  <2> QED
    BY <1>1, <2>1, <2>2, <2>3, OnlyProgress DEF Past, Fresh, Starting
<1>8. CASE DropService(p) \/ DropPort(p)
  <2>1. \A ep \in Endpoints : named'[ep] \in {named[ep], None}
    BY <1>8, SettledNames DEF DropService, DropPort, IInv, TypeOK
  <2>2. /\ pc'[p] \in {"drop_services", "drop_ports", "ended"}
        /\ \A q \in Procs \ {p} : pc'[q] = pc[q] /\ at'[q] = at[q]
    BY <1>1, <1>8, AdvanceParts DEF DropService, DropPort
  <2>3. /\ \A q \in Procs, ep \in Endpoints : held'[q][ep] \in {None, held[q][ep]}
        /\ \A q \in Procs \ {p} : held'[q] = held[q] /\ port'[q] = port[q]
    <3>1. CASE DropService(p)
      BY <1>1, <3>1 DEF DropService, TypeOK
    <3>2. CASE DropPort(p)
      BY <1>1, <3>2 DEF DropPort, TypeOK
    <3> QED
      BY <1>8, <3>1, <3>2
  <2> QED
    BY <1>1, <2>1, <2>2, <2>3, OnlyProgress DEF Past, Fresh, Starting
<1>9. CASE Incompatible(p) \/ Interrupted(p) \/ PortFails(p) \/ Stop(p) \/ Crash(p)
  <2>1. UNCHANGED <<named, held, port>>
    BY <1>9 DEF Incompatible, Interrupted, Abandon, PortFails, Stop, Crash
  <2>2. /\ pc'[p] \in {"drop_services", "close_ports", "dead"}
        /\ \A q \in Procs \ {p} : pc'[q] = pc[q] /\ at'[q] = at[q]
    BY <1>1, <1>9 DEF Incompatible, Interrupted, Abandon, PortFails, Stop, Crash, BeginClose, TypeOK
  <2> QED
    BY <1>1, <2>1, <2>2, OnlyProgress DEF Past, Fresh, Starting
<1> QED
  BY <1>2, <1>3, <1>4, <1>5, <1>6, <1>7, <1>8, <1>9 DEF Step, Progress

-----------------------------------------------------------------------------
(* What the discovery does to the services *)

LocalType == [schema : Services, rpc : Services, descriptor : Services \cup Others]

(* A registry keeps nothing open but services.                             *)
LEMMA HoldingType ==
  ASSUME local' \in LocalType, entries'[Here] \in HereEntries,
         registry' # None => registry'[Here] \in HereEntries
  PROVE  Holding' \in [Endpoints -> SUBSET Procs]
<1>1. \A entry \in HereEntries : entry # None => entry.service \in Services
  BY DEF HereEntries, Unloaded, Loaded, Services
<1>2. local'.schema \in Services /\ local'.rpc \in Services
  BY DEF LocalType
<1>3. HasClient(entries, Here)' => entries'[Here].service \in Services
  BY <1>1 DEF HasClient
<1>4. registry' # None /\ HasClient(registry, Here)' => registry'[Here].service \in Services
  BY <1>1 DEF HasClient
<1>5. OpenRpcServices' \subseteq Services
  BY <1>2, <1>3, <1>4 DEF OpenRpcServices
<1>6. OpenRpcServices' \ {None} \in SUBSET Procs /\ {local'.schema} \ {None} \in SUBSET Procs
  BY <1>2, <1>5 DEF Services
<1> QED
  BY <1>6 DEF Holding

(* What a step of the discovery leaves as it was for the processes.        *)
Carried ==
  /\ IInv'
  /\ CreatedOnce'
  /\ \A es : Fits(es) => Fits(es)'
  /\ \A p \in Procs : Past(p) => Past(p)'
  /\ \A ep \in Endpoints : named'[ep] \in {named[ep], None}

(* Whether it cleans up or not, keeps services open or lets them go.       *)
LEMMA KeepCarries ==
  ASSUME IInv, CreatedOnce, UNCHANGED Processes, Keep,
         Sweep \/ UNCHANGED <<held, port>>,
         local' \in LocalType, entries'[Here] \in HereEntries,
         registry' # None => registry'[Here] \in HereEntries
  PROVE  Carried
<1>1. TypeOK /\ held \in Holdings /\ port \in Holdings /\ UNCHANGED <<pc, at, attempts>>
  BY DEF IInv, TypeOK, Holdings, Processes
<1>2. PICK gone \in SUBSET Dead :
        \A p \in Procs, ep \in Endpoints :
          /\ held'[p][ep] = IF p \in gone THEN None ELSE held[p][ep]
          /\ port'[p][ep] = IF p \in gone THEN None ELSE port[p][ep]
  <2>1. CASE Sweep
    <3>1. PICK gone \in SUBSET Dead : held' = Swept(held, gone) /\ port' = Swept(port, gone)
      BY <2>1 DEF Sweep
    <3>2. \A p \in Procs, ep \in Endpoints :
            /\ held'[p][ep] = IF p \in gone THEN None ELSE held[p][ep]
            /\ port'[p][ep] = IF p \in gone THEN None ELSE port[p][ep]
      BY <1>1, <3>1, SweptParts
    <3> QED
      BY <3>2
  <2>2. CASE UNCHANGED <<held, port>>
    <3>1. \A p \in Procs, ep \in Endpoints :
            /\ held'[p][ep] = IF p \in {} THEN None ELSE held[p][ep]
            /\ port'[p][ep] = IF p \in {} THEN None ELSE port[p][ep]
      BY <2>2
    <3>2. {} \in SUBSET Dead
      OBVIOUS
    <3> QED
      BY <3>1, <3>2, Zenon
  <2> QED
    BY <2>1, <2>2
<1>3. held' \in Holdings /\ port' \in Holdings
  BY <1>1, SweptParts DEF Sweep
<1>4. named' \in [Endpoints -> Services] /\ \A ep \in Endpoints : named'[ep] \in {named[ep], None}
  BY <1>1, SettledNames DEF Keep, TypeOK
<1>5. client' \in [Endpoints -> SUBSET Procs]
  BY HoldingType DEF Keep
<1>6. TypeOK'
  BY <1>1, <1>3, <1>4, <1>5 DEF TypeOK, Holdings
<1>7. \A p \in Procs : Place(p)'
  <2> SUFFICES ASSUME NEW p \in Procs
               PROVE  Place(p)'
    OBVIOUS
  <2>1. Place(p) /\ pc'[p] = pc[p] /\ at'[p] = at[p]
    BY <1>1 DEF IInv
  <2>2. CASE p \in gone
    <3>1. pc'[p] = "dead" /\ \A ep \in Endpoints : held'[p][ep] = None /\ port'[p][ep] = None
      BY <1>2, <2>1, <2>2 DEF Dead
    <3> QED
      BY <2>1, <3>1, EndpointFacts DEF Place
  <2>3. CASE p \notin gone
    <3>1. \A ep \in Endpoints : held'[p][ep] = held[p][ep] /\ port'[p][ep] = port[p][ep]
      BY <1>2, <2>3
    <3> QED
      BY <2>1, <3>1, EndpointFacts DEF Place, Without
  <2> QED
    BY <2>2, <2>3
<1>8. OnePort'
  BY <1>2 DEF IInv, OnePort
<1>9. Moves
  <2>1. \A p \in Procs : pc[p] = "serving" =>
          held'[p]["rpc"] = held[p]["rpc"] /\ port'[p]["rpc"] = port[p]["rpc"]
    BY <1>2, EndpointFacts DEF Dead
  <2> QED
    BY <1>1, <1>2, <1>4, <2>1 DEF Moves, Past, Fresh
<1>10. \A p \in Procs : Past(p) => Past(p)'
  BY <1>9 DEF Moves
<1> QED
  BY <1>4, <1>6, <1>7, <1>8, <1>9, <1>10, MovesKeep DEF Carried, IInv

LEMMA IdleCarries ==
  ASSUME IInv, CreatedOnce, UNCHANGED vars
  PROVE  Carried
<1>1. UNCHANGED <<pc, at, attempts, named, held, port, client>>
  BY DEF vars
<1>2. IInv'
  BY <1>1 DEF IInv, TypeOK, Place, Without, OnePort
<1>3. CreatedOnce' /\ (\A es : Fits(es) => Fits(es)') /\ \A p \in Procs : Past(p) => Past(p)'
  BY <1>1 DEF CreatedOnce, Fresh, Fits, Past
<1> QED
  BY <1>1, <1>2, <1>3 DEF Carried

-----------------------------------------------------------------------------
(* The inductive step *)

LEMMA EntryFacts ==
  /\ Here \notin Others
  /\ \A e \in Others : e # None
  /\ \A who \in Procs \cup Others : Unloaded(who) # None /\ Unloaded(who).service = None
  /\ \A who, service \in Procs \cup Others :
       /\ Loaded(who, service) # None
       /\ Loaded(who, service).descriptor = who
       /\ Loaded(who, service).service = service
<1>1. Here \notin Others /\ \A e \in Others : e # None
  BY DiscoveryAssumption DEF Listable
<1>2. \A who \in Procs \cup Others : Unloaded(who) # None
  BY NoneAssumption
<1>3. \A who, service \in Procs \cup Others : Loaded(who, service) # None
  BY NoneAssumption
<1>4. \A who : Unloaded(who).service = None
  BY DEF Unloaded
<1>5. \A who, service : Loaded(who, service).descriptor = who /\ Loaded(who, service).service = service
  BY DEF Loaded
<1> QED
  BY <1>1, <1>2, <1>3, <1>4, <1>5

(* Steps that make no entry and load none.                                 *)
LEMMA SameEntries ==
  ASSUME DInv, Carried, UNCHANGED <<entries, registry>>,
         dpc' \in Stages, passes' \in 0 .. MaxPasses,
         todo' \subseteq todo, todo \cap Others \subseteq todo',
         local' \in LocalType,
         dpc' \in {"idle", "listing"} => todo' = {} /\ entries' = NoEntries /\ local' = Unbound,
         dpc' = "opening" => local'.descriptor \in Procs /\ Past(local'.descriptor)
  PROVE  DInv'
<1>1. DiscoveryTypeOK'
  BY DEF DInv, Carried, IInv, DiscoveryTypeOK, LocalType
<1>2. EntriesFit(entries)' /\ (registry # None => EntriesFit(registry))'
  BY DEF DInv, Carried, EntriesFit, Fits, HasClient, Past
<1>3. OthersLoaded(entries, todo)' /\ (registry # None => OthersLoaded(registry, {}))'
  BY DEF DInv, OthersLoaded, HasClient
<1>4. (dpc = "opening" => local.descriptor \in Procs /\ Past(local.descriptor))'
  BY DEF Carried
<1> QED
  BY <1>1, <1>2, <1>3, <1>4 DEF DInv, Carried

(* The processes' steps, while the discovery is where it is.               *)
LEMMA ProcessStep ==
  ASSUME DInv, NEW p \in Procs, Step(p), UNCHANGED discovery
  PROVE  DInv'
<1>1. UNCHANGED <<dpc, passes, entries, todo, local, registry>>
  BY DEF discovery
<1>2. IInv /\ TypeOK /\ CreatedOnce /\ DiscoveryTypeOK
  BY DEF DInv, IInv
<1>3. TypeOK'
  BY <1>2, TypeStep DEF Next
<1>4. IInv' /\ Moves
  BY <1>2, <1>3, StepInv, StepMoves
<1>5. CreatedOnce' /\ (\A es : Fits(es) => Fits(es)') /\ \A q \in Procs : Past(q) => Past(q)'
  BY <1>2, <1>3, <1>4, MovesKeep DEF Moves
<1>6. DiscoveryTypeOK'
  BY <1>1, <1>2, <1>3 DEF DiscoveryTypeOK
<1>7. EntriesFit(entries)' /\ (registry # None => EntriesFit(registry))'
  BY <1>1, <1>5 DEF DInv, EntriesFit, Fits, HasClient, Past
<1>8. OthersLoaded(entries, todo)' /\ (registry # None => OthersLoaded(registry, {}))'
  BY <1>1 DEF DInv, OthersLoaded, HasClient
<1>9. (dpc = "opening" => local.descriptor \in Procs /\ Past(local.descriptor))'
  BY <1>1, <1>5 DEF DInv
<1>10. (dpc = "listing" => todo = {} /\ entries = NoEntries /\ local = Unbound)'
  BY <1>1 DEF DInv
<1> QED
  BY <1>4, <1>5, <1>6, <1>7, <1>8, <1>9, <1>10 DEF DInv

(* What the steps below know of the state they begin in.                   *)
LEMMA DInvParts ==
  ASSUME DInv
  PROVE  /\ IInv /\ CreatedOnce
         /\ dpc \in Stages /\ passes \in 0 .. MaxPasses /\ local \in LocalType
         /\ entries \in EntryLists /\ entries[Here] \in HereEntries
         /\ registry \in EntryLists \cup {None}
         /\ registry # None => registry[Here] \in HereEntries
         /\ Here \notin Others
         /\ dpc \in {"idle", "listing"} => todo = {} /\ entries = NoEntries /\ local = Unbound
         /\ dpc = "opening" => local.descriptor \in Procs /\ Past(local.descriptor)
  BY EntryFacts DEF DInv, DiscoveryTypeOK, LocalType, EntriesFit

(* Steps that only count, ask, or fail.                                    *)
LEMMA QuietStep ==
  ASSUME DInv,
         \/ Deadline \/ Raises \/ List({})
         \/ OpenSchemaFails \/ DescriptorArrives \/ NoDescriptor
  PROVE  DInv'
<1> USE DInvParts
<1>1. Carried /\ UNCHANGED <<entries, registry>>
  <2>1. UNCHANGED vars /\ UNCHANGED <<entries, registry>>
    BY DEF Deadline, Raises, OpenSchemaFails, DescriptorArrives, NoDescriptor, List
  <2> QED
    BY <2>1, IdleCarries
<1>2. CASE Deadline \/ OpenSchemaFails \/ NoDescriptor
  BY <1>1, <1>2, SameEntries DEF Deadline, OpenSchemaFails, NoDescriptor, Stages
<1>3. CASE Raises
  BY <1>1, <1>3, SameEntries DEF Raises, Stages
<1>4. CASE List({})
  <2>1. passes' \in 0 .. MaxPasses
    BY <1>4, DiscoveryAssumption DEF List
  <2>2. dpc = "listing" /\ UNCHANGED <<dpc, todo, local>>
    BY <1>4 DEF List
  <2> QED
    BY <1>1, <2>1, <2>2, SameEntries
<1>5. CASE DescriptorArrives
  <2>1. PICK q \in Procs : pc[q] = "serving" /\ local' = [local EXCEPT !.descriptor = q]
    BY <1>5 DEF DescriptorArrives
  <2>2. local' \in LocalType /\ local'.descriptor = q
    BY <2>1 DEF LocalType, Services
  <2>3. Past(q)
    BY <2>1 DEF Past, Starting
  <2>4. dpc' = "opening" /\ UNCHANGED <<passes, todo>>
    BY <1>5 DEF DescriptorArrives
  <2> QED
    BY <1>1, <2>2, <2>3, <2>4, SameEntries DEF Stages
<1> QED
  BY <1>2, <1>3, <1>4, <1>5

(* Steps that open, clean up or let go, and load nothing.                  *)
LEMMA OpeningStep ==
  ASSUME DInv, Discover \/ OpenSchema \/ OpenRpcFails
  PROVE  DInv'
<1> USE DInvParts
<1>1. named \in [Endpoints -> Services]
  BY DEF IInv, TypeOK
<1>2. local' \in LocalType
  <2>1. local'\in {local, [local EXCEPT !.schema = named["schema"]], [local EXCEPT !.rpc = named["rpc"]]}
    BY DEF Discover, OpenSchema, OpenRpcFails
  <2> QED
    BY <1>1, <2>1, EndpointFacts DEF LocalType
<1>3. Carried /\ UNCHANGED <<entries, registry>>
  <2>1. /\ UNCHANGED <<entries, registry, Processes>>
        /\ Keep /\ (Sweep \/ UNCHANGED <<held, port>>)
    BY DEF Discover, OpenSchema, OpenRpcFails
  <2> QED
    BY <1>2, <2>1, KeepCarries
<1>4. CASE Discover
  BY <1>2, <1>3, <1>4, SameEntries, DiscoveryAssumption DEF Discover, Stages
<1>5. CASE OpenSchema \/ OpenRpcFails
  BY <1>2, <1>3, <1>5, SameEntries DEF OpenSchema, OpenRpcFails, Stages
<1> QED
  BY <1>4, <1>5

(* Where entries change: their shape, and their fit, are all that is left  *)
(* to show.                                                                *)
LEMMA NewEntries ==
  ASSUME DInv, Carried,
         dpc' \in Stages \ {"listing", "opening"}, passes' \in 0 .. MaxPasses,
         todo' \subseteq {e \in Listable : entries'[e] # None},
         local' \in LocalType, entries' \in EntryLists, registry' \in EntryLists \cup {None},
         dpc' = "idle" => todo' = {} /\ entries' = NoEntries /\ local' = Unbound,
         EntriesFit(entries)', (registry # None => EntriesFit(registry))',
         OthersLoaded(entries, todo)', (registry # None => OthersLoaded(registry, {}))'
  PROVE  DInv'
<1>1. DiscoveryTypeOK'
  BY DEF Carried, IInv, DiscoveryTypeOK, LocalType
<1> QED
  BY <1>1 DEF DInv, Carried

(* The registry in use is not touched.                                     *)
LEMMA RegistryCarries ==
  ASSUME DInv, Carried, UNCHANGED registry
  PROVE  /\ (registry # None => EntriesFit(registry))'
         /\ (registry # None => OthersLoaded(registry, {}))'
  BY DEF DInv, Carried, EntriesFit, Fits, HasClient, Past, OthersLoaded

LEMMA ListStep ==
  ASSUME DInv, NEW seen \in SUBSET Listed, seen # {}, List(seen)
  PROVE  DInv'
<1> USE DInvParts
<1>1. Carried /\ UNCHANGED registry
  <2>1. UNCHANGED vars /\ UNCHANGED registry
    BY DEF List
  <2> QED
    BY <2>1, IdleCarries
<1>2. /\ entries' = [e \in Listable |-> IF e \in seen THEN Entry(e) ELSE None]
      /\ todo' = seen /\ dpc' = "loading" /\ UNCHANGED <<passes, local>>
  BY DEF List
<1>3. seen \subseteq Listable /\ (Here \in seen => named["rpc"] \in Procs)
  BY EndpointFacts DEF Listed, Listable, IInv, TypeOK, Services
<1>4. /\ \A e \in seen : Entry(e) # None /\ Entry(e).service = None
      /\ \A e \in seen \ {Here} : e \in Others /\ Entry(e) = Unloaded(e)
      /\ Here \in seen => \E p \in Procs : Entry(Here) = Unloaded(p)
  BY <1>3, EntryFacts DEF Entry, Listable
<1>5. entries' \in EntryLists
  BY <1>2, <1>4 DEF EntryLists
<1>6. EntriesFit(entries)'
  <2>1. entries'[Here] = None \/ (Here \in seen /\ entries'[Here] = Entry(Here))
    BY <1>2 DEF Listable
  <2>2. ~HasClient(entries, Here)'
    BY <1>4, <2>1 DEF HasClient
  <2>3. entries'[Here] \in HereEntries
    BY <1>4, <2>1 DEF HereEntries
  <2> QED
    BY <2>2, <2>3 DEF EntriesFit, Fits
<1>7. OthersLoaded(entries, todo)'
  BY <1>2 DEF OthersLoaded, Listable
<1>8. todo' \subseteq {e \in Listable : entries'[e] # None}
  BY <1>2, <1>3, <1>4
<1> QED
  BY <1>1, <1>2, <1>5, <1>6, <1>7, <1>8, NewEntries, RegistryCarries DEF Stages

LEMMA LoadElsewhereStep ==
  ASSUME DInv, NEW e \in Others, LoadElsewhere(e)
  PROVE  DInv'
<1> USE DInvParts
<1>1. /\ entries' = [entries EXCEPT ![e] = Loaded(e, e)]
      /\ todo' = todo \ {e} /\ local' = [Unbound EXCEPT !.descriptor = e]
      /\ dpc = "loading" /\ UNCHANGED <<dpc, passes, registry>>
  BY DEF LoadElsewhere
<1>2. e \in Listable /\ e # Here /\ e # None
  BY EntryFacts DEF Listable
<1>3. /\ entries'[e] = Loaded(e, e)
      /\ \A other \in Listable \ {e} : entries'[other] = entries[other]
  BY <1>1, <1>2 DEF EntryLists
<1>4. entries' \in EntryLists
  <2> DEFINE Shapes == {None} \cup {Unloaded(p) : p \in Procs} \cup {Unloaded(x) : x \in Others}
                        \cup {Loaded(p, q) : p, q \in Procs} \cup {Loaded(x, x) : x \in Others}
  <2>1. Loaded(e, e) \in Shapes /\ entries \in [Listable -> Shapes]
    BY DEF EntryLists
  <2> HIDE DEF Shapes
  <2>2. entries' \in [Listable -> Shapes]
    BY <1>1, <2>1
  <2> QED
    BY <2>2 DEF Shapes, EntryLists
<1>5. local' \in LocalType
  BY <1>1, EndpointFacts DEF LocalType, Unbound
<1>6. entries'[Here] = entries[Here]
  BY <1>2, <1>3 DEF Listable
<1>7. Carried
  <2>1. UNCHANGED <<held, port>> /\ UNCHANGED Processes /\ Keep
    BY DEF LoadElsewhere
  <2> QED
    BY <1>1, <1>5, <1>6, <2>1, KeepCarries
<1>8. EntriesFit(entries)'
  BY <1>6, <1>7 DEF DInv, Carried, EntriesFit, Fits, HasClient, Past
<1>9. OthersLoaded(entries, todo)'
  <2>1. HasClient(entries, e)'
    BY <1>2, <1>3, EntryFacts DEF HasClient
  <2>2. \A other \in Others \ {e} : other \in Listable /\ entries'[other] = entries[other]
    BY <1>3 DEF Listable
  <2> QED
    BY <1>1, <2>1, <2>2 DEF DInv, OthersLoaded, HasClient
<1>10. todo' \subseteq {x \in Listable : entries'[x] # None}
  <2>1. todo \subseteq {x \in Listable : entries[x] # None}
    BY DEF DInv, DiscoveryTypeOK
  <2> QED
    BY <1>1, <1>3, <2>1
<1> QED
  BY <1>1, <1>4, <1>5, <1>7, <1>8, <1>9, <1>10, NewEntries, RegistryCarries DEF Stages

(* The client leads where the name leads now: to the described process, if *)
(* that serves under it.                                                   *)
LEMMA OpenRpcStep ==
  ASSUME DInv, OpenRpc
  PROVE  DInv'
<1> USE DInvParts
<1> DEFINE p == local.descriptor
<1>0. PICK service \in Procs : service = named["rpc"]
  BY EndpointFacts DEF OpenRpc, IInv, TypeOK, Services
<1>1. /\ entries' = [entries EXCEPT ![Here] = Loaded(p, service)]
      /\ local' = [local EXCEPT !.rpc = service]
      /\ dpc = "opening" /\ dpc' = "loading" /\ UNCHANGED <<passes, todo, registry>>
  BY <1>0 DEF OpenRpc
<1>2. p \in Procs /\ Past(p) /\ Here \in Listable
  BY <1>1 DEF Listable
<1>3. /\ entries'[Here] = Loaded(p, service)
      /\ \A other \in Listable \ {Here} : entries'[other] = entries[other]
  BY <1>1, <1>2 DEF EntryLists
<1>4. entries' \in EntryLists
  BY <1>1, <1>2 DEF EntryLists
<1>5. local' \in LocalType
  BY <1>1 DEF LocalType, Services
<1>6. entries'[Here] \in HereEntries
  BY <1>2, <1>3 DEF HereEntries
<1>7. Carried
  <2>1. Sweep /\ UNCHANGED Processes /\ Keep
    BY DEF OpenRpc
  <2> QED
    BY <1>1, <1>5, <1>6, <2>1, KeepCarries
<1>8. Fits(entries)'
  <2>1. /\ entries'[Here].descriptor = p /\ entries'[Here].service = service
    BY <1>2, <1>3, EntryFacts
  <2>2. ASSUME pc'[p] = "serving", named'["rpc"] = held'[p]["rpc"]
        PROVE  service = port'[p]["rpc"]
    <3>1. port'[p]["rpc"] # None /\ held'[p]["rpc"] = port'[p]["rpc"]
      BY <1>2, <1>7, <2>2, EndpointFacts DEF Carried, IInv, Place
    <3>2. named'["rpc"] \in {named["rpc"], None}
      BY <1>7, EndpointFacts DEF Carried
    <3> QED
      BY <1>0, <2>2, <3>1, <3>2
  <2>3. pc'[p] \notin Starting \cup {"new"}
    BY <1>2, <1>7 DEF Carried, Past
  <2> QED
    BY <1>2, <2>1, <2>2, <2>3 DEF Fits, Past
<1>9. OthersLoaded(entries, todo)'
  <2>1. \A other \in Others : other \in Listable /\ entries'[other] = entries[other]
    BY <1>3 DEF Listable
  <2> QED
    BY <1>1, <2>1 DEF DInv, OthersLoaded, HasClient
<1>10. todo' \subseteq {x \in Listable : entries'[x] # None}
  <2>1. todo \subseteq {x \in Listable : entries[x] # None}
    BY DEF DInv, DiscoveryTypeOK
  <2>2. entries'[Here] # None
    BY <1>2, <1>3, EntryFacts
  <2> QED
    BY <1>1, <1>3, <2>1, <2>2
<1>11. EntriesFit(entries)'
  BY <1>6, <1>8 DEF EntriesFit
<1> QED
  BY <1>1, <1>4, <1>5, <1>7, <1>9, <1>10, <1>11, NewEntries, RegistryCarries DEF Stages

LEMMA ReplaceStep ==
  ASSUME DInv, Replace
  PROVE  DInv'
<1> USE DInvParts
<1>1. /\ registry' = entries /\ entries' = NoEntries /\ local' = Unbound
      /\ todo = {} /\ todo' = {} /\ dpc' = "idle" /\ UNCHANGED passes
  BY DEF Replace
<1>2. entries' \in EntryLists /\ local' \in LocalType
  BY <1>1, EndpointFacts DEF EntryLists, NoEntries, LocalType, Unbound
<1>3. entries'[Here] = None
  BY <1>1 DEF NoEntries, Listable
<1>4. Carried
  <2>1. UNCHANGED <<held, port>> /\ UNCHANGED Processes /\ Keep
    BY DEF Replace
  <2>2. entries'[Here] \in HereEntries
    BY <1>3 DEF HereEntries
  <2> QED
    BY <1>1, <1>2, <2>1, <2>2, KeepCarries
<1>5. EntriesFit(entries)' /\ OthersLoaded(entries, todo)'
  BY <1>1, <1>3 DEF EntriesFit, Fits, HasClient, HereEntries, OthersLoaded, NoEntries, Listable
<1>6. EntriesFit(registry)'
  BY <1>1, <1>4 DEF DInv, Carried, EntriesFit, Fits, HasClient, Past
<1>7. OthersLoaded(registry, {})'
  BY <1>1 DEF DInv, OthersLoaded, HasClient
<1> QED
  BY <1>1, <1>2, <1>4, <1>5, <1>6, <1>7, NewEntries DEF Stages

LEMMA DiscoveryInitInv == DiscoveryInit => DInv
<1> SUFFICES ASSUME DiscoveryInit PROVE DInv
  OBVIOUS
<1>1. IInv
  BY InitInv DEF DiscoveryInit
<1>2. CreatedOnce
  BY DEF DiscoveryInit, Init, CreatedOnce, Nothing
<1>3. NoEntries \in EntryLists /\ Unbound \in LocalType
  BY EndpointFacts DEF EntryLists, NoEntries, LocalType, Unbound
<1>4. DiscoveryTypeOK
  BY <1>1, <1>3, DiscoveryAssumption DEF DiscoveryInit, IInv, DiscoveryTypeOK, Stages, LocalType
<1>5. EntriesFit(entries) /\ OthersLoaded(entries, todo)
  BY DEF DiscoveryInit, EntriesFit, Fits, HasClient, HereEntries, OthersLoaded, NoEntries, Listable
<1> QED
  BY <1>1, <1>2, <1>4, <1>5 DEF DiscoveryInit, DInv

LEMMA DiscoveryStepInv == DInv /\ [DiscoveryNext]_allVars => DInv'
<1> SUFFICES ASSUME DInv, [DiscoveryNext]_allVars PROVE DInv'
  OBVIOUS
<1>1. CASE UNCHANGED allVars
  <2>1. UNCHANGED vars /\ UNCHANGED discovery
    BY <1>1 DEF allVars
  <2>2. Carried /\ UNCHANGED <<dpc, passes, entries, todo, local, registry>>
    BY <2>1, DInvParts, IdleCarries DEF discovery
  <2> QED
    BY <2>2, DInvParts, SameEntries
<1>2. ASSUME NEW seen \in SUBSET Listed, List(seen)
      PROVE  DInv'
  BY <1>2, QuietStep, ListStep
<1> QED
  BY <1>1, <1>2, ProcessStep, QuietStep, OpeningStep, LoadElsewhereStep, OpenRpcStep, ReplaceStep
     DEF DiscoveryNext, Listing, Loading

(* The discovery's invariant, with that of the processes it runs beside.   *)
THEOREM DiscoveryInvariance == DiscoverySpec => []DInv
  BY DiscoveryInitInv, DiscoveryStepInv, PTL DEF DiscoverySpec

(* The shape of registries: client, descriptor and the descriptor's        *)
(* methods come together or not at all, wherever a load fails, and a       *)
(* discovery that is over leaves nothing behind but the registry.          *)
THEOREM DiscoveryTypeCorrect == DiscoverySpec => []DiscoveryTypeOK
<1>1. DInv => DiscoveryTypeOK
  BY DEF DInv
<1> QED
  BY <1>1, DiscoveryInvariance, PTL

(* A described process that serves under its rpc name has the calls that   *)
(* its descriptor announces, whatever happened between the opening of the  *)
(* schema service and that of the rpc service, and whoever force-removes.  *)
THEOREM ClientAlwaysFits == DiscoverySpec => []ClientFitsDescriptor
<1>1. DInv => ClientFitsDescriptor
  BY DEF DInv, EntriesFit, Fits, ClientFitsDescriptor, Made
<1> QED
  BY <1>1, DiscoveryInvariance, PTL

(* A load that fails costs no other entry its client.                      *)
THEOREM FailureStaysLocal == DiscoverySpec => []FailureIsLocal
<1>1. DInv => FailureIsLocal
  BY DEF DInv, OthersLoaded, FailureIsLocal
<1> QED
  BY <1>1, DiscoveryInvariance, PTL

=============================================================================
