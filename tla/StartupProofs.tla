---------------------------- MODULE StartupProofs ---------------------------
(***************************************************************************)
(* Proofs about Startup, for any number of processes, any settings and     *)
(* controllers, and any number of attempts.                                *)
(***************************************************************************)
EXTENDS Startup, FiniteSetTheorems, TLAPS

-----------------------------------------------------------------------------
(* The inductive invariant *)

Without(holdings, p) == \A ep \in Endpoints : holdings[p][ep] = None

(* What a process has at each place of the constructor, of close and of    *)
(* the interpreter's dropping.  Unless it is dropping or dead, a port is   *)
(* one of the service that its process has open; unless it is dropping its *)
(* ports or dead, whoever has the schema port has the rpc port.            *)
Place(p) ==
  /\ pc[p] \notin {"drop_services", "drop_ports", "dead"} =>
       \A ep \in Endpoints : port[p][ep] # None => held[p][ep] = port[p][ep]
  /\ pc[p] \notin {"drop_ports", "dead"} =>
       (port[p]["schema"] # None => port[p]["rpc"] # None)
  /\ pc[p] = "new" => at[p] = "rpc"
  /\ pc[p] \in {"new", "remove", "cleanup", "ended"} => Without(held, p)
  /\ pc[p] \in {"open", "close_services"} => Without(port, p)
  /\ pc[p] = "open" /\ at[p] = "rpc" => Without(held, p)
  /\ pc[p] = "open" /\ at[p] = "schema" => held[p]["rpc"] # None
  /\ pc[p] \in {"port", "serving"} => \A ep \in Endpoints : held[p][ep] # None
  /\ pc[p] = "port" => port[p]["schema"] = None
  /\ pc[p] = "port" /\ at[p] = "rpc" => port[p]["rpc"] = None
  /\ pc[p] = "port" /\ at[p] = "schema" => port[p]["rpc"] # None
  /\ pc[p] = "serving" => \A ep \in Endpoints : port[p][ep] # None
  /\ pc[p] = "close_ports" /\ at[p] = "rpc" => port[p]["schema"] = None
  /\ pc[p] = "close_services" /\ at[p] = "rpc" => held[p]["schema"] = None
  /\ pc[p] = "drop_services" /\ at[p] = "schema" => held[p]["rpc"] = None
  /\ pc[p] = "drop_ports" => Without(held, p)
  /\ pc[p] = "drop_ports" /\ at[p] = "schema" => port[p]["rpc"] = None

(* max_servers(1), dead processes included.                                *)
OnePort ==
  \A ep \in Endpoints : \A p, q \in Procs :
    port[p][ep] # None /\ port[p][ep] = port[q][ep] => p = q

IInv ==
  /\ TypeOK
  /\ \A p \in Procs : Place(p)
  /\ OnePort

(* Where nobody force-removes, a name leads to the one service that anyone *)
(* has open under it, or has a port of.                                    *)
NamesLead ==
  \A p \in Procs, ep \in Endpoints :
    /\ held[p][ep] # None => named[ep] = held[p][ep]
    /\ port[p][ep] # None => named[ep] = port[p][ep]

NobodyForces == \A p \in Procs : ~Forces(p)

-----------------------------------------------------------------------------
(* The helpers of Startup *)

Holdings == [Procs -> [Endpoints -> Services]]

LEMMA EndpointFacts ==
  /\ "rpc" \in Endpoints /\ "schema" \in Endpoints
  /\ ClosedFirst = "schema"
  /\ (CHOOSE ep \in Endpoints : ep # "schema") = "rpc"
  /\ None \in Services
  /\ Nothing \in [Endpoints -> Services]
  BY DEF Endpoints, ClosedFirst, Services, Nothing

LEMMA PlaceFacts ==
  Places = {"new", "remove", "open", "port", "serving", "close_ports", "close_services",
            "cleanup", "drop_services", "drop_ports", "ended", "dead"}
  BY DEF Places, Starting, Closing, Dropping

LEMMA AttemptFacts ==
  /\ 0 \in 0 .. MaxAttempts - 1
  /\ \A n \in 0 .. MaxAttempts - 1 : n + 1 < MaxAttempts => n + 1 \in 0 .. MaxAttempts - 1
  BY StartupAssumption

(* A cleanup takes everything from those it removes, and nothing else.     *)
LEMMA SweptParts ==
  ASSUME NEW holdings \in Holdings, NEW gone
  PROVE  /\ Swept(holdings, gone) \in Holdings
         /\ \A p \in Procs, ep \in Endpoints :
              Swept(holdings, gone)[p][ep] = IF p \in gone THEN None ELSE holdings[p][ep]
  BY EndpointFacts DEF Swept, Nothing, Holdings

(* A name is kept while somebody holds its service, and is never moved.    *)
LEMMA SettledNames ==
  ASSUME NEW names \in [Endpoints -> Services], Settle(names)
  PROVE  /\ named' \in [Endpoints -> Services]
         /\ \A ep \in Endpoints : named'[ep] \in {names[ep], None}
         /\ \A ep \in Endpoints, p \in Procs :
              names[ep] \in {held'[p][ep], port'[p][ep]} => named'[ep] = names[ep]
  BY EndpointFacts DEF Settle, Lasting

-----------------------------------------------------------------------------
(* Type correctness *)

LEMMA InitType == Init => TypeOK
  BY StartupAssumption, EndpointFacts, PlaceFacts DEF Init, TypeOK, Nothing

(* The program counters, wherever the constructor or close takes them.     *)
LEMMA AdvanceType ==
  ASSUME TypeOK, NEW p \in Procs, NEW next \in Places, Advance(p, next)
  PROVE  /\ pc' \in [Procs -> Places]
         /\ at' \in [Procs -> Endpoints]
  BY EndpointFacts DEF Advance, TypeOK

LEMMA CloseType ==
  ASSUME TypeOK, NEW p \in Procs, BeginClose(p)
  PROVE  /\ pc' \in [Procs -> Places]
         /\ at' \in [Procs -> Endpoints]
  BY EndpointFacts, PlaceFacts DEF BeginClose, TypeOK

LEMMA RetreatType ==
  ASSUME TypeOK, NEW p \in Procs, NEW next \in Places, Retreat(p, next)
  PROVE  /\ pc' \in [Procs -> Places]
         /\ at' \in [Procs -> Endpoints]
  BY EndpointFacts DEF Retreat, TypeOK

LEMMA SweepType ==
  ASSUME TypeOK, NEW gone, held' = Swept(held, gone), port' = Swept(port, gone), Settle(named)
  PROVE  held' \in Holdings /\ port' \in Holdings /\ named' \in [Endpoints -> Services]
  BY SweptParts, SettledNames DEF TypeOK, Holdings

LEMMA TypeStep ==
  ASSUME TypeOK, [Next]_vars
  PROVE  TypeOK'
<1> USE StartupAssumption, EndpointFacts, PlaceFacts
<1>1. ASSUME NEW p \in Procs, CreateNode(p)
      PROVE  TypeOK'
  BY <1>1, SweepType DEF CreateNode, TypeOK, Holdings
<1>2. ASSUME NEW p \in Procs, ForceRemove(p)
      PROVE  TypeOK'
  <2>1. named' \in [Endpoints -> Services]
    <3>1. at[p] \in Endpoints /\ named \in [Endpoints -> Services]
      BY DEF TypeOK
    <3>2. named' = [named EXCEPT ![at[p]] = None] \/ named' = named
      BY <1>2 DEF ForceRemove
    <3> QED
      BY <3>1, <3>2
  <2> QED
    BY <1>2, <2>1, AdvanceType DEF ForceRemove, TypeOK
<1>3. ASSUME NEW p \in Procs, OpenOrCreate(p)
      PROVE  TypeOK'
  <2> DEFINE ep == at[p]
             service == IF named[ep] = None THEN p ELSE named[ep]
             opened == [held EXCEPT ![p][ep] = service]
             names == [named EXCEPT ![ep] = service]
  <2>1. service \in Services /\ opened \in Holdings /\ names \in [Endpoints -> Services]
    BY DEF TypeOK, Services, Holdings
  <2>2. PICK gone \in SUBSET Dead : held' = Swept(opened, gone) /\ port' = Swept(port, gone)
    BY <1>3 DEF OpenOrCreate
  <2> HIDE DEF opened, names
  <2>3. held' \in Holdings
    BY <2>1, <2>2, SweptParts
  <2>5. port' \in Holdings
    BY <2>2, SweptParts DEF TypeOK, Holdings
  <2>4. named' \in [Endpoints -> Services]
    <3>1. Settle(names)
      BY <1>3 DEF OpenOrCreate, names
    <3> QED
      BY <3>1, <2>1, SettledNames
  <2> QED
    BY <1>3, <2>3, <2>4, <2>5, AdvanceType DEF OpenOrCreate, TypeOK, Holdings
<1>4. ASSUME NEW p \in Procs, Incompatible(p) \/ Interrupted(p)
      PROVE  TypeOK'
  <2>1. Abandon(p)
    BY <1>4 DEF Incompatible, Interrupted
  <2>2. pc' \in [Procs -> Places]
    BY <2>1 DEF Abandon, TypeOK
  <2>3. attempts' \in [Procs -> 0 .. MaxAttempts - 1]
    BY <2>1, AttemptFacts DEF Abandon, TypeOK
  <2>4. at' \in [Procs -> Endpoints]
    BY <2>1 DEF Abandon, TypeOK
  <2> QED
    BY <2>1, <2>2, <2>3, <2>4 DEF Abandon, TypeOK
<1>5. ASSUME NEW p \in Procs, CreatePort(p)
      PROVE  TypeOK'
  BY <1>5, AdvanceType DEF CreatePort, TypeOK
<1>6. ASSUME NEW p \in Procs, Retry(p) \/ GiveUp(p)
      PROVE  TypeOK'
  <2>1. held' \in Holdings /\ port' \in Holdings /\ named' \in [Endpoints -> Services]
    BY <1>6, SweepType DEF Retry, GiveUp, PortTaken
  <2>2. attempts' \in [Procs -> 0 .. MaxAttempts - 1]
    <3>1. CASE Retry(p)
      BY <3>1, AttemptFacts DEF Retry, TypeOK
    <3>2. CASE GiveUp(p)
      BY <3>2, AttemptFacts DEF GiveUp, TypeOK
    <3> QED
      BY <1>6, <3>1, <3>2
  <2>3. /\ pc' \in [Procs -> Places]
        /\ at' \in [Procs -> Endpoints]
    <3>1. CASE Retry(p)
      BY <3>1 DEF Retry, TypeOK
    <3>2. CASE GiveUp(p)
      BY <3>2, CloseType DEF GiveUp
    <3> QED
      BY <1>6, <3>1, <3>2
  <2>4. UNCHANGED client
    BY <1>6 DEF Retry, GiveUp, PortTaken
  <2> QED
    BY <2>1, <2>2, <2>3, <2>4 DEF TypeOK, Holdings
<1>7. ASSUME NEW p \in Procs, PortFails(p) \/ Stop(p)
      PROVE  TypeOK'
  <2>1. attempts' \in [Procs -> 0 .. MaxAttempts - 1]
    BY <1>7, AttemptFacts DEF PortFails, Stop, TypeOK
  <2>2. /\ pc' \in [Procs -> Places]
        /\ at' \in [Procs -> Endpoints]
    BY <1>7, CloseType DEF PortFails, Stop
  <2> QED
    BY <1>7, <2>1, <2>2 DEF PortFails, Stop, TypeOK
<1>8. ASSUME NEW p \in Procs, ClosePort(p)
      PROVE  TypeOK'
  <2>1. named' \in [Endpoints -> Services]
    BY <1>8, SettledNames DEF ClosePort, TypeOK
  <2> QED
    BY <1>8, <2>1, RetreatType DEF ClosePort, TypeOK
<1>9. ASSUME NEW p \in Procs, CloseService(p)
      PROVE  TypeOK'
  <2>1. named' \in [Endpoints -> Services]
    BY <1>9, SettledNames DEF CloseService, TypeOK
  <2> QED
    BY <1>9, <2>1, RetreatType DEF CloseService, TypeOK
<1>10. ASSUME NEW p \in Procs, Finish(p)
       PROVE  TypeOK'
  BY <1>10, SweepType DEF Finish, TypeOK, Holdings
<1>11. ASSUME NEW p \in Procs, DropService(p) \/ DropPort(p)
       PROVE  TypeOK'
  <2>1. named' \in [Endpoints -> Services]
    BY <1>11, SettledNames DEF DropService, DropPort, TypeOK
  <2>2. pc' \in [Procs -> Places] /\ at' \in [Procs -> Endpoints]
    BY <1>11, AdvanceType DEF DropService, DropPort
  <2>3. held' \in Holdings /\ port' \in Holdings
    <3>1. CASE DropService(p)
      BY <3>1 DEF DropService, TypeOK, Holdings
    <3>2. CASE DropPort(p)
      BY <3>2 DEF DropPort, TypeOK, Holdings
    <3> QED
      BY <1>11, <3>1, <3>2
  <2>4. UNCHANGED <<attempts, client>>
    BY <1>11 DEF DropService, DropPort
  <2> QED
    BY <2>1, <2>2, <2>3, <2>4 DEF TypeOK, Holdings
<1>12. ASSUME NEW p \in Procs, Crash(p)
       PROVE  TypeOK'
  BY <1>12 DEF Crash, TypeOK
<1>13. ASSUME NEW ep \in Endpoints, ClientOpen(ep) \/ ClientClose(ep)
       PROVE  TypeOK'
  <2>1. named' \in [Endpoints -> Services]
    BY <1>13, SettledNames DEF ClientOpen, ClientClose, TypeOK
  <2>2. client' \in [Endpoints -> SUBSET Procs]
    BY <1>13 DEF ClientOpen, ClientClose, TypeOK, Services
  <2> QED
    BY <1>13, <2>1, <2>2 DEF ClientOpen, ClientClose, TypeOK
<1>14. CASE UNCHANGED vars
  BY <1>14 DEF vars, TypeOK
<1> QED
  BY <1>1, <1>2, <1>3, <1>4, <1>5, <1>6, <1>7, <1>8, <1>9, <1>10, <1>11, <1>12, <1>13, <1>14
     DEF Next, Step, Progress

-----------------------------------------------------------------------------
(* The inductive step *)

(* A step of p that does nothing to the others but to remove what some of  *)
(* the dead left.                                                          *)
Aside(p, gone) ==
  \A q \in Procs \ {p} :
    /\ pc'[q] = pc[q] /\ at'[q] = at[q]
    /\ \A ep \in Endpoints :
         /\ held'[q][ep] = IF q \in gone THEN None ELSE held[q][ep]
         /\ port'[q][ep] = IF q \in gone THEN None ELSE port[q][ep]

(* What p takes was free.                                                  *)
Takes(p) ==
  \A ep \in Endpoints : port'[p][ep] \in {None, port[p][ep]} \/ PortFree(port'[p][ep], ep)

(* Then only p's own part is left to show.                                 *)
LEMMA OwnPart ==
  ASSUME IInv, TypeOK', NEW p \in Procs, NEW gone \in SUBSET Dead,
         Aside(p, gone), Place(p)', Takes(p)
  PROVE  IInv'
<1>1. ASSUME NEW q \in Procs, q # p
      PROVE  Place(q)'
  <2>1. Place(q) /\ "rpc" \in Endpoints /\ "schema" \in Endpoints
    BY EndpointFacts DEF IInv
  <2>2. CASE q \in gone
    <3>1. pc'[q] = "dead"
      BY <1>1, <2>2 DEF Aside, Dead
    <3>2. \A ep \in Endpoints : held'[q][ep] = None /\ port'[q][ep] = None
      BY <1>1, <2>2 DEF Aside
    <3> QED
      BY <2>1, <3>1, <3>2 DEF Place
  <2>3. CASE q \notin gone
    <3>1. pc'[q] = pc[q] /\ at'[q] = at[q]
      BY <1>1 DEF Aside
    <3>2. \A ep \in Endpoints : held'[q][ep] = held[q][ep] /\ port'[q][ep] = port[q][ep]
      BY <1>1, <2>3 DEF Aside
    <3> QED
      BY <2>1, <3>1, <3>2 DEF Place, Without
  <2> QED
    BY <2>2, <2>3
<1>2. OnePort'
  <2> SUFFICES ASSUME NEW ep \in Endpoints, NEW q \in Procs, NEW r \in Procs,
                      port'[q][ep] # None, port'[q][ep] = port'[r][ep], q # r
               PROVE  FALSE
    BY DEF OnePort
  <2>1. \A s \in Procs \ {p} : port'[s][ep] \in {None, port[s][ep]}
    BY DEF Aside
  <2>2. port'[p][ep] \in {None, port[p][ep]} \/ \A s \in Procs : port[s][ep] # port'[p][ep]
    BY DEF Takes, PortFree
  <2> QED
    BY <2>1, <2>2 DEF IInv, OnePort
<1> QED
  BY <1>1, <1>2 DEF IInv

(* Steps without a cleanup: what the others have is not touched at all.    *)
LEMMA Untouched ==
  ASSUME NEW p \in Procs,
         \A q \in Procs \ {p} :
           /\ pc'[q] = pc[q] /\ at'[q] = at[q]
           /\ held'[q] = held[q] /\ port'[q] = port[q]
  PROVE  Aside(p, {})
  BY DEF Aside

(* Cleanups: p itself is alive, and keeps what it has.                     *)
LEMMA SweptAside ==
  ASSUME NEW p \in Procs, pc[p] # "dead", NEW gone \in SUBSET Dead,
         NEW mine \in Holdings, port \in Holdings,
         held' = Swept(mine, gone), port' = Swept(port, gone),
         \A q \in Procs \ {p} : pc'[q] = pc[q] /\ at'[q] = at[q] /\ mine[q] = held[q]
  PROVE  /\ Aside(p, gone)
         /\ \A ep \in Endpoints : held'[p][ep] = mine[p][ep] /\ port'[p][ep] = port[p][ep]
<1>1. p \notin gone
  BY DEF Dead
<1> QED
  BY <1>1, SweptParts DEF Aside

LEMMA AdvanceParts ==
  ASSUME TypeOK, NEW p \in Procs, NEW next, Advance(p, next)
  PROVE  /\ \/ at[p] = "rpc" /\ at'[p] = "schema" /\ pc'[p] = pc[p]
            \/ at[p] = "schema" /\ at'[p] = "rpc" /\ pc'[p] = next
         /\ \A q \in Procs \ {p} : pc'[q] = pc[q] /\ at'[q] = at[q]
  BY DEF Advance, TypeOK, Endpoints

LEMMA RetreatParts ==
  ASSUME TypeOK, NEW p \in Procs, NEW next, Retreat(p, next)
  PROVE  /\ \/ at[p] = "schema" /\ at'[p] = "rpc" /\ pc'[p] = pc[p]
            \/ at[p] = "rpc" /\ at'[p] = "schema" /\ pc'[p] = next
         /\ \A q \in Procs \ {p} : pc'[q] = pc[q] /\ at'[q] = at[q]
  BY EndpointFacts DEF Retreat, TypeOK, Endpoints

LEMMA CreateNodeStep ==
  ASSUME IInv, TypeOK', NEW p \in Procs, CreateNode(p)
  PROVE  IInv'
<1>1. PICK gone \in SUBSET Dead : held' = Swept(held, gone) /\ port' = Swept(port, gone)
  BY DEF CreateNode
<1>2. /\ pc[p] = "new" /\ pc'[p] = "remove"
      /\ \A q \in Procs \ {p} : pc'[q] = pc[q] /\ at'[q] = at[q]
  BY DEF CreateNode, IInv, TypeOK
<1>3. Aside(p, gone) /\ \A ep \in Endpoints : held'[p][ep] = held[p][ep] /\ port'[p][ep] = port[p][ep]
  BY <1>1, <1>2, SweptAside DEF IInv, TypeOK, Holdings
<1>4. Place(p)' /\ Takes(p)
  BY <1>2, <1>3, EndpointFacts DEF IInv, Place, Without, Takes
<1> QED
  BY <1>3, <1>4, OwnPart

LEMMA ForceRemoveStep ==
  ASSUME IInv, TypeOK', NEW p \in Procs, ForceRemove(p)
  PROVE  IInv'
<1>1. /\ pc[p] = "remove" /\ UNCHANGED <<held, port>>
      /\ pc'[p] \in {"remove", "open"}
      /\ pc'[p] = "open" => at'[p] = "rpc"
      /\ \A q \in Procs \ {p} : pc'[q] = pc[q] /\ at'[q] = at[q]
  BY AdvanceParts DEF ForceRemove, IInv
<1>2. Place(p)' /\ Takes(p)
  BY <1>1, EndpointFacts DEF IInv, Place, Without, Takes
<1> QED
  BY <1>1, <1>2, Untouched, OwnPart

LEMMA OpenOrCreateStep ==
  ASSUME IInv, TypeOK', NEW p \in Procs, OpenOrCreate(p)
  PROVE  IInv'
<1> DEFINE ep == at[p]
           service == IF named[ep] = None THEN p ELSE named[ep]
           opened == [held EXCEPT ![p][ep] = service]
<1>1. PICK gone \in SUBSET Dead : held' = Swept(opened, gone) /\ port' = Swept(port, gone)
  BY DEF OpenOrCreate
<1>2. service \in Services \ {None} /\ opened \in Holdings /\ port \in Holdings /\ ep \in Endpoints
  BY StartupAssumption DEF IInv, TypeOK, Services, Holdings
<1>3. /\ opened[p][ep] = service
      /\ \A other \in Endpoints \ {ep} : opened[p][other] = held[p][other]
      /\ \A q \in Procs \ {p} : opened[q] = held[q]
  BY <1>2 DEF IInv, TypeOK
<1>4. /\ pc[p] = "open"
      /\ \/ at[p] = "rpc" /\ at'[p] = "schema" /\ pc'[p] = "open"
         \/ at[p] = "schema" /\ at'[p] = "rpc" /\ pc'[p] = "port"
      /\ \A q \in Procs \ {p} : pc'[q] = pc[q] /\ at'[q] = at[q]
  BY AdvanceParts DEF OpenOrCreate, IInv
<1> HIDE DEF opened, service
<1>5. Aside(p, gone) /\ \A e \in Endpoints : held'[p][e] = opened[p][e] /\ port'[p][e] = port[p][e]
  BY <1>1, <1>2, <1>3, <1>4, SweptAside
<1>6. Takes(p)
  BY <1>5 DEF Takes
<1>7. Without(port, p) /\ Without(port', p)
  BY <1>4, <1>5 DEF IInv, Place, Without
<1>8. Place(p)'
  <2>1. CASE at[p] = "rpc"
    <3>1. held'[p]["rpc"] # None
      BY <1>2, <1>3, <1>5, <2>1
    <3> QED
      BY <1>4, <1>7, <2>1, <3>1, EndpointFacts DEF Place, Without
  <2>2. CASE at[p] = "schema"
    <3>1. held'[p]["schema"] # None
      BY <1>2, <1>3, <1>5, <2>2
    <3>2. held'[p]["rpc"] = held[p]["rpc"] /\ held[p]["rpc"] # None
      BY <1>3, <1>4, <1>5, <2>2, EndpointFacts DEF IInv, Place
    <3> QED
      BY <1>4, <1>7, <2>2, <3>1, <3>2, EndpointFacts DEF Place, Without, Endpoints
  <2> QED
    BY <1>4, <2>1, <2>2
<1> QED
  BY <1>5, <1>6, <1>8, OwnPart

LEMMA AbandonStep ==
  ASSUME IInv, TypeOK', NEW p \in Procs, Incompatible(p) \/ Interrupted(p) \/ Crash(p)
  PROVE  IInv'
<1>1. /\ UNCHANGED <<held, port>>
      /\ \/ /\ pc[p] \notin {"new", "drop_services", "drop_ports", "ended", "dead"}
            /\ pc'[p] = "drop_services" /\ at'[p] = "rpc"
         \/ pc'[p] = "dead"
      /\ \A q \in Procs \ {p} : pc'[q] = pc[q] /\ at'[q] = at[q]
  <2>1. CASE Crash(p)
    BY <2>1 DEF Crash, IInv, TypeOK
  <2>2. CASE Incompatible(p) \/ Interrupted(p)
    <3>1. Abandon(p)
      BY <2>2 DEF Incompatible, Interrupted
    <3>2. pc[p] \in Starting \cup Closing \cup {"serving"}
      BY <2>2 DEF Incompatible, Interrupted, Starting
    <3> QED
      BY <3>1, <3>2 DEF Abandon, Starting, Closing, IInv, TypeOK
  <2> QED
    BY <2>1, <2>2
<1>2. Takes(p)
  BY <1>1 DEF Takes
<1>3. Place(p)'
  <2>1. CASE pc'[p] = "dead"
    BY <2>1 DEF Place
  <2>2. CASE pc'[p] = "drop_services"
    <3>1. port[p]["schema"] # None => port[p]["rpc"] # None
      BY <1>1, <2>2 DEF IInv, Place
    <3>2. port'[p]["schema"] # None => port'[p]["rpc"] # None
      BY <1>1, <3>1
    <3> QED
      BY <1>1, <2>2, <3>2 DEF Place
  <2> QED
    BY <1>1, <2>1, <2>2
<1> QED
  BY <1>1, <1>2, <1>3, Untouched, OwnPart

LEMMA CreatePortStep ==
  ASSUME IInv, TypeOK', NEW p \in Procs, CreatePort(p)
  PROVE  IInv'
<1>1. /\ pc[p] = "port" /\ UNCHANGED held
      /\ \/ at[p] = "rpc" /\ at'[p] = "schema" /\ pc'[p] = "port"
         \/ at[p] = "schema" /\ at'[p] = "rpc" /\ pc'[p] = "serving"
      /\ \A q \in Procs \ {p} : pc'[q] = pc[q] /\ at'[q] = at[q]
  BY AdvanceParts DEF CreatePort, IInv
<1>2. /\ PortFree(held[p][at[p]], at[p])
      /\ port'[p][at[p]] = held[p][at[p]]
      /\ \A ep \in Endpoints \ {at[p]} : port'[p][ep] = port[p][ep]
      /\ \A q \in Procs \ {p} : port'[q] = port[q]
  BY DEF CreatePort, IInv, TypeOK
<1>3. Takes(p)
  BY <1>2 DEF Takes
<1>4. Place(p)'
  BY <1>1, <1>2, EndpointFacts DEF IInv, Place, Endpoints
<1> QED
  BY <1>1, <1>2, <1>3, <1>4, Untouched, OwnPart

LEMMA PortTakenStep ==
  ASSUME IInv, TypeOK', NEW p \in Procs, Retry(p) \/ GiveUp(p)
  PROVE  IInv'
<1>1. PICK gone \in SUBSET Dead : held' = Swept(held, gone) /\ port' = Swept(port, gone)
  BY DEF Retry, GiveUp, PortTaken
<1>2. /\ pc[p] = "port"
      /\ \/ pc'[p] = pc[p] /\ at'[p] = at[p]
         \/ pc'[p] = "close_ports" /\ at'[p] = "schema"
      /\ \A q \in Procs \ {p} : pc'[q] = pc[q] /\ at'[q] = at[q]
  BY EndpointFacts DEF Retry, GiveUp, PortTaken, BeginClose, IInv, TypeOK
<1>3. Aside(p, gone) /\ \A ep \in Endpoints : held'[p][ep] = held[p][ep] /\ port'[p][ep] = port[p][ep]
  BY <1>1, <1>2, SweptAside DEF IInv, TypeOK, Holdings
<1>4. Place(p)' /\ Takes(p)
  BY <1>2, <1>3, EndpointFacts DEF IInv, Place, Without, Takes
<1> QED
  BY <1>3, <1>4, OwnPart

LEMMA BeginCloseStep ==
  ASSUME IInv, TypeOK', NEW p \in Procs, PortFails(p) \/ Stop(p)
  PROVE  IInv'
<1>1. /\ UNCHANGED <<held, port>>
      /\ pc[p] \in {"port", "serving"} /\ pc'[p] = "close_ports" /\ at'[p] = "schema"
      /\ \A q \in Procs \ {p} : pc'[q] = pc[q] /\ at'[q] = at[q]
  BY EndpointFacts DEF PortFails, Stop, BeginClose, IInv, TypeOK
<1>2. Takes(p)
  BY <1>1 DEF Takes
<1>3. Place(p)'
  BY <1>1, EndpointFacts DEF IInv, Place
<1> QED
  BY <1>1, <1>2, <1>3, Untouched, OwnPart

LEMMA ClosePortStep ==
  ASSUME IInv, TypeOK', NEW p \in Procs, ClosePort(p)
  PROVE  IInv'
<1>1. /\ pc[p] = "close_ports" /\ UNCHANGED held
      /\ \/ at[p] = "schema" /\ at'[p] = "rpc" /\ pc'[p] = "close_ports"
         \/ at[p] = "rpc" /\ at'[p] = "schema" /\ pc'[p] = "close_services"
      /\ \A q \in Procs \ {p} : pc'[q] = pc[q] /\ at'[q] = at[q]
  BY RetreatParts DEF ClosePort, IInv
<1>2. /\ port'[p][at[p]] = None
      /\ \A ep \in Endpoints \ {at[p]} : port'[p][ep] = port[p][ep]
      /\ \A q \in Procs \ {p} : port'[q] = port[q]
  BY DEF ClosePort, IInv, TypeOK
<1>3. Takes(p)
  BY <1>2 DEF Takes
<1>4. Place(p)'
  BY <1>1, <1>2, EndpointFacts DEF IInv, Place, Without, Endpoints
<1> QED
  BY <1>1, <1>2, <1>3, <1>4, Untouched, OwnPart

LEMMA CloseServiceStep ==
  ASSUME IInv, TypeOK', NEW p \in Procs, CloseService(p)
  PROVE  IInv'
<1>1. /\ pc[p] = "close_services" /\ UNCHANGED port
      /\ \/ at[p] = "schema" /\ at'[p] = "rpc" /\ pc'[p] = "close_services"
         \/ at[p] = "rpc" /\ at'[p] = "schema" /\ pc'[p] = "cleanup"
      /\ \A q \in Procs \ {p} : pc'[q] = pc[q] /\ at'[q] = at[q]
  BY RetreatParts DEF CloseService, IInv
<1>2. /\ held'[p][at[p]] = None
      /\ \A ep \in Endpoints \ {at[p]} : held'[p][ep] = held[p][ep]
      /\ \A q \in Procs \ {p} : held'[q] = held[q]
  BY DEF CloseService, IInv, TypeOK
<1>3. Takes(p)
  BY <1>1 DEF Takes
<1>4. Place(p)'
  BY <1>1, <1>2, EndpointFacts DEF IInv, Place, Without, Endpoints
<1> QED
  BY <1>1, <1>2, <1>3, <1>4, Untouched, OwnPart

LEMMA FinishStep ==
  ASSUME IInv, TypeOK', NEW p \in Procs, Finish(p)
  PROVE  IInv'
<1>1. PICK gone \in SUBSET Dead : held' = Swept(held, gone) /\ port' = Swept(port, gone)
  BY DEF Finish
<1>2. /\ pc[p] = "cleanup" /\ pc'[p] = "ended"
      /\ \A q \in Procs \ {p} : pc'[q] = pc[q] /\ at'[q] = at[q]
  BY DEF Finish, IInv, TypeOK
<1>3. Aside(p, gone) /\ \A ep \in Endpoints : held'[p][ep] = held[p][ep] /\ port'[p][ep] = port[p][ep]
  BY <1>1, <1>2, SweptAside DEF IInv, TypeOK, Holdings
<1>4. Place(p)' /\ Takes(p)
  BY <1>2, <1>3, EndpointFacts DEF IInv, Place, Without, Takes
<1> QED
  BY <1>3, <1>4, OwnPart

LEMMA DropServiceStep ==
  ASSUME IInv, TypeOK', NEW p \in Procs, DropService(p)
  PROVE  IInv'
<1>1. /\ pc[p] = "drop_services" /\ UNCHANGED port
      /\ \/ at[p] = "rpc" /\ at'[p] = "schema" /\ pc'[p] = "drop_services"
         \/ at[p] = "schema" /\ at'[p] = "rpc" /\ pc'[p] = "drop_ports"
      /\ \A q \in Procs \ {p} : pc'[q] = pc[q] /\ at'[q] = at[q]
  BY AdvanceParts DEF DropService, IInv
<1>2. /\ held'[p][at[p]] = None
      /\ \A ep \in Endpoints \ {at[p]} : held'[p][ep] = held[p][ep]
      /\ \A q \in Procs \ {p} : held'[q] = held[q]
  BY DEF DropService, IInv, TypeOK
<1>3. Takes(p)
  BY <1>1 DEF Takes
<1>4. Place(p)'
  BY <1>1, <1>2, EndpointFacts DEF IInv, Place, Without, Endpoints
<1> QED
  BY <1>1, <1>2, <1>3, <1>4, Untouched, OwnPart

LEMMA DropPortStep ==
  ASSUME IInv, TypeOK', NEW p \in Procs, DropPort(p)
  PROVE  IInv'
<1>1. /\ pc[p] = "drop_ports" /\ UNCHANGED held
      /\ \/ at[p] = "rpc" /\ at'[p] = "schema" /\ pc'[p] = "drop_ports"
         \/ at[p] = "schema" /\ at'[p] = "rpc" /\ pc'[p] = "ended"
      /\ \A q \in Procs \ {p} : pc'[q] = pc[q] /\ at'[q] = at[q]
  BY AdvanceParts DEF DropPort, IInv
<1>2. /\ port'[p][at[p]] = None
      /\ \A ep \in Endpoints \ {at[p]} : port'[p][ep] = port[p][ep]
      /\ \A q \in Procs \ {p} : port'[q] = port[q]
  BY DEF DropPort, IInv, TypeOK
<1>3. Takes(p)
  BY <1>2 DEF Takes
<1>4. Place(p)'
  BY <1>1, <1>2, EndpointFacts DEF IInv, Place, Without, Endpoints
<1> QED
  BY <1>1, <1>2, <1>3, <1>4, Untouched, OwnPart

(* Clients change nothing that the invariant speaks of but the type.       *)
LEMMA Idle ==
  ASSUME IInv, TypeOK', UNCHANGED <<pc, at, held, port>>
  PROVE  IInv'
  BY DEF IInv, Place, OnePort

LEMMA InitInv == Init => IInv
  BY InitType, EndpointFacts DEF Init, IInv, Place, Without, OnePort, Nothing

LEMMA StepInv ==
  ASSUME IInv, TypeOK', NEW p \in Procs, Step(p)
  PROVE  IInv'
  BY CreateNodeStep, ForceRemoveStep, OpenOrCreateStep, AbandonStep, CreatePortStep,
     PortTakenStep, BeginCloseStep, ClosePortStep, CloseServiceStep, FinishStep,
     DropServiceStep, DropPortStep
     DEF Step, Progress

LEMMA NextInv == IInv /\ [Next]_vars => IInv'
<1> SUFFICES ASSUME IInv, [Next]_vars PROVE IInv'
  OBVIOUS
<1>1. TypeOK'
  BY TypeStep DEF IInv
<1>2. CASE \E p \in Procs : Step(p)
  BY <1>1, <1>2, StepInv
<1>3. CASE UNCHANGED <<pc, at, held, port>>
  BY <1>1, <1>3, Idle
<1> QED
  BY <1>2, <1>3 DEF Next, vars, ClientOpen, ClientClose

(* What a process has at each place, and that no service has two ports,    *)
(* for any processes, settings, controllers and numbers of attempts.       *)
THEOREM Invariance == Spec => []IInv
  BY InitInv, NextInv, PTL DEF Spec

(* The shape of the state, whatever the processes, settings, controllers   *)
(* and number of attempts: no port is ever tried more than max_attempts    *)
(* times.                                                                  *)
THEOREM TypeCorrect == Spec => []TypeOK
<1>1. IInv => TypeOK
  BY DEF IInv
<1> QED
  BY <1>1, Invariance, PTL

LEMMA WholeAtItsPlace == IInv => WholeOrGone
<1> SUFFICES ASSUME IInv, NEW p \in Procs
             PROVE  /\ pc[p] = "serving" =>
                         \A ep \in Endpoints : port[p][ep] # None /\ port[p][ep] = held[p][ep]
                    /\ pc[p] = "ended" => port[p] = Nothing /\ held[p] = Nothing
  BY DEF WholeOrGone
<1>1. Place(p) /\ port[p] \in [Endpoints -> Services] /\ held[p] \in [Endpoints -> Services]
  BY DEF IInv, TypeOK
<1>2. ASSUME pc[p] = "ended"
      PROVE  port[p] = Nothing /\ held[p] = Nothing
  <2>1. \A ep \in Endpoints : held[p][ep] = None /\ port[p][ep] = None
    BY <1>1, <1>2, EndpointFacts DEF Place, Without
  <2>2. port[p] = [ep \in Endpoints |-> port[p][ep]] /\ held[p] = [ep \in Endpoints |-> held[p][ep]]
    BY <1>1
  <2> QED
    BY <2>1, <2>2 DEF Nothing
<1> QED
  BY <1>1, <1>2 DEF Place

(* A server that serves has both services and a port of each; one that has *)
(* ended has left nothing behind, however its constructor or close went,   *)
(* and whoever force-removes.                                              *)
THEOREM WholeOrGoneAlways == Spec => []WholeOrGone
  BY Invariance, WholeAtItsPlace, PTL

-----------------------------------------------------------------------------
(* Where nobody force-removes *)

(* Names are not taken from those who hold their services or a port of     *)
(* them; a name is moved only when there is none.                          *)
LEMMA NamesKept ==
  ASSUME NEW names \in [Endpoints -> Services], Settle(names),
         NEW mine \in Holdings, NEW served \in Holdings,
         \A q \in Procs, ep \in Endpoints : mine[q][ep] # None => names[ep] = mine[q][ep],
         \A q \in Procs, ep \in Endpoints : served[q][ep] # None => names[ep] = served[q][ep],
         \A q \in Procs, ep \in Endpoints :
           held'[q][ep] \in {mine[q][ep], None} /\ port'[q][ep] \in {served[q][ep], None}
  PROVE  NamesLead'
<1> SUFFICES ASSUME NEW q \in Procs, NEW ep \in Endpoints
             PROVE  /\ held'[q][ep] # None => named'[ep] = held'[q][ep]
                    /\ port'[q][ep] # None => named'[ep] = port'[q][ep]
  BY DEF NamesLead
<1>1. names[ep] \in {held'[q][ep], port'[q][ep]} => named'[ep] = names[ep]
  BY SettledNames
<1> QED
  BY <1>1

(* Closing, dropping and cleanups: fewer services and ports are held, and  *)
(* a name stays with those that are.                                       *)
LEMMA FewerNames ==
  ASSUME TypeOK, NamesLead, Settle(named),
         \A q \in Procs, ep \in Endpoints :
           held'[q][ep] \in {held[q][ep], None} /\ port'[q][ep] \in {port[q][ep], None}
  PROVE  NamesLead'
<1>1. held \in Holdings /\ port \in Holdings /\ named \in [Endpoints -> Services]
  BY DEF TypeOK, Holdings
<1>2. \A q \in Procs, ep \in Endpoints :
        /\ held[q][ep] # None => named[ep] = held[q][ep]
        /\ port[q][ep] # None => named[ep] = port[q][ep]
  BY DEF NamesLead
<1>3. ASSUME NEW names \in [Endpoints -> Services], names = named
      PROVE  NamesLead'
  <2>1. Settle(names)
    BY <1>3
  <2>2. \A q \in Procs, ep \in Endpoints : held[q][ep] # None => names[ep] = held[q][ep]
    BY <1>2, <1>3
  <2>3. \A q \in Procs, ep \in Endpoints : port[q][ep] # None => names[ep] = port[q][ep]
    BY <1>2, <1>3
  <2> QED
    BY <1>1, <2>1, <2>2, <2>3, NamesKept
<1> QED
  BY <1>1, <1>3

LEMMA SweptNames ==
  ASSUME TypeOK, NamesLead, NEW gone, held' = Swept(held, gone), port' = Swept(port, gone),
         Settle(named)
  PROVE  NamesLead'
<1>1. held \in Holdings /\ port \in Holdings
  BY DEF TypeOK, Holdings
<1>2. \A q \in Procs, ep \in Endpoints :
        held'[q][ep] \in {held[q][ep], None} /\ port'[q][ep] \in {port[q][ep], None}
  BY <1>1, SweptParts
<1> QED
  BY <1>2, FewerNames

LEMMA OpenNames ==
  ASSUME TypeOK, NamesLead, NEW p \in Procs, OpenOrCreate(p)
  PROVE  NamesLead'
<1> DEFINE ep == at[p]
           service == IF named[ep] = None THEN p ELSE named[ep]
           opened == [held EXCEPT ![p][ep] = service]
           names == [named EXCEPT ![ep] = service]
<1>1. PICK gone \in SUBSET Dead : held' = Swept(opened, gone) /\ port' = Swept(port, gone)
  BY DEF OpenOrCreate
<1>2. Settle(names)
  BY DEF OpenOrCreate
<1>3. service \in Services /\ opened \in Holdings /\ names \in [Endpoints -> Services] /\ ep \in Endpoints
  BY DEF TypeOK, Services, Holdings
<1>4. \A q \in Procs, e \in Endpoints : opened[q][e] # None => names[e] = opened[q][e]
  <2> SUFFICES ASSUME NEW q \in Procs, NEW e \in Endpoints, opened[q][e] # None
               PROVE  names[e] = opened[q][e]
    OBVIOUS
  <2>1. held \in [Procs -> [Endpoints -> Services]] /\ named \in [Endpoints -> Services]
    BY DEF TypeOK
  <2>2. CASE q = p /\ e = ep
    BY <1>3, <2>1, <2>2
  <2>3. CASE e # ep
    <3>1. opened[q][e] = held[q][e] /\ names[e] = named[e]
      BY <1>3, <2>1, <2>3
    <3> QED
      BY <3>1 DEF NamesLead
  <2>4. CASE q # p /\ e = ep
    <3>1. opened[q][e] = held[q][e] /\ names[e] = service
      BY <1>3, <2>1, <2>4
    <3>2. named[e] = held[q][e] /\ held[q][e] # None
      BY <3>1 DEF NamesLead
    <3> QED
      BY <3>1, <3>2, <2>4
  <2> QED
    BY <2>2, <2>3, <2>4
<1>5. \A q \in Procs, e \in Endpoints : port[q][e] # None => names[e] = port[q][e]
  <2> SUFFICES ASSUME NEW q \in Procs, NEW e \in Endpoints, port[q][e] # None
               PROVE  names[e] = port[q][e]
    OBVIOUS
  <2>1. named[e] = port[q][e] /\ named[e] # None
    BY DEF NamesLead
  <2>2. names[e] = named[e]
    BY <1>3, <2>1 DEF TypeOK
  <2> QED
    BY <2>1, <2>2
<1> HIDE DEF opened, names
<1>6. port \in Holdings
  BY DEF TypeOK, Holdings
<1>7. \A q \in Procs, e \in Endpoints :
        held'[q][e] \in {opened[q][e], None} /\ port'[q][e] \in {port[q][e], None}
  BY <1>1, <1>3, <1>6, SweptParts
<1> QED
  BY <1>2, <1>3, <1>4, <1>5, <1>6, <1>7, NamesKept

LEMMA NamesStep ==
  ASSUME NobodyForces, TypeOK, NamesLead, NEW p \in Procs, Step(p)
  PROVE  NamesLead'
<1>1. CASE CreateNode(p)
  BY <1>1, SweptNames DEF CreateNode
<1>2. CASE OpenOrCreate(p)
  BY <1>2, OpenNames
<1>3. CASE Retry(p) \/ GiveUp(p)
  BY <1>3, SweptNames DEF Retry, GiveUp, PortTaken
<1>4. CASE Finish(p)
  BY <1>4, SweptNames DEF Finish
<1>5. CASE ClosePort(p) \/ CloseService(p) \/ DropService(p) \/ DropPort(p)
  <2>1. Settle(named)
    BY <1>5 DEF ClosePort, CloseService, DropService, DropPort
  <2>2. \A q \in Procs, ep \in Endpoints :
          held'[q][ep] \in {held[q][ep], None} /\ port'[q][ep] \in {port[q][ep], None}
    <3>1. CASE ClosePort(p)
      BY <3>1 DEF ClosePort, TypeOK
    <3>2. CASE CloseService(p)
      BY <3>2 DEF CloseService, TypeOK
    <3>3. CASE DropService(p)
      BY <3>3 DEF DropService, TypeOK
    <3>4. CASE DropPort(p)
      BY <3>4 DEF DropPort, TypeOK
    <3> QED
      BY <1>5, <3>1, <3>2, <3>3, <3>4
  <2> QED
    BY <2>1, <2>2, FewerNames
<1>6. CASE CreatePort(p)
  <2>1. UNCHANGED <<named, held>> /\ at[p] \in Endpoints
    BY <1>6 DEF CreatePort, TypeOK
  <2>2. port' = [port EXCEPT ![p][at[p]] = held[p][at[p]]]
    BY <1>6 DEF CreatePort
  <2>3. \A q \in Procs, ep \in Endpoints :
          port'[q][ep] = port[q][ep] \/ port'[q][ep] = held[q][ep]
    BY <2>1, <2>2 DEF TypeOK
  <2> QED
    BY <2>1, <2>3 DEF NamesLead
<1>7. CASE UNCHANGED <<named, held, port>>
  BY <1>7 DEF NamesLead
<1>8. ForceRemove(p) => UNCHANGED <<named, held, port>>
  BY DEF ForceRemove, NobodyForces
<1> QED
  BY <1>1, <1>2, <1>3, <1>4, <1>5, <1>6, <1>7, <1>8
     DEF Step, Progress, Incompatible, Interrupted, Abandon, PortFails, Stop, Crash

LEMMA NamesInv ==
  ASSUME NobodyForces
  PROVE  Spec => []NamesLead
<1>1. Init => NamesLead
  BY DEF Init, NamesLead, Nothing
<1>2. TypeOK /\ NamesLead /\ [Next]_vars => NamesLead'
  <2> SUFFICES ASSUME TypeOK, NamesLead, [Next]_vars
               PROVE  NamesLead'
    OBVIOUS
  <2>1. CASE \E p \in Procs : Step(p)
    BY <2>1, NamesStep
  <2>2. CASE \E ep \in Endpoints : ClientOpen(ep) \/ ClientClose(ep)
    <3>1. CASE \E ep \in Endpoints : ClientOpen(ep)
      BY <3>1 DEF ClientOpen, NamesLead
    <3>2. CASE \E ep \in Endpoints : ClientClose(ep)
      BY <3>2, FewerNames DEF ClientClose
    <3> QED
      BY <2>2, <3>1, <3>2
  <2>3. CASE UNCHANGED vars
    BY <2>3 DEF vars, NamesLead
  <2> QED
    BY <2>1, <2>2, <2>3 DEF Next
<1> QED
  BY <1>1, <1>2, TypeCorrect, PTL DEF Spec

(* Everybody's port is one of the service that the name leads to, which    *)
(* has one.                                                                *)
LEMMA SamePort ==
  ASSUME IInv, NamesLead, NEW ep \in Endpoints, NEW p \in Procs, NEW q \in Procs,
         port[p][ep] # None, port[q][ep] # None
  PROVE  p = q
<1>1. port[p][ep] = port[q][ep]
  BY DEF NamesLead
<1> QED
  BY <1>1 DEF IInv, OnePort

(* Where nobody force-removes, a name has one server, in whatever order    *)
(* the processes start, close, crash and are swept.                        *)
THEOREM OneServerOptedOut ==
  ASSUME NobodyForces
  PROVE  Spec => []OneServer
<1>1. IInv /\ NamesLead => OneServer
  <2> SUFFICES ASSUME IInv, NamesLead, NEW ep \in Endpoints
               PROVE  Cardinality(Servers(ep)) <= 1
    BY DEF OneServer
  <2>1. CASE Servers(ep) = {}
    BY <2>1, FS_EmptySet
  <2>2. CASE Servers(ep) # {}
    <3>1. PICK p \in Procs : Servers(ep) = {p}
      BY <2>2, SamePort DEF Servers
    <3>2. Cardinality({p}) = 1
      BY FS_Singleton, Zenon
    <3> QED
      BY <3>1, <3>2
  <2> QED
    BY <2>1, <2>2
<1> QED
  BY <1>1, Invariance, NamesInv, PTL

(* Where nobody force-removes, the descriptor's server is the calls'       *)
(* server, or a process that answers no more and whose remaining objects   *)
(* the interpreter is dropping.                                            *)
THEOREM NoMixedPairOptedOut ==
  ASSUME NobodyForces
  PROVE  Spec => []NoMixedPair
<1>1. IInv /\ NamesLead => NoMixedPair
  <2> SUFFICES ASSUME IInv, NamesLead, NEW p \in Servers("rpc"), NEW q \in Servers("schema"),
                      pc[q] # "drop_ports"
               PROVE  p = q
    BY DEF NoMixedPair
  <2>1. /\ p \in Procs /\ port[p]["rpc"] # None
        /\ q \in Procs /\ port[q]["schema"] # None /\ pc[q] # "dead"
    BY DEF Servers
  <2>2. port[q]["rpc"] # None
    BY <2>1 DEF IInv, Place
  <2> QED
    BY <2>1, <2>2, SamePort, EndpointFacts
<1> QED
  BY <1>1, Invariance, NamesInv, PTL

(* What NobodyIsTakenOver promises of the default setting is true of the   *)
(* setting 0: where everyone has opted out, the names of a serving process *)
(* lead to it.                                                             *)
THEOREM ServingKeepsItsNames ==
  ASSUME NobodyForces
  PROVE  Spec => [](\A p \in Procs : pc[p] = "serving" => named = held[p])
<1>1. IInv /\ NamesLead => \A p \in Procs : pc[p] = "serving" => named = held[p]
  <2> SUFFICES ASSUME IInv, NamesLead, NEW p \in Procs, pc[p] = "serving"
               PROVE  named = held[p]
    OBVIOUS
  <2>1. \A ep \in Endpoints : named[ep] = held[p][ep]
    BY DEF IInv, Place, NamesLead
  <2>2. named \in [Endpoints -> Services] /\ held[p] \in [Endpoints -> Services]
    BY DEF IInv, TypeOK
  <2> QED
    BY <2>1, <2>2
<1> QED
  BY <1>1, Invariance, NamesInv, PTL

=============================================================================
