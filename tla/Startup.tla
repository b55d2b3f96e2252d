------------------------------ MODULE Startup -------------------------------
(***************************************************************************)
(* Server processes of one controller that start, serve, close and crash   *)
(* over the same two service names: Iox2JsonRpcServer.__init__ and close,  *)
(* with the helpers they call.  A process here lives once; a restart is    *)
(* another process.                                                        *)
(*                                                                         *)
(* A service is known by its creator: a process creates at most one for    *)
(* each name.  A name leads to one service or to none; a service that was  *)
(* force-removed lives on, without its name, for those who hold it.  What  *)
(* a dead process held stays in the system until a cleanup removes it.     *)
(*                                                                         *)
(* Of iceoryx2 (external) the model assumes: open_or_create opens what the *)
(* name leads to if it has the required attributes, fails if it has not,   *)
(* and creates if there is nothing; a service has at most max_servers(1)   *)
(* server ports; a service lives as long as somebody holds it or a port of *)
(* it; a cleanup removes the remains of any of the dead.                   *)
(***************************************************************************)
EXTENDS Naturals, FiniteSets

CONSTANTS
  Procs,        \* the server processes
  Setting,      \* IOX2_JSONRPC_FORCE_REMOVE_SERVICES as each one's user set it
  Methods,      \* the rpc.methods attribute of each one's controller
  MaxAttempts,  \* max_attempts of create_server_with_dead_node_cleanup
  None          \* no service

Endpoints == {"rpc", "schema"}

ASSUME StartupAssumption ==
  /\ Setting \in [Procs -> {"unset", "0", "1"}]
  /\ DOMAIN Methods = Procs
  /\ MaxAttempts \in Nat \ {0}
  /\ None \notin Procs

VARIABLES
  pc,        \* what each process is doing
  at,        \* the endpoint it is doing it for
  attempts,  \* failed attempts at the server port in hand
  named,     \* the service each name leads to
  held,      \* the service each process has open under each name
  port,      \* the service each process has a server port of
  client     \* the services that clients keep open under each name

vars == <<pc, at, attempts, named, held, port, client>>

-----------------------------------------------------------------------------
(* The order in which things happen *)

Starting == {"remove", "open", "port"}

Closing == {"close_ports", "close_services", "cleanup"}

Dropping == {"drop_services", "drop_ports"}

(* The constructor, and the interpreter when it drops what is left: each   *)
(* step for the rpc endpoint, then for the schema endpoint, then the next. *)
Advance(p, next) ==
  IF at[p] = "rpc"
    THEN at' = [at EXCEPT ![p] = "schema"] /\ UNCHANGED pc
    ELSE at' = [at EXCEPT ![p] = "rpc"] /\ pc' = [pc EXCEPT ![p] = next]

(* A deliberately wrong variant: the rpc port is closed first.             *)
ClosedFirstRpc == "rpc"

ClosedFirst == "schema"

Retreat(p, next) ==
  IF at[p] = ClosedFirst
    THEN at' = [at EXCEPT ![p] = CHOOSE ep \in Endpoints : ep # at[p]] /\ UNCHANGED pc
    ELSE at' = [at EXCEPT ![p] = ClosedFirst] /\ pc' = [pc EXCEPT ![p] = next]

BeginClose(p) ==
  /\ pc' = [pc EXCEPT ![p] = "close_ports"]
  /\ at' = [at EXCEPT ![p] = ClosedFirst]

-----------------------------------------------------------------------------
(* The system's objects *)

Dead == {p \in Procs : pc[p] = "dead"}

Nothing == [ep \in Endpoints |-> None]

(* best_effort_cleanup_dead_nodes: the remains of some of the dead go;     *)
(* every error is swallowed.                                               *)
Swept(holdings, gone) == [p \in Procs |-> IF p \in gone THEN Nothing ELSE holdings[p]]

(* The service that a name leads to, once services nobody holds are gone.  *)
Lasting(names, ep) ==
  IF names[ep] \in client'[ep] \/ \E p \in Procs : names[ep] \in {held'[p][ep], port'[p][ep]}
    THEN names[ep]
    ELSE None

Settle(names) == named' = [ep \in Endpoints |-> Lasting(names, ep)]

(* The server ports that iceoryx2 counts for a service.                    *)
PortFree(service, ep) == \A q \in Procs : port[q][ep] # service

(* The schema service's attributes do not name the methods.                *)
Compatible(p, ep) ==
  named[ep] # None /\ ep = "rpc" => Methods[named[ep]] = Methods[p]

(* iceoryx_runtime sets the variable to "1" where the user left it unset.  *)
(* Deliberately wrong variant: any value asks for the removal.             *)
ForcesIfSet(p) == TRUE

Forces(p) == Setting[p] \in {"unset", "1"}

-----------------------------------------------------------------------------
(* The constructor *)

(* The node, and a first cleanup.                                          *)
CreateNode(p) ==
  /\ pc[p] = "new"
  /\ \E gone \in SUBSET Dead : held' = Swept(held, gone) /\ port' = Swept(port, gone)
  /\ pc' = [pc EXCEPT ![p] = "remove"]
  /\ UNCHANGED <<at, attempts, client>>
  /\ Settle(named)

(* force_remove_request_response_service_if_requested: the name is cleared *)
(* whoever holds the service; a failure is printed and ignored.            *)
ForceRemove(p) ==
  /\ pc[p] = "remove"
  /\ \/ Forces(p) /\ named' = [named EXCEPT ![at[p]] = None]
     \/ UNCHANGED named
  /\ Advance(p, "open")
  /\ UNCHANGED <<attempts, held, port, client>>

(* _create_request_response_service, with the cleanup at its end.          *)
OpenOrCreate(p) ==
  /\ pc[p] = "open"
  /\ Compatible(p, at[p])
  /\ LET ep      == at[p]
         service == IF named[ep] = None THEN p ELSE named[ep]
     IN  /\ \E gone \in SUBSET Dead :
              /\ held' = Swept([held EXCEPT ![p][ep] = service], gone)
              /\ port' = Swept(port, gone)
         /\ UNCHANGED <<attempts, client>>
         /\ Settle([named EXCEPT ![ep] = service])
  /\ Advance(p, "port")

(* An exception is raised, and no handler closes.                          *)
Abandon(p) ==
  /\ pc' = [pc EXCEPT ![p] = "drop_services"]
  /\ at' = [at EXCEPT ![p] = "rpc"]
  /\ attempts' = [attempts EXCEPT ![p] = 0]
  /\ UNCHANGED <<named, held, port, client>>

(* The service exists with other attributes: open_or_create raises outside *)
(* of the try statement.                                                   *)
Incompatible(p) ==
  /\ pc[p] = "open"
  /\ ~Compatible(p, at[p])
  /\ Abandon(p)

(* A KeyboardInterrupt, which is no Exception and passes every handler of  *)
(* the constructor and of close, and which finds none before run_forever's *)
(* try; or a service that fails to open.                                   *)
Interrupted(p) ==
  /\ pc[p] \in Starting \cup Closing \cup {"serving"}
  /\ Abandon(p)

CreatePort(p) ==
  /\ pc[p] = "port"
  /\ PortFree(held[p][at[p]], at[p])
  /\ port' = [port EXCEPT ![p][at[p]] = held[p][at[p]]]
  /\ attempts' = [attempts EXCEPT ![p] = 0]
  /\ Advance(p, "serving")
  /\ UNCHANGED <<named, held, client>>

(* ExceedsMaxSupportedServers, with the cleanup that follows it.           *)
PortTaken(p) ==
  /\ pc[p] = "port"
  /\ ~PortFree(held[p][at[p]], at[p])
  /\ \E gone \in SUBSET Dead : held' = Swept(held, gone) /\ port' = Swept(port, gone)
  /\ UNCHANGED client
  /\ Settle(named)

(* Deliberately wrong variants: attempts are not counted; one is granted   *)
(* too many.                                                               *)
RetryForever(p) == PortTaken(p) /\ UNCHANGED <<attempts, pc, at>>

RetryOnceMore(p) ==
  /\ PortTaken(p)
  /\ attempts[p] < MaxAttempts
  /\ attempts' = [attempts EXCEPT ![p] = @ + 1]
  /\ UNCHANGED <<pc, at>>

(* Sleep, then try again: the bounded loop.                                *)
Retry(p) ==
  /\ PortTaken(p)
  /\ attempts[p] + 1 < MaxAttempts
  /\ attempts' = [attempts EXCEPT ![p] = @ + 1]
  /\ UNCHANGED <<pc, at>>

(* A deliberately wrong variant: the constructor does not close.           *)
GiveUpOpen(p) ==
  /\ PortTaken(p)
  /\ attempts[p] + 1 = MaxAttempts
  /\ attempts' = [attempts EXCEPT ![p] = 0]
  /\ pc' = [pc EXCEPT ![p] = "ended"]
  /\ UNCHANGED at

(* After the last attempt it raises, and the constructor closes.           *)
GiveUp(p) ==
  /\ PortTaken(p)
  /\ attempts[p] + 1 = MaxAttempts
  /\ attempts' = [attempts EXCEPT ![p] = 0]
  /\ BeginClose(p)

(* Any other error of the port's creation is raised at once.               *)
PortFails(p) ==
  /\ pc[p] = "port"
  /\ attempts' = [attempts EXCEPT ![p] = 0]
  /\ BeginClose(p)
  /\ UNCHANGED <<named, held, port, client>>

-----------------------------------------------------------------------------
(* The end of a process *)

(* run_forever, or the with statement, is left: close.                     *)
Stop(p) ==
  /\ pc[p] = "serving"
  /\ BeginClose(p)
  /\ UNCHANGED <<attempts, named, held, port, client>>

(* close: schema_server, rpc_server, schema_service, rpc_service, one      *)
(* after the other, each if it is there.                                   *)
ClosePort(p) ==
  /\ pc[p] = "close_ports"
  /\ port' = [port EXCEPT ![p][at[p]] = None]
  /\ UNCHANGED <<attempts, held, client>>
  /\ Settle(named)
  /\ Retreat(p, "close_services")

CloseService(p) ==
  /\ pc[p] = "close_services"
  /\ held' = [held EXCEPT ![p][at[p]] = None]
  /\ UNCHANGED <<attempts, port, client>>
  /\ Settle(named)
  /\ Retreat(p, "cleanup")

(* The last cleanup.                                                       *)
Finish(p) ==
  /\ pc[p] = "cleanup"
  /\ \E gone \in SUBSET Dead : held' = Swept(held, gone) /\ port' = Swept(port, gone)
  /\ pc' = [pc EXCEPT ![p] = "ended"]
  /\ UNCHANGED <<at, attempts, client>>
  /\ Settle(named)

(* Nothing closed: the interpreter drops the server's attributes, one by   *)
(* one in the order of their assignment, which is rpc_service,             *)
(* schema_service, rpc_server, schema_server.                              *)
DropService(p) ==
  /\ pc[p] = "drop_services"
  /\ held' = [held EXCEPT ![p][at[p]] = None]
  /\ UNCHANGED <<attempts, port, client>>
  /\ Settle(named)
  /\ Advance(p, "drop_ports")

DropPort(p) ==
  /\ pc[p] = "drop_ports"
  /\ port' = [port EXCEPT ![p][at[p]] = None]
  /\ UNCHANGED <<attempts, held, client>>
  /\ Settle(named)
  /\ Advance(p, "ended")

(* A process is gone at once, also one whose interpreter drops nothing:    *)
(* what it holds remains.                                                  *)
Crash(p) ==
  /\ pc[p] \notin {"new", "ended", "dead"}
  /\ pc' = [pc EXCEPT ![p] = "dead"]
  /\ attempts' = [attempts EXCEPT ![p] = 0]
  /\ UNCHANGED <<at, named, held, port, client>>

(* A client opens what the name leads to, and lets go of it again.         *)
ClientOpen(ep) ==
  /\ named[ep] \notin client[ep] \cup {None}
  /\ client' = [client EXCEPT ![ep] = @ \cup {named[ep]}]
  /\ UNCHANGED <<pc, at, attempts, named, held, port>>

ClientClose(ep) ==
  /\ \E service \in client[ep] : client' = [client EXCEPT ![ep] = @ \ {service}]
  /\ UNCHANGED <<pc, at, attempts, held, port>>
  /\ Settle(named)

-----------------------------------------------------------------------------

Init ==
  /\ pc = [p \in Procs |-> "new"]
  /\ at = [p \in Procs |-> "rpc"]
  /\ attempts = [p \in Procs |-> 0]
  /\ named = Nothing
  /\ held = [p \in Procs |-> Nothing]
  /\ port = [p \in Procs |-> Nothing]
  /\ client = [ep \in Endpoints |-> {}]

(* What a process does on its own once it has begun.                       *)
Progress(p) ==
  \/ ForceRemove(p)
  \/ OpenOrCreate(p)
  \/ CreatePort(p)
  \/ Retry(p)
  \/ GiveUp(p)
  \/ Incompatible(p)
  \/ ClosePort(p)
  \/ CloseService(p)
  \/ Finish(p)
  \/ DropService(p)
  \/ DropPort(p)

Step(p) ==
  \/ CreateNode(p)
  \/ Progress(p)
  \/ PortFails(p)
  \/ Interrupted(p)
  \/ Stop(p)
  \/ Crash(p)

Next ==
  \/ \E p \in Procs : Step(p)
  \/ \E ep \in Endpoints : ClientOpen(ep) \/ ClientClose(ep)

Spec == Init /\ [][Next]_vars

(* A process that has begun to construct or to close a server goes on.     *)
FairSpec == Spec /\ \A p \in Procs : WF_vars(Progress(p))

-----------------------------------------------------------------------------
(* Properties *)

Places == Starting \cup Closing \cup Dropping \cup {"new", "serving", "ended", "dead"}

Services == Procs \cup {None}

(* The shape of the state: a failed attempt is never one of more than      *)
(* max_attempts.                                                           *)
TypeOK ==
  /\ pc \in [Procs -> Places]
  /\ at \in [Procs -> Endpoints]
  /\ attempts \in [Procs -> 0 .. MaxAttempts - 1]
  /\ named \in [Endpoints -> Services]
  /\ held \in [Procs -> [Endpoints -> Services]]
  /\ port \in [Procs -> [Endpoints -> Services]]
  /\ client \in [Endpoints -> SUBSET Procs]

(* The live processes with a server port under a name.                     *)
Servers(ep) == {p \in Procs : pc[p] # "dead" /\ port[p][ep] # None}

(* Where nobody force-removes, a name has one server: never do two live    *)
(* processes hold a server port under the same name, of the same service   *)
(* or of two, in whatever order they start, close, crash and are swept.    *)
OneServer == \A ep \in Endpoints : Cardinality(Servers(ep)) <= 1

(* Where nobody force-removes, the two names are not served by different   *)
(* processes: a client never reads one process's descriptor and calls the  *)
(* other.  It rests on the opposite orders of the constructor and close.   *)
(* What an interrupt left to the interpreter is dropped in the order of    *)
(* the constructor: only of such a process, whose loop answers no more,    *)
(* may the schema port outlive the rpc port and meet another's.            *)
NoMixedPair ==
  \A p \in Servers("rpc"), q \in Servers("schema") : p = q \/ pc[q] = "drop_ports"

(* A server is whole or gone: while it serves it holds both services and a *)
(* port of each; once its process has ended, closed or interrupted, it     *)
(* holds nothing, also when only the second port could not be had.         *)
WholeOrGone ==
  \A p \in Procs :
    /\ pc[p] = "serving" => \A ep \in Endpoints : port[p][ep] # None /\ port[p][ep] = held[p][ep]
    /\ pc[p] = "ended" => port[p] = Nothing /\ held[p] = Nothing

(* Where nobody has set the variable to 1, a serving process stays the one *)
(* that its names lead to.  (The error text of create_server_with_dead_    *)
(* node_cleanup: force removal is something "you can also set".)           *)
NobodyIsTakenOver ==
  (\A p \in Procs : Setting[p] # "1") =>
    \A p \in Procs : pc[p] = "serving" => named = held[p]

(* Every start and every close comes to an end: the process serves, or has *)
(* given up, or is gone; no wait for a port is for ever.                   *)
StartEnds ==
  \A p \in Procs :
    (pc[p] \in Starting \cup Closing \cup Dropping) ~> (pc[p] \in {"serving", "ended", "dead"})

=============================================================================
