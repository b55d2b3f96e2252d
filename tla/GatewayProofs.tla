---------------------------- MODULE GatewayProofs ---------------------------
(***************************************************************************)
(* Proofs about Gateway, for any refreshes and requests, any size of the   *)
(* pool, and any world of services.                                        *)
(***************************************************************************)
EXTENDS Gateway, SequenceTheorems, TLAPS

-----------------------------------------------------------------------------
(* The inductive invariant *)

Services == UNION {Catalog[v] : v \in Versions}

Jobs == Workers \cup Clients

ShapeOK ==
  /\ registry \in Versions \cup {None}
  /\ wpc \in [Workers -> {"idle", "queued", "discovering", "found", "failed", "reporting"}]
  /\ found \in [Workers -> Versions \cup {None}]
  /\ rpc \in [Clients -> {"new", "queued", "lookup", "snapshot", "call", "waiting", "answered"}]
  /\ ask \in [Clients -> Asks \cup {None}]
  /\ target \in [Clients -> Services \cup {None}]
  /\ code \in [Clients -> {"none", "OK", "INTERNAL_ERROR", "INVALID_PARAMS", "METHOD_NOT_FOUND"}]
  /\ world \in Versions
  /\ phase \in [Clients -> Call!Phases]
  /\ effects \in [Clients -> {0, 1}]

(* The queue holds, once each, the jobs that wait for a thread.            *)
Waits(job) ==
  \/ job \in Workers /\ wpc[job] = "queued"
  \/ job \in Clients /\ rpc[job] = "queued"

QueueOK ==
  /\ queue \in Seq(Jobs)
  /\ \A i \in 1 .. Len(queue) : Waits(queue[i])
  /\ \A i, j \in 1 .. Len(queue) : queue[i] = queue[j] => i = j

(* What a refresh has found it can install, and what it will report is     *)
(* known since it was asked for.                                           *)
RefreshOK ==
  /\ \A w \in Workers : wpc[w] = "found" => found[w] # None
  /\ ReportsNothingOld

(* How far a request is, how far its registry.call is, whether the method  *)
(* has run, and what was answered.                                         *)
CallOK(r) ==
  /\ phase[r] \in {"new", "refused", "untouched"} => effects[r] = 0
  /\ phase[r] = "ran" => effects[r] = 1
  /\ rpc[r] = "waiting" <=> phase[r] = "open"
  /\ rpc[r] # "answered" => phase[r] \in {"new", "open"} /\ code[r] = "none"
  /\ rpc[r] = "answered" =>
       \/ phase[r] = "new" /\ code[r] = "METHOD_NOT_FOUND"
       \/ phase[r] \in {"refused", "lost"} /\ code[r] = Raised(r)
       \/ phase[r] = "ran" /\ code[r] \in {"OK", "INTERNAL_ERROR"}
       \/ phase[r] = "untouched" /\ code[r] \in {"INVALID_PARAMS", "METHOD_NOT_FOUND"}

IInv ==
  /\ ShapeOK
  /\ QueueOK
  /\ RefreshOK
  /\ RegistryStays
  /\ \A r \in Clients : CallOK(r)

LEMMA VersionFacts == 0 \in Versions /\ None \notin Versions
  BY GatewayAssumption

-----------------------------------------------------------------------------
(* The queue *)

LEMMA QueueKept ==
  ASSUME QueueOK, UNCHANGED queue, \A job \in Jobs : Waits(job) => Waits(job)'
  PROVE  QueueOK'
  BY DEF QueueOK

LEMMA JobSubmitted ==
  ASSUME QueueOK, NEW new \in Jobs, ~Waits(new), Submit(new), Waits(new)',
         \A job \in Jobs : Waits(job) => Waits(job)'
  PROVE  QueueOK'
<1>1. /\ queue' \in Seq(Jobs) /\ Len(queue') = Len(queue) + 1 /\ Len(queue) \in Nat
      /\ \A i \in 1 .. Len(queue') :
           \/ i \in 1 .. Len(queue) /\ queue'[i] = queue[i]
           \/ i = Len(queue) + 1 /\ queue'[i] = new
  BY DEF QueueOK, Submit
<1>2. \A i \in 1 .. Len(queue') : Waits(queue[i])'
  BY <1>1 DEF QueueOK
<1>3. \A i, j \in 1 .. Len(queue') : queue'[i] = queue'[j] => i = j
  BY <1>1 DEF QueueOK
<1> QED
  BY <1>1, <1>2, <1>3 DEF QueueOK

LEMMA FirstTaken ==
  ASSUME QueueOK, queue # <<>>, queue' = Tail(queue),
         \A job \in Jobs \ {Head(queue)} : Waits(job) => Waits(job)'
  PROVE  QueueOK'
<1>1. /\ queue' \in Seq(Jobs) /\ Len(queue') = Len(queue) - 1 /\ Len(queue) \in Nat \ {0}
      /\ Head(queue) = queue[1]
      /\ \A i \in 1 .. Len(queue') : i + 1 \in 1 .. Len(queue) /\ queue'[i] = queue[i + 1]
  BY DEF QueueOK
<1>2. \A i, j \in 1 .. Len(queue') : queue'[i] = queue'[j] => i = j
  BY <1>1 DEF QueueOK
<1>3. ASSUME NEW i \in 1 .. Len(queue')
      PROVE  Waits(queue[i])'
  <2>1. queue'[i] \in Jobs /\ Waits(queue'[i])
    BY <1>1 DEF QueueOK
  <2>2. queue[i + 1] # queue[1]
    BY <1>1 DEF QueueOK
  <2> QED
    BY <1>1, <2>1, <2>2
<1> QED
  BY <1>1, <1>2, <1>3 DEF QueueOK

(* RemoveFirst, on a sequence without duplicates.                          *)
LEMMA RemoveFirstParts ==
  ASSUME NEW S, NEW s \in Seq(S), NEW e,
         \A i, j \in 1 .. Len(s) : s[i] = s[j] => i = j
  PROVE  /\ RemoveFirst(s, e) \in Seq(S)
         /\ \A i \in 1 .. Len(RemoveFirst(s, e)) :
              RemoveFirst(s, e)[i] # e /\ \E k \in 1 .. Len(s) : RemoveFirst(s, e)[i] = s[k]
         /\ \A i, j \in 1 .. Len(RemoveFirst(s, e)) :
              RemoveFirst(s, e)[i] = RemoveFirst(s, e)[j] => i = j
<1>1. CASE ~ \E i \in 1 .. Len(s) : s[i] = e
  BY <1>1 DEF RemoveFirst
<1>2. CASE \E i \in 1 .. Len(s) : s[i] = e
  <2>1. PICK k \in 1 .. Len(s) : s[k] = e
    BY <1>2
  <2> DEFINE t == RemoveAt(s, k)
  <2>2. SelectInSeq(s, LAMBDA v : v = e) = k
    <3>1. {i \in 1 .. Len(s) : s[i] = e} = {k}
      BY <2>1
    <3>2. Min({k}) = k
      BY DEF Min
    <3> QED
      BY <3>1, <3>2 DEF SelectInSeq
  <2>3. RemoveFirst(s, e) = t
    BY <1>2, <2>2 DEF RemoveFirst
  <2>4. /\ t \in Seq(S) /\ Len(t) = Len(s) - 1 /\ Len(s) \in Nat
        /\ \A i \in 1 .. Len(t) :
             \/ i < k /\ t[i] = s[i]
             \/ i >= k /\ t[i] = s[i + 1]
    <3> DEFINE front == SubSeq(s, 1, k - 1)
               back == SubSeq(s, k + 1, Len(s))
    <3>1. /\ front \in Seq(S) /\ Len(front) = k - 1
          /\ \A i \in 1 .. Len(front) : front[i] = s[i]
      OBVIOUS
    <3>2. /\ back \in Seq(S) /\ Len(back) = Len(s) - k
          /\ \A i \in 1 .. Len(back) : back[i] = s[i + k]
      OBVIOUS
    <3>3. t = front \o back /\ k \in Nat /\ Len(s) \in Nat
      BY DEF RemoveAt
    <3> HIDE DEF front, back, t
    <3>4. /\ t \in Seq(S) /\ Len(t) = Len(front) + Len(back)
          /\ \A i \in 1 .. Len(front) + Len(back) :
               t[i] = IF i <= Len(front) THEN front[i] ELSE back[i - Len(front)]
      <4>1. front \in Seq(S) /\ back \in Seq(S)
        BY <3>1, <3>2
      <4>2. /\ front \o back \in Seq(S) /\ Len(front \o back) = Len(front) + Len(back)
            /\ \A i \in 1 .. Len(front) + Len(back) :
                 (front \o back)[i] = IF i <= Len(front) THEN front[i] ELSE back[i - Len(front)]
        BY <4>1, ConcatProperties
      <4> QED
        BY <3>3, <4>2, Zenon
    <3>5. Len(t) = Len(s) - 1
      BY <3>1, <3>2, <3>3, <3>4
    <3>6. ASSUME NEW i \in 1 .. Len(t)
          PROVE  \/ i < k /\ t[i] = s[i]
                 \/ i >= k /\ t[i] = s[i + 1]
      <4>1. CASE i < k
        BY <3>1, <3>3, <3>4, <3>5, <4>1, <3>2
      <4>2. CASE i >= k
        <5>1. i - (k - 1) \in 1 .. Len(back) /\ i - (k - 1) + k = i + 1
          BY <3>2, <3>3, <3>5, <4>2
        <5>2. t[i] = back[i - (k - 1)]
          <6>1. Len(front) = k - 1 /\ i \in Nat /\ ~(i <= k - 1)
            BY <3>1, <3>3, <3>5, <4>2
          <6>2. i \in 1 .. Len(front) + Len(back)
            BY <3>4
          <6>3. t[i] = back[i - Len(front)]
            BY <3>4, <6>1, <6>2
          <6> QED
            BY <6>1, <6>3
        <5> QED
          BY <3>2, <4>2, <5>1, <5>2
      <4> QED
        BY <3>3, <4>1, <4>2
    <3> QED
      BY <3>3, <3>4, <3>5, <3>6
  <2> HIDE DEF t
  <2>5. \A i \in 1 .. Len(t) : t[i] # e /\ \E j \in 1 .. Len(s) : t[i] = s[j]
    BY <2>1, <2>4
  <2>6. \A i, j \in 1 .. Len(t) : t[i] = t[j] => i = j
    BY <2>1, <2>4
  <2> QED
    BY <2>3, <2>4, <2>5, <2>6
<1> QED
  BY <1>1, <1>2

LEMMA LoopTaken ==
  ASSUME QueueOK, queue' = RemoveFirst(queue, Loop),
         \A job \in Jobs \ {Loop} : Waits(job) => Waits(job)'
  PROVE  QueueOK'
<1>1. queue \in Seq(Jobs) /\ \A i, j \in 1 .. Len(queue) : queue[i] = queue[j] => i = j
  BY DEF QueueOK
<1>2. /\ queue' \in Seq(Jobs)
      /\ \A i \in 1 .. Len(queue') : queue'[i] # Loop /\ \E k \in 1 .. Len(queue) : queue'[i] = queue[k]
      /\ \A i, j \in 1 .. Len(queue') : queue'[i] = queue'[j] => i = j
  BY <1>1, RemoveFirstParts
<1>3. ASSUME NEW i \in 1 .. Len(queue')
      PROVE  Waits(queue[i])'
  <2>1. PICK k \in 1 .. Len(queue) : queue'[i] = queue[k]
    BY <1>2
  <2>2. queue'[i] \in Jobs \ {Loop} /\ Waits(queue'[i])
    BY <1>2, <2>1 DEF QueueOK
  <2> QED
    BY <2>2
<1> QED
  BY <1>2, <1>3 DEF QueueOK

-----------------------------------------------------------------------------
(* Refreshes, the lifespan and the world *)

LEMMA InitInv == Init => IInv
<1> SUFFICES ASSUME Init PROVE IInv
  OBVIOUS
<1>1. ShapeOK
  <2>1. 0 \in Versions
    BY VersionFacts
  <2> QED
    BY <2>1 DEF Init, ShapeOK, Call!Init, Call!Phases
<1>2. QueueOK
  BY DEF Init, QueueOK
<1>3. RefreshOK /\ RegistryStays
  BY DEF Init, RefreshOK, ReportsNothingOld, RegistryStays, Workers
<1>4. \A r \in Clients : CallOK(r)
  BY DEF Init, CallOK, Call!Init
<1> QED
  BY <1>1, <1>2, <1>3, <1>4 DEF IInv

(* What does not touch the requests.                                       *)
LEMMA RequestsKept ==
  ASSUME IInv, UNCHANGED requests, ShapeOK', QueueOK', RefreshOK',
         registry # None => registry' # None
  PROVE  IInv'
<1>1. RegistryStays'
  BY DEF IInv, RegistryStays, requests
<1>2. \A r \in Clients : CallOK(r)'
  BY DEF IInv, CallOK, Raised, requests, calls
<1> QED
  BY <1>1, <1>2 DEF IInv

LEMMA BeginStep ==
  ASSUME IInv, NEW w \in Workers, Begin(w)
  PROVE  IInv'
<1>1. ShapeOK' /\ RefreshOK'
  BY DEF Begin, IInv, ShapeOK, RefreshOK, ReportsNothingOld, gateway, requests, calls
<1>2. QueueOK'
  <2>1. Submit(w) /\ w \in Jobs /\ ~Waits(w) /\ Waits(w)'
    BY GatewayAssumption DEF Begin, IInv, ShapeOK, Waits, Jobs
  <2>2. \A job \in Jobs : Waits(job) => Waits(job)'
    BY DEF Begin, IInv, ShapeOK, Waits, requests
  <2> QED
    BY <2>1, <2>2, JobSubmitted DEF IInv
<1> QED
  BY <1>1, <1>2, RequestsKept DEF Begin, gateway

LEMMA RefreshStep ==
  ASSUME IInv, NEW w \in Workers, RefreshNow(w) \/ Refreshing(w)
  PROVE  IInv'
<1>1. CASE RefreshNow(w)
  BY <1>1, BeginStep DEF RefreshNow
<1>2. ASSUME wpc[w] \in {"discovering", "found", "failed", "reporting"},
             wpc' = [wpc EXCEPT ![w] = wpc'[w]], UNCHANGED <<requests, queue>>
      PROVE  QueueOK'
  <2>1. \A job \in Jobs : Waits(job) => Waits(job)'
    BY <1>2 DEF IInv, ShapeOK, Waits, requests
  <2> QED
    BY <1>2, <2>1, QueueKept DEF IInv
<1>3. CASE Discover(w)
  <2>1. ShapeOK' /\ RefreshOK' /\ registry' = registry /\ wpc'[w] = "found"
    BY <1>3, VersionFacts DEF Discover, IInv, ShapeOK, RefreshOK, ReportsNothingOld, gateway, requests, calls
  <2>2. QueueOK'
    BY <1>2, <1>3, <2>1 DEF Discover
  <2> QED
    BY <1>3, <2>1, <2>2, RequestsKept DEF Discover
<1>4. CASE DiscoveryFails(w)
  <2>1. ShapeOK' /\ RefreshOK' /\ registry' = registry /\ wpc'[w] = "failed"
    BY <1>4 DEF DiscoveryFails, IInv, ShapeOK, RefreshOK, ReportsNothingOld, gateway, requests, calls
  <2>2. QueueOK'
    BY <1>2, <1>4, <2>1 DEF DiscoveryFails
  <2> QED
    BY <1>4, <2>1, <2>2, RequestsKept DEF DiscoveryFails
<1>5. ASSUME NEW outcome, Finish(w, outcome), wpc[w] \in {"found", "failed"},
             registry' \in Versions \cup {None}, registry # None => registry' # None,
             outcome = IF last_error' THEN None ELSE registry'
      PROVE  IInv'
  <2>1. /\ wpc' = [wpc EXCEPT ![w] = "reporting"] /\ wpc'[w] = "reporting"
        /\ found' = [found EXCEPT ![w] = None]
        /\ \A u \in Workers \ {w} : wpc'[u] = wpc[u] /\ found'[u] = found[u]
        /\ UNCHANGED <<requests, queue, world>>
    BY <1>5 DEF Finish, IInv, ShapeOK
  <2>2. ShapeOK'
    BY <1>5, <2>1 DEF IInv, ShapeOK, requests, calls
  <2>3. ReportsNothingOld'
    <3> SUFFICES ASSUME NEW u \in Others, wpc'[u] = "reporting"
                 PROVE  outcome \in since'[u]
      BY <1>5 DEF ReportsNothingOld
    <3>1. u \in Workers /\ wpc[u] # "idle"
      BY <1>5, <2>1 DEF Workers
    <3>2. since'[u] = since[u] \cup {outcome}
      BY <1>5, <3>1 DEF Finish
    <3> QED
      BY <3>2
  <2>4. RefreshOK'
    BY <2>1, <2>3 DEF IInv, RefreshOK
  <2>5. QueueOK'
    BY <1>2, <1>5, <2>1
  <2> QED
    BY <1>5, <2>1, <2>2, <2>4, <2>5, RequestsKept
<1>6. CASE Install(w)
  <2>1. found[w] \in Versions /\ found[w] # None
    BY <1>6 DEF Install, IInv, ShapeOK, RefreshOK
  <2> QED
    BY <1>5, <1>6, <2>1 DEF Install
<1>7. CASE RecordError(w)
  BY <1>5, <1>7 DEF RecordError, IInv, ShapeOK
<1>8. CASE Report(w)
  <2>1. /\ wpc[w] = "reporting" /\ wpc' = [wpc EXCEPT ![w] = "idle"]
        /\ UNCHANGED <<gateway, found, requests, queue, world>>
    BY <1>8 DEF Report
  <2>2. ShapeOK'
    BY <2>1 DEF IInv, ShapeOK, gateway, requests, calls
  <2>3. RefreshOK'
    <3>1. wpc'[w] = "idle" /\ \A u \in Workers \ {w} : wpc'[u] = wpc[u]
      BY <2>1 DEF IInv, ShapeOK
    <3>2. \A u \in Others \ {w} : since'[u] = since[u]
      BY <1>8 DEF Report
    <3> QED
      BY <2>1, <3>1, <3>2 DEF IInv, RefreshOK, ReportsNothingOld, gateway, Workers
  <2>4. QueueOK'
    BY <1>2, <2>1
  <2> QED
    BY <2>1, <2>2, <2>3, <2>4, RequestsKept DEF gateway
<1> QED
  BY <1>1, <1>3, <1>4, <1>6, <1>7, <1>8 DEF Refreshing

LEMMA LifespanStep ==
  ASSUME IInv, AppLoop \/ Shutdown \/ WorldChanges
  PROVE  IInv'
<1> USE DEF Workers
<1>1. CASE StartupRefresh \/ LoopRefresh
  BY <1>1, BeginStep DEF StartupRefresh, LoopRefresh
<1>2. CASE Started \/ LoopRefreshed \/ LoopWaited \/ LoopStops \/ Stopped
  <2>1. UNCHANGED <<gateway, refreshes, requests, queue, world>>
    BY <1>2 DEF Started, LoopRefreshed, LoopWaited, LoopStops, Stopped
  <2>2. ShapeOK' /\ RefreshOK' /\ QueueOK'
    BY <2>1 DEF IInv, ShapeOK, RefreshOK, ReportsNothingOld, QueueOK, Waits, gateway, refreshes, requests, calls
  <2> QED
    BY <2>1, <2>2, RequestsKept DEF gateway
<1>3. CASE Shutdown
  <2>1. ShapeOK' /\ RefreshOK'
    BY <1>3 DEF Shutdown, IInv, ShapeOK, RefreshOK, ReportsNothingOld, gateway, requests, calls
  <2>2. \A job \in Jobs \ {Loop} : Waits(job) => Waits(job)'
    BY <1>3 DEF Shutdown, IInv, ShapeOK, Waits, requests
  <2>3. QueueOK'
    BY <1>3, <2>2, LoopTaken DEF Shutdown, IInv
  <2> QED
    BY <1>3, <2>1, <2>3, RequestsKept DEF Shutdown, gateway
<1>4. CASE WorldChanges
  <2>1. ShapeOK' /\ RefreshOK' /\ QueueOK'
    BY <1>4 DEF WorldChanges, IInv, ShapeOK, RefreshOK, ReportsNothingOld, QueueOK, Waits, gateway, refreshes,
                requests, calls
  <2> QED
    BY <1>4, <2>1, RequestsKept DEF WorldChanges, gateway
<1> QED
  BY <1>1, <1>2, <1>3, <1>4 DEF AppLoop

LEMMA StartStep ==
  ASSUME IInv, Start
  PROVE  IInv'
<1> DEFINE job == Head(queue)
<1>1. queue \in Seq(Jobs) /\ queue # <<>> /\ job = queue[1] /\ 1 \in 1 .. Len(queue)
  BY DEF Start, IInv, QueueOK
<1>2. job \in Jobs /\ Waits(job)
  BY <1>1 DEF IInv, QueueOK
<1> HIDE DEF job
<1>3. CASE job \in Workers
  <2>1. wpc' = [wpc EXCEPT ![job] = "discovering"] /\ UNCHANGED <<gateway, found, since, requests, world>>
    BY <1>3 DEF Start, job, requests
  <2>2. ShapeOK' /\ RefreshOK'
    BY <1>3, <2>1 DEF IInv, ShapeOK, RefreshOK, ReportsNothingOld, gateway, requests, calls
  <2>3. \A k \in Jobs \ {job} : Waits(k) => Waits(k)'
    BY <1>3, <2>1 DEF IInv, ShapeOK, Waits, requests
  <2>4. QueueOK'
    BY <1>1, <2>3, FirstTaken DEF Start, job, IInv
  <2> QED
    BY <2>1, <2>2, <2>4, RequestsKept DEF gateway
<1>4. CASE job \notin Workers
  <2>1. /\ job \in Clients /\ rpc[job] = "queued" /\ rpc' = [rpc EXCEPT ![job] = "lookup"]
        /\ UNCHANGED <<gateway, refreshes, ask, target, code, calls, world>>
    BY <1>2, <1>4 DEF Start, job, Waits, Jobs, refreshes
  <2>2. ShapeOK' /\ RefreshOK'
    BY <2>1 DEF IInv, ShapeOK, RefreshOK, ReportsNothingOld, gateway, refreshes, calls
  <2>3. \A k \in Jobs \ {job} : Waits(k) => Waits(k)'
    BY <2>1 DEF IInv, ShapeOK, Waits, refreshes
  <2>4. QueueOK'
    BY <1>1, <2>3, FirstTaken DEF Start, job, IInv
  <2>5. RegistryStays'
    BY <2>1 DEF IInv, ShapeOK, RegistryStays, gateway
  <2>6. \A r \in Clients : CallOK(r)'
    BY <2>1 DEF IInv, ShapeOK, CallOK, Raised, calls
  <2> QED
    BY <2>2, <2>4, <2>5, <2>6 DEF IInv
<1> QED
  BY <1>3, <1>4

-----------------------------------------------------------------------------
(* Requests *)

(* What touches one request, and nothing of the refreshes.                 *)
LEMMA OneRequest ==
  ASSUME IInv, NEW r \in Clients, UNCHANGED <<gateway, refreshes>>, ShapeOK', QueueOK',
         \A q \in Clients \ {r} :
           /\ rpc'[q] = rpc[q] /\ ask'[q] = ask[q] /\ code'[q] = code[q]
           /\ phase'[q] = phase[q] /\ effects'[q] = effects[q],
         rpc'[r] = "snapshot" => registry # None,
         CallOK(r)'
  PROVE  IInv'
<1>1. RefreshOK'
  BY DEF IInv, RefreshOK, ReportsNothingOld, gateway, refreshes
<1>2. RegistryStays'
  BY DEF IInv, RegistryStays, gateway
<1>3. \A q \in Clients : CallOK(q)'
  BY DEF IInv, CallOK, Raised
<1> QED
  BY <1>1, <1>2, <1>3 DEF IInv

(* A request that has a thread is in the queue no more.                    *)
LEMMA NotInQueue ==
  ASSUME IInv, NEW r \in Clients, UNCHANGED <<queue, wpc>>,
         rpc[r] # "queued" \/ rpc' = rpc,
         \A q \in Clients \ {r} : rpc'[q] = rpc[q]
  PROVE  QueueOK'
<1>1. \A job \in Jobs : Waits(job) => Waits(job)'
  BY DEF Waits
<1> QED
  BY <1>1, QueueKept DEF IInv

LEMMA ArriveStep ==
  ASSUME IInv, NEW r \in Clients, Arrive(r)
  PROVE  IInv'
<1>1. /\ UNCHANGED <<gateway, refreshes, target, code, phase, effects, world>>
      /\ rpc[r] = "new" /\ rpc' = [rpc EXCEPT ![r] = "queued"]
      /\ Submit(r)
  BY DEF Arrive, calls
<1>2. PICK a \in Asks : ask' = [ask EXCEPT ![r] = a]
  BY DEF Arrive
<1>3. ShapeOK'
  BY <1>1, <1>2 DEF IInv, ShapeOK, gateway, refreshes
<1>4. QueueOK'
  <2>1. r \in Jobs /\ ~Waits(r) /\ Waits(r)'
    BY <1>1, GatewayAssumption DEF IInv, ShapeOK, Waits, Jobs
  <2>2. \A job \in Jobs : Waits(job) => Waits(job)'
    BY <1>1 DEF IInv, ShapeOK, Waits, refreshes
  <2> QED
    BY <1>1, <2>1, <2>2, JobSubmitted DEF IInv
<1>5. CallOK(r)' /\ rpc'[r] # "snapshot"
  BY <1>1, <1>2 DEF IInv, ShapeOK, CallOK
<1>6. \A q \in Clients \ {r} : rpc'[q] = rpc[q] /\ ask'[q] = ask[q]
  BY <1>1, <1>2 DEF IInv, ShapeOK
<1> QED
  BY <1>1, <1>3, <1>4, <1>5, <1>6, OneRequest

LEMMA ReplyParts ==
  ASSUME ShapeOK, NEW r \in Clients, NEW answer, Reply(r, answer),
         answer \in {"OK", "INTERNAL_ERROR", "INVALID_PARAMS", "METHOD_NOT_FOUND"}
  PROVE  /\ UNCHANGED <<gateway, refreshes, queue, ask, target, world>>
         /\ code' = [code EXCEPT ![r] = answer] /\ code'[r] = answer
         /\ rpc' = [rpc EXCEPT ![r] = "answered"] /\ rpc'[r] = "answered"
         /\ \A q \in Clients \ {r} : rpc'[q] = rpc[q] /\ code'[q] = code[q]
  BY DEF Reply, ShapeOK

(* An answer, and what it makes of registry.call.                          *)
LEMMA AnswerStep ==
  ASSUME IInv, NEW r \in Clients, NEW answer, Reply(r, answer),
         answer \in {"OK", "INTERNAL_ERROR", "INVALID_PARAMS", "METHOD_NOT_FOUND"},
         rpc[r] # "queued",
         NEW to \in Call!Phases, phase' = [phase EXCEPT ![r] = to], UNCHANGED effects,
         \/ to = "new" /\ answer = "METHOD_NOT_FOUND" /\ effects[r] = 0
         \/ to = "refused" /\ answer = Raised(r) /\ effects[r] = 0
         \/ to = "lost" /\ answer = Raised(r)
         \/ to = "ran" /\ answer \in {"OK", "INTERNAL_ERROR"} /\ effects[r] = 1
         \/ to = "untouched" /\ answer \in {"INVALID_PARAMS", "METHOD_NOT_FOUND"} /\ effects[r] = 0
  PROVE  IInv'
<1>1. /\ UNCHANGED <<gateway, refreshes, queue, ask, target, world>>
      /\ code' = [code EXCEPT ![r] = answer] /\ code'[r] = answer
      /\ rpc' = [rpc EXCEPT ![r] = "answered"] /\ rpc'[r] = "answered"
      /\ \A q \in Clients \ {r} : rpc'[q] = rpc[q] /\ code'[q] = code[q]
  BY ReplyParts DEF IInv
<1>2. phase'[r] = to /\ \A q \in Clients \ {r} : phase'[q] = phase[q]
  BY DEF IInv, ShapeOK
<1>3. ShapeOK'
  BY <1>1 DEF IInv, ShapeOK, gateway, refreshes
<1>4. QueueOK'
  BY <1>1, NotInQueue DEF refreshes
<1>5. CallOK(r)'
  BY <1>1, <1>2 DEF IInv, ShapeOK, CallOK, Raised
<1> QED
  BY <1>1, <1>2, <1>3, <1>4, <1>5, OneRequest

LEMMA RaisedAnswers == \A r : Raised(r) \in {"METHOD_NOT_FOUND", "INTERNAL_ERROR"}
  BY DEF Raised

LEMMA PhaseNames ==
  {"new", "open", "refused", "lost", "ran", "untouched"} = Call!Phases
  BY DEF Call!Phases

LEMMA AnsweringStep ==
  ASSUME IInv, NEW r \in Clients,
         LookupFails(r) \/ CallRefused(r) \/ CallReturns(r) \/ CallLost(r)
  PROVE  IInv'
<1>1. phase \in [Clients -> Call!Phases] /\ CallOK(r)
  BY DEF IInv, ShapeOK
<1>2. CASE LookupFails(r)
  <2>1. phase[r] = "new" /\ effects[r] = 0
    BY <1>1, <1>2 DEF LookupFails, CallOK
  <2>2. phase' = [phase EXCEPT ![r] = "new"] /\ UNCHANGED effects
    BY <1>1, <1>2, <2>1 DEF LookupFails, calls
  <2> QED
    BY <1>2, <2>1, <2>2, AnswerStep, PhaseNames DEF LookupFails
<1>3. CASE CallRefused(r)
  <2>1. phase[r] = "new" /\ phase' = [phase EXCEPT ![r] = "refused"] /\ UNCHANGED effects
    BY <1>3 DEF CallRefused, Call!Refuse, Call!Turn
  <2> QED
    BY <1>1, <1>3, <2>1, AnswerStep, PhaseNames, RaisedAnswers DEF CallRefused, CallOK
<1>4. CASE CallReturns(r)
  <2>1. CASE Call!AnswerRan(r) /\ \E answer \in {"OK", "INTERNAL_ERROR"} : Reply(r, answer)
    <3>1. effects[r] = 1 /\ phase' = [phase EXCEPT ![r] = "ran"] /\ UNCHANGED effects
      BY <2>1 DEF Call!AnswerRan, Call!Turn
    <3>2. PICK answer \in {"OK", "INTERNAL_ERROR"} : Reply(r, answer)
      BY <2>1
    <3> QED
      BY <1>4, <3>1, <3>2, AnswerStep, PhaseNames DEF CallReturns
  <2>2. CASE /\ Call!AnswerUntouched(r)
             /\ Reply(r, IF Served(r) THEN "INVALID_PARAMS" ELSE "METHOD_NOT_FOUND")
    <3>1. effects[r] = 0 /\ phase' = [phase EXCEPT ![r] = "untouched"] /\ UNCHANGED effects
      BY <2>2 DEF Call!AnswerUntouched, Call!Turn
    <3>2. PICK answer \in {"INVALID_PARAMS", "METHOD_NOT_FOUND"} : Reply(r, answer)
      BY <2>2
    <3> QED
      BY <1>4, <3>1, <3>2, AnswerStep, PhaseNames DEF CallReturns
  <2> QED
    BY <1>4, <2>1, <2>2 DEF CallReturns
<1>5. CASE CallLost(r)
  <2>1. phase' = [phase EXCEPT ![r] = "lost"] /\ UNCHANGED effects
    BY <1>5 DEF CallLost, Call!Lose, Call!Turn
  <2> QED
    BY <1>5, <2>1, AnswerStep, PhaseNames, RaisedAnswers DEF CallLost
<1> QED
  BY <1>2, <1>3, <1>4, <1>5

LEMMA FindingStep ==
  ASSUME IInv, NEW r \in Clients, LookupFinds(r)
  PROVE  IInv'
<1>1. /\ UNCHANGED <<gateway, refreshes, ask, code, phase, effects, queue, world>>
      /\ rpc[r] = "lookup"
      /\ rpc' = [rpc EXCEPT ![r] = IF ask[r].route = "rpc" THEN "call" ELSE "snapshot"]
  BY DEF LookupFinds, calls
<1>2. PICK s \in Matching(ask[r]) : target' = [target EXCEPT ![r] = s]
  BY DEF LookupFinds
<1>3. registry # None /\ s \in Services
  BY DEF Matching, IInv, ShapeOK, Services
<1>4. ShapeOK'
  BY <1>1, <1>2, <1>3 DEF IInv, ShapeOK, gateway, refreshes
<1>5. rpc'[r] \in {"call", "snapshot"} /\ \A q \in Clients \ {r} : rpc'[q] = rpc[q]
  BY <1>1 DEF IInv, ShapeOK
<1>6. QueueOK'
  BY <1>1, <1>5, NotInQueue DEF refreshes
<1>7. CallOK(r)'
  BY <1>1, <1>5 DEF IInv, CallOK, Raised
<1> QED
  BY <1>1, <1>3, <1>4, <1>5, <1>6, <1>7, OneRequest

LEMMA SnapshotStep ==
  ASSUME IInv, NEW r \in Clients, SecondSnapshot(r)
  PROVE  IInv'
<1>1. /\ UNCHANGED <<gateway, refreshes, ask, target, code, phase, effects, queue, world>>
      /\ rpc[r] = "snapshot" /\ rpc' = [rpc EXCEPT ![r] = "call"]
  BY DEF SecondSnapshot, calls, IInv, ShapeOK, RegistryStays
<1>2. ShapeOK'
  BY <1>1 DEF IInv, ShapeOK, gateway, refreshes
<1>3. rpc'[r] = "call" /\ \A q \in Clients \ {r} : rpc'[q] = rpc[q]
  BY <1>1 DEF IInv, ShapeOK
<1>4. QueueOK'
  BY <1>1, <1>3, NotInQueue DEF refreshes
<1>5. CallOK(r)'
  BY <1>1, <1>3 DEF IInv, CallOK, Raised
<1> QED
  BY <1>1, <1>2, <1>3, <1>4, <1>5, OneRequest

LEMMA SentStep ==
  ASSUME IInv, NEW r \in Clients, CallSent(r)
  PROVE  IInv'
<1>1. /\ UNCHANGED <<gateway, refreshes, ask, target, code, effects, queue, world>>
      /\ rpc[r] = "call" /\ rpc' = [rpc EXCEPT ![r] = "waiting"]
      /\ phase[r] = "new" /\ phase' = [phase EXCEPT ![r] = "open"]
  BY DEF CallSent, Call!Invoke, Call!Turn
<1>2. ShapeOK'
  BY <1>1, PhaseNames DEF IInv, ShapeOK, gateway, refreshes
<1>3. /\ rpc'[r] = "waiting" /\ phase'[r] = "open"
      /\ \A q \in Clients \ {r} : rpc'[q] = rpc[q] /\ phase'[q] = phase[q]
  BY <1>1 DEF IInv, ShapeOK
<1>4. QueueOK'
  BY <1>1, <1>3, NotInQueue DEF refreshes
<1>5. CallOK(r)'
  BY <1>1, <1>3 DEF IInv, CallOK, Raised
<1> QED
  BY <1>1, <1>2, <1>3, <1>4, <1>5, OneRequest

LEMMA RunsStep ==
  ASSUME IInv, NEW r \in Clients, Runs(r)
  PROVE  IInv'
<1>1. /\ UNCHANGED <<gateway, refreshes, rpc, ask, target, code, phase, queue, world>>
      /\ phase[r] \in {"open", "lost"} /\ effects' = [effects EXCEPT ![r] = 1]
  BY DEF Runs, Call!Execute
<1>2. ShapeOK'
  BY <1>1 DEF IInv, ShapeOK, gateway, refreshes
<1>3. \A q \in Clients \ {r} : effects'[q] = effects[q]
  BY <1>1 DEF IInv, ShapeOK
<1>4. QueueOK'
  BY <1>1, NotInQueue DEF refreshes
<1>5. CallOK(r)' /\ (rpc'[r] = "snapshot" => registry # None)
  BY <1>1 DEF IInv, CallOK, Raised, RegistryStays
<1> QED
  BY <1>1, <1>2, <1>3, <1>4, <1>5, OneRequest

LEMMA NextInv == IInv /\ [Next]_vars => IInv'
<1> SUFFICES ASSUME IInv, [Next]_vars PROVE IInv'
  OBVIOUS
<1>1. CASE \E w \in Workers : RefreshNow(w) \/ Refreshing(w)
  BY <1>1, RefreshStep
<1>2. CASE AppLoop \/ Shutdown \/ WorldChanges
  BY <1>2, LifespanStep
<1>3. CASE Start
  BY <1>3, StartStep
<1>4. CASE \E r \in Clients : Arrive(r) \/ Serving(r) \/ Runs(r)
  BY <1>4, ArriveStep, AnsweringStep, FindingStep, SnapshotStep, SentStep, RunsStep DEF Serving
<1>5. CASE UNCHANGED vars
  <2>1. UNCHANGED requests /\ ShapeOK' /\ QueueOK' /\ RefreshOK' /\ UNCHANGED registry
    BY <1>5 DEF vars, IInv, ShapeOK, QueueOK, Waits, RefreshOK, ReportsNothingOld, gateway, refreshes, requests, calls
  <2> QED
    BY <2>1, RequestsKept
<1> QED
  BY <1>1, <1>2, <1>3, <1>4, <1>5 DEF Next

(* Refreshes, queue, requests and their calls fit together, for any number *)
(* of refreshes and requests, any size of the pool and any world.          *)
THEOREM Invariance == Spec => []IInv
  BY InitInv, NextInv, PTL DEF Spec

(* However the refreshes overlap, the answer to a POST /refresh is about   *)
(* no refresh that finished before it was asked for.                       *)
THEOREM ReportsAreCurrent == Spec => []ReportsNothingOld
<1>1. IInv => ReportsNothingOld
  BY DEF IInv, RefreshOK
<1> QED
  BY <1>1, Invariance, PTL

(* No refresh takes the registry away between a controller route's two     *)
(* snapshots.                                                              *)
THEOREM RegistryAlwaysStays == Spec => []RegistryStays
<1>1. IInv => RegistryStays
  BY DEF IInv
<1> QED
  BY <1>1, Invariance, PTL

(* "Method not found" and "invalid params" mean that the method has not    *)
(* run for the request and will not, OK that it has.                       *)
THEOREM RefusalsAreTrue == Spec => []RefusalMeansNotRun
<1>1. IInv => RefusalMeansNotRun
  <2> SUFFICES ASSUME IInv, NEW r \in Clients
               PROVE  /\ code[r] = "OK" => effects[r] = 1
                      /\ code[r] = "INVALID_PARAMS"
                           \/ (code[r] = "METHOD_NOT_FOUND" /\ ask[r].route # "rpc") =>
                           effects[r] = 0 /\ phase[r] \notin {"open", "lost"}
    BY DEF RefusalMeansNotRun
  <2>1. CallOK(r) /\ rpc[r] \in {"new", "queued", "lookup", "snapshot", "call", "waiting", "answered"}
    BY DEF IInv, ShapeOK
  <2> QED
    BY <2>1 DEF CallOK, Raised
<1> QED
  BY <1>1, Invariance, PTL

-----------------------------------------------------------------------------
(* The gateway hands on the promise *)

(* Told, case by case.                                                     *)
LEMMA ToldCases ==
  ASSUME NEW r \in Clients
  PROVE  /\ code[r] = "OK" => Told[r] = "ran"
         /\ code[r] = "INVALID_PARAMS" => Told[r] = "untouched"
         /\ code[r] = "INTERNAL_ERROR" => Told[r] = "lost"
         /\ code[r] = "METHOD_NOT_FOUND" =>
              Told[r] = IF ask[r].route = "rpc" THEN "lost"
                        ELSE IF phase[r] = "new" THEN "refused" ELSE "untouched"
         /\ code[r] = "none" =>
              Told[r] = IF rpc[r] \in {"call", "waiting"} \/ (rpc[r] = "lookup" /\ ask[r].route = "rpc")
                          THEN "open" ELSE "new"
  BY DEF Told

LEMMA ToldCasesNext ==
  ASSUME NEW r \in Clients
  PROVE  /\ code'[r] = "OK" => Told'[r] = "ran"
         /\ code'[r] = "INVALID_PARAMS" => Told'[r] = "untouched"
         /\ code'[r] = "INTERNAL_ERROR" => Told'[r] = "lost"
         /\ code'[r] = "METHOD_NOT_FOUND" =>
              Told'[r] = IF ask'[r].route = "rpc" THEN "lost"
                         ELSE IF phase'[r] = "new" THEN "refused" ELSE "untouched"
         /\ code'[r] = "none" =>
              Told'[r] = IF rpc'[r] \in {"call", "waiting"} \/ (rpc'[r] = "lookup" /\ ask'[r].route = "rpc")
                           THEN "open" ELSE "new"
  BY DEF Told

LEMMA SameTold ==
  ASSUME NEW r \in Clients,
         rpc'[r] = rpc[r], ask'[r] = ask[r], code'[r] = code[r], phase'[r] = phase[r]
  PROVE  Told'[r] = Told[r]
  BY DEF Told

LEMMA Stutters ==
  ASSUME UNCHANGED effects, \A r \in Clients : Told'[r] = Told[r]
  PROVE  UNCHANGED Http!vars
  BY DEF Told, Http!vars

(* A step that tells one client something, and runs nothing.               *)
LEMMA OneTold ==
  ASSUME NEW r \in Clients, NEW from, NEW to, UNCHANGED effects,
         \A q \in Clients \ {r} : Told'[q] = Told[q],
         Told[r] = from, Told'[r] = to
  PROVE  Http!Turn(r, from, to)
<1>1. Told = [q \in Clients |-> Told[q]] /\ Told' = [q \in Clients |-> Told'[q]]
  BY DEF Told
<1>2. Told' = [Told EXCEPT ![r] = to]
  BY <1>1
<1> QED
  BY <1>2 DEF Http!Turn

LEMMA InitTold == Init => Http!Init
<1> SUFFICES ASSUME Init PROVE Http!Init
  OBVIOUS
<1>1. \A r \in Clients : Told[r] = "new"
  BY ToldCases DEF Init
<1>2. Told = [r \in Clients |-> "new"]
  BY <1>1 DEF Told
<1> QED
  BY <1>2 DEF Init, Call!Init, Http!Init

(* A request on /rpc counts as invoked once a thread looks it up.          *)
LEMMA StartTells ==
  ASSUME IInv, Start
  PROVE  Http!Next \/ UNCHANGED Http!vars
<1> DEFINE job == Head(queue)
<1>1. queue \in Seq(Jobs) /\ queue # <<>> /\ job = queue[1] /\ 1 \in 1 .. Len(queue)
  BY DEF Start, IInv, QueueOK
<1>2. job \in Jobs /\ Waits(job)
  BY <1>1 DEF IInv, QueueOK
<1>3. UNCHANGED <<ask, code, phase, effects>>
  BY DEF Start, calls
<1> HIDE DEF job
<1>4. CASE UNCHANGED rpc
  <2>1. \A r \in Clients : Told'[r] = Told[r]
    BY <1>3, <1>4, SameTold
  <2> QED
    BY <1>3, <2>1, Stutters
<1>5. CASE job \notin Workers
  <2>1. job \in Clients /\ rpc[job] = "queued" /\ rpc' = [rpc EXCEPT ![job] = "lookup"]
    BY <1>2, <1>5 DEF Start, job, Waits, Jobs
  <2>2. rpc'[job] = "lookup" /\ \A q \in Clients \ {job} : rpc'[q] = rpc[q]
    BY <2>1 DEF IInv, ShapeOK
  <2>3. \A q \in Clients \ {job} : Told'[q] = Told[q]
    BY <1>3, <2>2, SameTold
  <2>4. code[job] = "none" /\ code'[job] = "none"
    BY <1>3, <2>1 DEF IInv, CallOK
  <2>5. Told[job] = "new" /\ Told'[job] = IF ask[job].route = "rpc" THEN "open" ELSE "new"
    BY <1>3, <2>1, <2>2, <2>4, ToldCases, ToldCasesNext
  <2>6. CASE ask[job].route = "rpc"
    <3>1. Http!Turn(job, "new", "open")
      BY <1>3, <2>1, <2>3, <2>5, <2>6, OneTold
    <3> QED
      BY <2>1, <3>1 DEF Http!Next, Http!Invoke
  <2>7. CASE ask[job].route # "rpc"
    <3>1. \A r \in Clients : Told'[r] = Told[r]
      BY <2>3, <2>5, <2>7
    <3> QED
      BY <1>3, <3>1, Stutters
  <2> QED
    BY <2>6, <2>7
<1> QED
  BY <1>4, <1>5 DEF Start, job

(* Steps of a request before its answer.                                   *)
LEMMA UnansweredTells ==
  ASSUME IInv, NEW r \in Clients, Arrive(r) \/ LookupFinds(r) \/ SecondSnapshot(r) \/ CallSent(r)
  PROVE  Http!Next \/ UNCHANGED Http!vars
<1>1. UNCHANGED <<code, effects>>
  BY DEF Arrive, LookupFinds, SecondSnapshot, CallSent, Call!Invoke, Call!Turn, calls,
         IInv, ShapeOK, RegistryStays
<1>2. \A q \in Clients \ {r} : rpc'[q] = rpc[q] /\ ask'[q] = ask[q] /\ phase'[q] = phase[q]
  <2>1. CASE Arrive(r)
    BY <2>1 DEF Arrive, calls, IInv, ShapeOK
  <2>2. CASE LookupFinds(r)
    BY <2>2 DEF LookupFinds, calls, IInv, ShapeOK
  <2>3. CASE SecondSnapshot(r)
    BY <2>3 DEF SecondSnapshot, calls, IInv, ShapeOK
  <2>4. CASE CallSent(r)
    BY <2>4 DEF CallSent, Call!Invoke, Call!Turn, IInv, ShapeOK
  <2> QED
    BY <2>1, <2>2, <2>3, <2>4
<1>3. \A q \in Clients \ {r} : Told'[q] = Told[q]
  BY <1>1, <1>2, SameTold
<1>4. CASE Told'[r] = Told[r]
  BY <1>1, <1>3, <1>4, Stutters
<1>5. rpc[r] # "answered" => code[r] = "none" /\ code'[r] = "none"
  BY <1>1 DEF IInv, CallOK
<1>6. CASE Arrive(r)
  <2>1. rpc[r] = "new" /\ rpc'[r] = "queued"
    BY <1>6 DEF Arrive, IInv, ShapeOK
  <2> QED
    BY <1>4, <1>5, <2>1, ToldCases, ToldCasesNext
<1>7. CASE LookupFinds(r)
  <2>1. /\ rpc[r] = "lookup" /\ ask' = ask
        /\ rpc'[r] = IF ask[r].route = "rpc" THEN "call" ELSE "snapshot"
    BY <1>7 DEF LookupFinds, IInv, ShapeOK
  <2> QED
    BY <1>4, <1>5, <2>1, ToldCases, ToldCasesNext
<1>8. CASE SecondSnapshot(r)
  <2>1. rpc[r] = "snapshot" /\ rpc'[r] = "call"
    BY <1>8 DEF SecondSnapshot, IInv, ShapeOK, RegistryStays
  <2>2. Told[r] = "new" /\ Told'[r] = "open"
    BY <1>5, <2>1, ToldCases, ToldCasesNext
  <2>3. Http!Turn(r, "new", "open")
    BY <1>1, <1>3, <2>2, OneTold
  <2> QED
    BY <2>3 DEF Http!Next, Http!Invoke
<1>9. CASE CallSent(r)
  <2>1. rpc[r] = "call" /\ rpc'[r] = "waiting"
    BY <1>9 DEF CallSent, IInv, ShapeOK
  <2> QED
    BY <1>4, <1>5, <2>1, ToldCases, ToldCasesNext
<1> QED
  BY <1>6, <1>7, <1>8, <1>9

(* The answers.                                                            *)
LEMMA AnswerTells ==
  ASSUME IInv, NEW r \in Clients,
         LookupFails(r) \/ CallRefused(r) \/ CallReturns(r) \/ CallLost(r)
  PROVE  Http!Next \/ UNCHANGED Http!vars
<1>1. rpc[r] \in {"lookup", "call", "waiting"} /\ code[r] = "none"
  BY DEF LookupFails, CallRefused, CallReturns, CallLost, IInv, CallOK
<1>2. UNCHANGED <<effects, ask>>
  BY DEF LookupFails, CallRefused, CallReturns, CallLost, Reply, calls, Call!Refuse,
         Call!AnswerRan, Call!AnswerUntouched, Call!Lose, Call!Turn
<1>3. Told[r] = IF rpc[r] = "lookup" /\ ask[r].route # "rpc" THEN "new" ELSE "open"
  BY <1>1, ToldCases
<1>4. \A q \in Clients \ {r} : phase'[q] = phase[q]
  BY DEF LookupFails, CallRefused, CallReturns, CallLost, calls, Call!Refuse,
         Call!AnswerRan, Call!AnswerUntouched, Call!Lose, Call!Turn, IInv, ShapeOK
<1>5. ASSUME NEW answer \in {"OK", "INTERNAL_ERROR", "INVALID_PARAMS", "METHOD_NOT_FOUND"},
             Reply(r, answer)
      PROVE  code'[r] = answer /\ \A q \in Clients \ {r} : Told'[q] = Told[q]
  <2>1. /\ code'[r] = answer
        /\ \A q \in Clients \ {r} : rpc'[q] = rpc[q] /\ code'[q] = code[q]
    BY <1>5, ReplyParts DEF IInv
  <2> QED
    BY <1>2, <1>4, <2>1, SameTold
<1>6. ASSUME Told[r] = "open", Told'[r] = "lost", \A q \in Clients \ {r} : Told'[q] = Told[q]
      PROVE  Http!Next
  <2>1. Http!Turn(r, "open", "lost")
    BY <1>2, <1>6, OneTold
  <2> QED
    BY <2>1 DEF Http!Next, Http!Lose
<1>7. CASE LookupFails(r)
  <2>1. Reply(r, "METHOD_NOT_FOUND") /\ rpc[r] = "lookup" /\ UNCHANGED phase
    BY <1>7 DEF LookupFails, calls
  <2>2. phase[r] = "new" /\ phase'[r] = "new"
    BY <2>1 DEF IInv, CallOK
  <2>3. code'[r] = "METHOD_NOT_FOUND" /\ \A q \in Clients \ {r} : Told'[q] = Told[q]
    BY <1>5, <2>1
  <2>4. Told'[r] = IF ask[r].route = "rpc" THEN "lost" ELSE "refused"
    BY <1>2, <2>2, <2>3, ToldCasesNext
  <2>5. CASE ask[r].route = "rpc"
    BY <1>3, <1>6, <2>3, <2>4, <2>5
  <2>6. CASE ask[r].route # "rpc"
    <3>1. Http!Turn(r, "new", "refused")
      BY <1>2, <1>3, <2>1, <2>3, <2>4, <2>6, OneTold
    <3> QED
      BY <3>1 DEF Http!Next, Http!Refuse
  <2> QED
    BY <2>5, <2>6
<1>8. CASE CallRefused(r) \/ CallLost(r)
  <2>1. Reply(r, Raised(r)) /\ rpc[r] # "lookup"
    BY <1>8 DEF CallRefused, CallLost
  <2>2. code'[r] = Raised(r) /\ \A q \in Clients \ {r} : Told'[q] = Told[q]
    BY <1>5, <2>1, RaisedAnswers
  <2>3. Told'[r] = "lost"
    BY <1>2, <2>2, ToldCasesNext DEF Raised
  <2> QED
    BY <1>3, <1>6, <2>1, <2>2, <2>3
<1>9. CASE CallReturns(r)
  <2>1. rpc[r] = "waiting" /\ Told[r] = "open"
    BY <1>3, <1>9 DEF CallReturns
  <2>2. CASE Call!AnswerRan(r) /\ \E answer \in {"OK", "INTERNAL_ERROR"} : Reply(r, answer)
    <3>1. PICK answer \in {"OK", "INTERNAL_ERROR"} : Reply(r, answer)
      BY <2>2
    <3>2. code'[r] = answer /\ \A q \in Clients \ {r} : Told'[q] = Told[q]
      BY <1>5, <3>1
    <3>3. CASE answer = "OK"
      <4>1. effects[r] = 1
        BY <2>2 DEF Call!AnswerRan
      <4>2. Http!Turn(r, "open", "ran")
        BY <1>2, <2>1, <3>2, <3>3, ToldCasesNext, OneTold
      <4> QED
        BY <4>1, <4>2 DEF Http!Next, Http!AnswerRan
    <3>4. CASE answer = "INTERNAL_ERROR"
      BY <1>6, <2>1, <3>2, <3>4, ToldCasesNext
    <3> QED
      BY <3>3, <3>4
  <2>3. CASE /\ Call!AnswerUntouched(r)
             /\ Reply(r, IF Served(r) THEN "INVALID_PARAMS" ELSE "METHOD_NOT_FOUND")
    <3>1. PICK answer \in {"INVALID_PARAMS", "METHOD_NOT_FOUND"} : Reply(r, answer)
      BY <2>3
    <3>2. code'[r] = answer /\ \A q \in Clients \ {r} : Told'[q] = Told[q]
      BY <1>5, <3>1
    <3>3. effects[r] = 0 /\ phase'[r] = "untouched"
      BY <2>3 DEF Call!AnswerUntouched, Call!Turn, IInv, ShapeOK
    <3>4. CASE answer = "METHOD_NOT_FOUND" /\ ask[r].route = "rpc"
      BY <1>2, <1>6, <2>1, <3>2, <3>4, ToldCasesNext
    <3>5. CASE answer = "INVALID_PARAMS" \/ ask[r].route # "rpc"
      <4>1. Told'[r] = "untouched"
        BY <1>2, <3>2, <3>3, <3>5, ToldCasesNext
      <4>2. Http!Turn(r, "open", "untouched")
        BY <1>2, <2>1, <3>2, <4>1, OneTold
      <4> QED
        BY <3>3, <4>2 DEF Http!Next, Http!AnswerUntouched
    <3> QED
      BY <3>4, <3>5
  <2> QED
    BY <1>9, <2>2, <2>3 DEF CallReturns
<1> QED
  BY <1>7, <1>8, <1>9

(* A method runs for a client that waits, or that was told nothing sure.   *)
LEMMA RunsTells ==
  ASSUME IInv, NEW r \in Clients, Runs(r)
  PROVE  Http!Next
<1>1. /\ UNCHANGED <<rpc, ask, code, phase>>
      /\ phase[r] \in {"open", "lost"} /\ effects[r] = 0
      /\ effects' = [effects EXCEPT ![r] = 1]
  BY DEF Runs, Call!Execute
<1>2. UNCHANGED Told
  BY <1>1 DEF Told
<1>3. CallOK(r) /\ rpc[r] \in {"new", "queued", "lookup", "snapshot", "call", "waiting", "answered"}
  BY DEF IInv, ShapeOK
<1>4. Told[r] \in {"open", "lost"}
  <2>1. CASE phase[r] = "open"
    BY <1>3, <2>1, ToldCases DEF CallOK
  <2>2. CASE phase[r] = "lost"
    BY <1>3, <2>2, ToldCases DEF CallOK, Raised
  <2> QED
    BY <1>1, <2>1, <2>2
<1>5. Http!Execute(r)
  BY <1>1, <1>2, <1>4 DEF Http!Execute
<1> QED
  BY <1>5 DEF Http!Next

LEMMA NextTold == IInv /\ [Next]_vars => [Http!Next]_(Http!vars)
<1> SUFFICES ASSUME IInv, [Next]_vars PROVE Http!Next \/ UNCHANGED Http!vars
  OBVIOUS
<1>1. ASSUME UNCHANGED requests
      PROVE  UNCHANGED Http!vars
  BY <1>1 DEF requests, calls, Told, Http!vars
<1>2. CASE \E w \in Workers : RefreshNow(w) \/ Refreshing(w)
  BY <1>1, <1>2 DEF RefreshNow, Refreshing, Begin, Discover, DiscoveryFails, Install,
                    RecordError, Finish, Report
<1>3. CASE AppLoop \/ Shutdown \/ WorldChanges
  BY <1>1, <1>3 DEF AppLoop, StartupRefresh, Started, LoopRefresh, LoopRefreshed, LoopWaited,
                    LoopStops, Stopped, Begin, Shutdown, WorldChanges
<1>4. CASE Start
  BY <1>4, StartTells
<1>5. CASE \E r \in Clients : Arrive(r) \/ Serving(r) \/ Runs(r)
  BY <1>5, UnansweredTells, AnswerTells, RunsTells DEF Serving
<1>6. CASE UNCHANGED vars
  BY <1>1, <1>6 DEF vars
<1> QED
  BY <1>2, <1>3, <1>4, <1>5, <1>6 DEF Next

(* The gateway implements the promise that it is given: for its client an  *)
(* HTTP request runs its method at most once and is answered truly.        *)
THEOREM HandsOnThePromise == Spec => HttpKeepsPromise
  BY InitTold, NextTold, Invariance, PTL DEF Spec, HttpKeepsPromise, Http!Spec

-----------------------------------------------------------------------------
(* A gateway that refreshes alone *)

(* What a refresh has found is no older than the registry that it will     *)
(* replace, if no other refresh replaces it meanwhile.                     *)
Ordered ==
  /\ registry # None => world >= registry
  /\ wpc[Loop] = "found" => world >= found[Loop]
  /\ wpc[Loop] = "found" /\ registry # None => found[Loop] >= registry

LEMMA VersionNumbers == \A v \in Versions : v \in Nat /\ v # None
<1>1. Versions \subseteq Nat /\ None \notin Versions
  BY GatewayAssumption
<1> QED
  BY <1>1

LEMMA OrderedStep ==
  ASSUME Others = {}, IInv, Ordered, [Next]_vars
  PROVE  /\ Ordered'
         /\ registry # None => registry' >= registry
<1> USE VersionNumbers
<1>1. /\ Workers = {Loop} /\ world \in Int
      /\ registry # None => registry \in Int
      /\ wpc[Loop] = "found" => found[Loop] \in Int
  BY DEF Workers, IInv, ShapeOK, RefreshOK
<1>2. ASSUME UNCHANGED <<gateway, found>>, UNCHANGED world \/ WorldChanges,
             wpc'[Loop] = "found" => wpc[Loop] = "found"
      PROVE  Ordered' /\ (registry # None => registry' >= registry)
  BY <1>1, <1>2 DEF Ordered, gateway, WorldChanges
<1>3. CASE \E w \in Workers : Refreshing(w)
  <2>1. CASE Discover(Loop)
    <3>1. found'[Loop] = world /\ UNCHANGED <<registry, world>>
      BY <1>1, <2>1 DEF Discover, gateway, IInv, ShapeOK
    <3> QED
      BY <1>1, <3>1 DEF Ordered
  <2>2. CASE Install(Loop)
    <3>1. /\ wpc[Loop] = "found" /\ wpc'[Loop] # "found" /\ registry' = found[Loop]
          /\ UNCHANGED world
      BY <1>1, <2>2 DEF Install, Finish, IInv, ShapeOK
    <3> QED
      BY <1>1, <3>1 DEF Ordered
  <2>3. CASE DiscoveryFails(Loop) \/ RecordError(Loop) \/ Report(Loop)
    <3>1. wpc'[Loop] # "found" /\ UNCHANGED <<registry, world>>
      BY <1>1, <2>3 DEF DiscoveryFails, RecordError, Finish, Report, gateway, IInv, ShapeOK
    <3> QED
      BY <1>1, <3>1 DEF Ordered
  <2> QED
    BY <1>1, <1>3, <2>1, <2>2, <2>3 DEF Refreshing
<1>4. CASE (\E w \in Workers : RefreshNow(w)) \/ StartupRefresh \/ LoopRefresh
  <2>1. Begin(Loop)
    BY <1>1, <1>4 DEF RefreshNow, StartupRefresh, LoopRefresh
  <2>2. wpc'[Loop] = "queued" /\ UNCHANGED <<gateway, found, world>>
    BY <1>1, <2>1 DEF Begin, IInv, ShapeOK
  <2> QED
    BY <1>2, <2>2
<1>5. CASE Started \/ LoopRefreshed \/ LoopWaited \/ LoopStops \/ Stopped \/ WorldChanges
  BY <1>2, <1>5 DEF Started, LoopRefreshed, LoopWaited, LoopStops, Stopped, WorldChanges, refreshes
<1>6. CASE Shutdown
  BY <1>1, <1>2, <1>6 DEF Shutdown, IInv, ShapeOK
<1>7. CASE Start
  <2>1. UNCHANGED <<gateway, found, world>>
    BY <1>7 DEF Start
  <2>2. wpc' = [wpc EXCEPT ![Head(queue)] = "discovering"] \/ UNCHANGED wpc
    BY <1>7 DEF Start
  <2>3. wpc'[Loop] = "found" => wpc[Loop] = "found"
    BY <1>1, <2>2 DEF IInv, ShapeOK
  <2> QED
    BY <1>2, <2>1, <2>3
<1>8. CASE \E r \in Clients : Arrive(r) \/ Serving(r) \/ Runs(r)
  <2>1. UNCHANGED <<gateway, refreshes, world>>
    BY <1>8 DEF Arrive, Serving, LookupFails, LookupFinds, SecondSnapshot, CallRefused, CallSent,
                CallReturns, CallLost, Runs, Reply
  <2> QED
    BY <1>2, <2>1 DEF refreshes
<1>9. CASE UNCHANGED vars
  BY <1>2, <1>9 DEF vars, refreshes
<1> QED
  BY <1>3, <1>4, <1>5, <1>6, <1>7, <1>8, <1>9 DEF Next, AppLoop

(* Without POST /refresh a registry is never replaced by one that was      *)
(* discovered before it: only refreshes that overlap can do that.          *)
THEOREM AloneTheLatestStays ==
  ASSUME Others = {}
  PROVE  Spec => LatestSnapshot
<1>1. Init => Ordered
  BY DEF Init, Ordered, Workers
<1>2. IInv /\ Ordered /\ [Next]_vars => Ordered'
  BY OrderedStep
<1>3. IInv /\ Ordered /\ [Next]_vars => [registry # None => registry' >= registry]_vars
  BY OrderedStep
<1> QED
  BY <1>1, <1>2, <1>3, Invariance, PTL DEF Spec, LatestSnapshot

=============================================================================
