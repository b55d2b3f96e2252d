--------------------------- MODULE EndpointProofs ---------------------------
(***************************************************************************)
(* Lemmas about the dispatch, for any controllers and requests.            *)
(***************************************************************************)
EXTENDS Endpoint, SequenceTheorems, WellFoundedInduction, TLAPS

-----------------------------------------------------------------------------
(* The helpers of Endpoint *)

(* The dispatch loop stops at the first match.                             *)
LEMMA FirstOf ==
  ASSUME NEW positions, positions \subseteq Nat, positions # {}
  PROVE  First(positions) \in positions /\ \A j \in positions : First(positions) <= j
<1> DEFINE less == {ss \in Nat \X Nat : ss[1] < ss[2]}
<1>0. IsWellFoundedOn(less, Nat)
  BY NatLessThanWellFounded DEF OpToRel
<1>1. PICK i \in positions : \A j \in positions : ~(<<j, i>> \in less)
  BY <1>0, WFMin
<1>2. ASSUME NEW j \in positions
      PROVE  i <= j
  <2>1. <<j, i>> \in Nat \X Nat /\ <<j, i>>[1] = j /\ <<j, i>>[2] = i
    OBVIOUS
  <2>2. ~(j < i)
    BY <1>1, <2>1
  <2> QED
    BY <2>1, <2>2
<1> QED
  BY <1>1, <1>2 DEF First

(* Stripping "<controller_name>." undoes what the descriptor prepends: the *)
(* two agree on every name, also on one with empty segments.               *)
LEMMA Stripped ==
  ASSUME NEW S, NEW name \in Seq(S), NEW method \in Seq(S), NEW local \in S
  PROVE  /\ Append(name, local) = name \o <<local>>
         /\ method = Append(name, local) <=>
              IsStrictPrefix(name, method) /\ <<local>> = SubSeq(method, Len(name) + 1, Len(method))
<1>1. Append(name, local) = name \o <<local>>
  BY AppendIsConcat
<1>2. ASSUME IsStrictPrefix(name, method), <<local>> = SubSeq(method, Len(name) + 1, Len(method))
      PROVE  method = Append(name, local)
  <2>1. Len(name) <= Len(method) /\ SubSeq(name, 1, Len(name)) = SubSeq(method, 1, Len(name))
    BY <1>2 DEF IsStrictPrefix, IsPrefix
  <2>2. SubSeq(name, 1, Len(name)) = name
    BY SubSeqFull
  <2>3. SubSeq(method, 1, Len(name)) \o SubSeq(method, Len(name) + 1, Len(method)) = SubSeq(method, 1, Len(method))
    <3>1. Len(name) \in 1 - 1 .. Len(method) /\ Len(method) \in Len(name) .. Len(method) /\ 1 \in 1 .. Len(method) + 1
      BY <2>1
    <3> QED
      BY <3>1, ConcatAdjacentSubSeq
  <2>4. SubSeq(method, 1, Len(method)) = method
    BY SubSeqFull
  <2> QED
    BY <1>1, <1>2, <2>1, <2>2, <2>3, <2>4
<1>3. ASSUME method = Append(name, local)
      PROVE  /\ IsStrictPrefix(name, method)
             /\ <<local>> = SubSeq(method, Len(name) + 1, Len(method))
  <2>1. /\ Len(method) = Len(name) + 1 /\ Len(name) \in Nat
        /\ \A i \in 1 .. Len(name) : method[i] = name[i]
        /\ method[Len(name) + 1] = local
    <3>1. Len(name) \in Nat
      BY LenProperties
    <3>2. /\ Len(Append(name, local)) = Len(name) + 1
          /\ \A i \in 1 .. Len(name) : Append(name, local)[i] = name[i]
          /\ Append(name, local)[Len(name) + 1] = local
      BY AppendProperties
    <3> QED
      BY <1>3, <3>1, <3>2, Zenon
  <2>2. SubSeq(method, Len(name) + 1, Len(method)) = <<local>>
    <3> DEFINE n == Len(name) + 1
               tail == SubSeq(method, n, n)
    <3>1. n \in Int /\ (\A i \in n .. n : method[i] \in S) /\ n <= n
      BY <2>1
    <3>2. /\ tail \in Seq(S)
          /\ Len(tail) = IF n <= n THEN n - n + 1 ELSE 0
          /\ \A i \in 1 .. n - n + 1 : tail[i] = method[n + i - 1]
      BY <3>1, SubSeqProperties
    <3>3. n - n + 1 = 1 /\ n + 1 - 1 = n /\ 1 \in 1 .. 1 /\ n <= n /\ method[n] = local
      BY <2>1
    <3> HIDE DEF n, tail
    <3>4. Len(tail) = 1 /\ tail[1] = local
      BY <3>2, <3>3
    <3>5. <<local>> \in Seq(S) /\ Len(<<local>>) = 1 /\ <<local>>[1] = local
      OBVIOUS
    <3>6. \A i \in 1 .. Len(tail) : tail[i] = <<local>>[i]
      BY <3>4, <3>5
    <3>7. tail = <<local>>
      BY <3>2, <3>4, <3>5, <3>6, SeqEqual
    <3> USE DEF n, tail
    <3> QED
      BY <2>1, <3>7
  <2>3. SubSeq(method, 1, Len(name)) = name
    BY <2>1
  <2>4. SubSeq(name, 1, Len(name)) = name
    BY SubSeqFull
  <2>5. IsPrefix(name, method) /\ name # method
    BY <2>1, <2>3, <2>4 DEF IsPrefix
  <2> QED
    BY <2>2, <2>5 DEF IsStrictPrefix
<1> QED
  BY <1>1, <1>2, <1>3

(* The outcomes of a dispatch are five.                                    *)
LEMMA CodesDiffer ==
  /\ METHOD_NOT_FOUND \notin {OK, PARSE_ERROR, INVALID_PARAMS, INTERNAL_ERROR}
  /\ {OK, INTERNAL_ERROR} \cap {PARSE_ERROR, METHOD_NOT_FOUND, INVALID_PARAMS} = {}
  BY DEF OK, PARSE_ERROR, METHOD_NOT_FOUND, INVALID_PARAMS, INTERNAL_ERROR

(* The binding is called: the params are validated first.                  *)
LEMMA Invoked ==
  ASSUME NEW binding, NEW request
  PROVE  LET d == Invoke(binding, request)
         IN  /\ d.id = request.id
             /\ d.code \in {OK, INVALID_PARAMS, INTERNAL_ERROR}
             /\ d.runs \in BOOLEAN
             /\ d.runs <=> d.code \in {OK, INTERNAL_ERROR}
             /\ d.runs => request.params \in binding.accepts
  BY CodesDiffer DEF Invoke, Dispatched

(* A controller whose names are made of segments of S: the name is a       *)
(* sequence of them, a member's is one.                                    *)
Named(c, S) ==
  /\ c.name \in Seq(S)
  /\ c.members \in Seq(Range(c.members))
  /\ \A i \in DOMAIN c.members : c.members[i].name \in S

(* A method is found exactly if the descriptor announces it.               *)
LEMMA Announced ==
  ASSUME NEW S, NEW c, Named(c, S), NEW method \in Seq(S)
  PROVE  method \in DescribeController(c) <=>
           IsStrictPrefix(c.name, method) /\ Matches(c, method) # {}
<1>1. /\ c.name \in Seq(S)
      /\ \A i \in IterRpcMethods(c) : i \in DOMAIN c.members /\ c.members[i].name \in S
  BY DEF Named, IterRpcMethods
<1>2. ASSUME NEW i \in IterRpcMethods(c)
      PROVE  method = Append(c.name, c.members[i].name) <=>
               IsStrictPrefix(c.name, method) /\ <<c.members[i].name>> = LocalName(c, method)
  <2> DEFINE name == c.name
             local == c.members[i].name
  <2>1. name \in Seq(S) /\ local \in S
    BY <1>1
  <2> HIDE DEF name, local
  <2>2. method = Append(name, local) <=>
          IsStrictPrefix(name, method) /\ <<local>> = SubSeq(method, Len(name) + 1, Len(method))
    BY <2>1, Stripped, Zenon
  <2> QED
    BY <2>2 DEF LocalName, name, local
<1> QED
  BY <1>2 DEF DescribeController, Matches

(* What the dispatch loop settles on is a method of that name.             *)
LEMMA Found ==
  ASSUME NEW S, NEW c, Named(c, S), NEW method \in Seq(S),
         IsStrictPrefix(c.name, method), Matches(c, method) # {}
  PROVE  LET i == First(Matches(c, method))
         IN  /\ i \in DOMAIN c.members
             /\ IsRpcMethod(c.members[i])
             /\ method = c.name \o <<c.members[i].name>>
<1> DEFINE i == First(Matches(c, method))
<1>1. Matches(c, method) \subseteq Nat
  <2>1. c.members \in Seq(Range(c.members))
    BY DEF Named
  <2>2. DOMAIN c.members \subseteq Nat
    BY <2>1, LenProperties
  <2> QED
    BY <2>2 DEF Matches, IterRpcMethods
<1>2. i \in Matches(c, method)
  BY <1>1, FirstOf
<1>3. /\ i \in DOMAIN c.members /\ IsRpcMethod(c.members[i])
      /\ <<c.members[i].name>> = LocalName(c, method)
  BY <1>2 DEF Matches, IterRpcMethods
<1> HIDE DEF i
<1>4. c.name \in Seq(S) /\ c.members[i].name \in S
  BY <1>3 DEF Named
<1>5. method = c.name \o <<c.members[i].name>>
  <2>1. method = Append(c.name, c.members[i].name)
    BY <1>3, <1>4, Stripped DEF LocalName
  <2> QED
    BY <1>4, <2>1, AppendIsConcat
<1> QED
  BY <1>3, <1>5 DEF i

(* The dispatch of a request that parses.                                  *)
LEMMA Dispatching ==
  ASSUME NEW S, NEW c, Named(c, S), NEW r, r.method \in Seq(S), NEW d, d = Handle(c, r)
  PROVE  /\ d.id = r.id
         /\ d.code \in {OK, METHOD_NOT_FOUND, INVALID_PARAMS, INTERNAL_ERROR}
         /\ d.code = METHOD_NOT_FOUND <=> r.method \notin DescribeController(c)
         /\ d.runs \in BOOLEAN
         /\ d.runs <=> d.code \in {OK, INTERNAL_ERROR}
         /\ d.runs =>
              \E i \in DOMAIN c.members :
                /\ IsRpcMethod(c.members[i])
                /\ r.method = c.name \o <<c.members[i].name>>
                /\ r.params \in c.members[i].accepts
<1>1. CASE ~IsStrictPrefix(c.name, r.method) \/ Matches(c, r.method) = {}
  <2>1. d = Dispatched(r.id, METHOD_NOT_FOUND, FALSE, TRUE)
    BY <1>1 DEF Handle
  <2>2. r.method \notin DescribeController(c)
    BY <1>1, Announced
  <2> QED
    BY <2>1, <2>2, CodesDiffer DEF Dispatched
<1>2. CASE IsStrictPrefix(c.name, r.method) /\ Matches(c, r.method) # {}
  <2> DEFINE i == First(Matches(c, r.method))
  <2>1. d = Invoke(c.members[i], r)
    BY <1>2 DEF Handle
  <2>2. r.method \in DescribeController(c)
    BY <1>2, Announced
  <2>3. /\ i \in DOMAIN c.members /\ IsRpcMethod(c.members[i])
        /\ r.method = c.name \o <<c.members[i].name>>
    BY <1>2, Found
  <2> HIDE DEF i
  <2>4. /\ d.id = r.id
        /\ d.code \in {OK, INVALID_PARAMS, INTERNAL_ERROR}
        /\ d.runs \in BOOLEAN
        /\ d.runs <=> d.code \in {OK, INTERNAL_ERROR}
        /\ d.runs => r.params \in c.members[i].accepts
    BY <2>1, Invoked
  <2> QED
    BY <2>2, <2>3, <2>4, CodesDiffer
<1> QED
  BY <1>1, <1>2

=============================================================================
