---------------------- MODULE MarketDataService_proofs ----------------------
(***************************************************************************)
(* Proofs about the collection service, for any number of runs, groups and *)
(* requests, any caps and any circuit-breaker limits.                      *)
(***************************************************************************)
EXTENDS MarketDataService, FiniteSetTheorems, TLAPS

LEMMA TypeInit == Init => TypeOK
  BY SMT, ServiceAssumption DEF Init, TypeOK, Closed

LEMMA GatherTyped ==
  ASSUME TypeOK, NEW r \in Run, NEW phase \in Phase, Gather(r, phase)
  PROVE  /\ group' \in [Group -> {"idle", "acquiring", "stored", "raised"}]
         /\ request' \in [Request -> {"idle", "queued", "admitted", "fetching"} \cup Fetched]
  BY DEF TypeOK, Gather, Fetched

LEMMA AttemptsTyped ==
  ASSUME TypeOK, NEW g \in Group, NEW some, NEW row \in Attempts(g, some)
  PROVE  [rows EXCEPT ![g] = row] \in [Group -> [Source -> {"none", "success", "other"}]]
  BY DEF TypeOK, Attempts

LEMMA TypeNext == TypeOK /\ [Next]_vars => TypeOK'
<1> SUFFICES ASSUME TypeOK, [Next]_vars PROVE TypeOK'
  OBVIOUS
<1> USE ServiceAssumption
<1>1. CASE UNCHANGED vars
  BY <1>1 DEF TypeOK, vars, breaker
<1>2. CASE ClockTick
  BY <1>2 DEF ClockTick, TypeOK, breaker
<1>3. ASSUME NEW r \in Run, RunStep(r) PROVE TypeOK'
  <2>1. CASE BeginRun(r)
    <3>1. Gather(r, "base")
      BY <2>1 DEF BeginRun
    <3> QED BY <2>1, <3>1, GatherTyped DEF BeginRun, TypeOK, breaker, Phase
  <2>2. CASE BeginDependent(r)
    <3>1. Gather(r, "dependent")
      BY <2>2 DEF BeginDependent
    <3> QED BY <2>2, <3>1, GatherTyped DEF BeginDependent, TypeOK, breaker, Phase
  <2>3. CASE ReturnRun(r)
    BY <2>3 DEF ReturnRun, TypeOK, breaker
  <2> QED BY <1>3, <2>1, <2>2, <2>3 DEF RunStep
<1>4. ASSUME NEW g \in Group, GroupStep(g) PROVE TypeOK'
  <2>1. CASE StoreGroup(g)
    <3>1. PICK row \in Attempts(g, Members[g]) : rows' = [rows EXCEPT ![g] = row]
      BY <2>1 DEF StoreGroup
    <3>2. rows' \in [Group -> [Source -> {"none", "success", "other"}]]
      BY <3>1, AttemptsTyped
    <3> QED BY <2>1, <3>2 DEF StoreGroup, TypeOK, breaker
  <2>2. CASE StoreRaises(g)
    <3>1. PICK some \in SUBSET Members[g] : \E row \in Attempts(g, some) :
            rows' = [rows EXCEPT ![g] = row]
      BY <2>2 DEF StoreRaises
    <3>2. rows' \in [Group -> [Source -> {"none", "success", "other"}]]
      BY <3>1, AttemptsTyped
    <3>3. run' \in [Run -> Phase \cup {"idle", "returned", "raised"}]
      BY <2>2 DEF StoreRaises, TypeOK
    <3> QED BY <2>2, <3>2, <3>3 DEF StoreRaises, TypeOK, breaker
  <2> QED BY <1>4, <2>1, <2>2 DEF GroupStep
<1>5. ASSUME NEW q \in Request, RequestStep(q) PROVE TypeOK'
  <2> DEFINE d == DomainOfRequest(q)
  <2>1. d \in Domain
    BY DEF DomainOfRequest
  <2>2. CASE Admit(q) \/ CircuitOpen(q) \/ FetchRaises(q)
    BY <2>2 DEF Admit, CircuitOpen, FetchRaises, TypeOK, breaker, Fetched
  <2>3. CASE StartFetch(q)
    BY <2>1, <2>3 DEF StartFetch, ResetCircuit, TypeOK, Closed
  <2>4. CASE FetchSucceeds(q)
    BY <2>1, <2>4 DEF FetchSucceeds, TypeOK, Closed, Fetched
  <2>5. CASE FetchFails(q)
    BY <2>1, <2>5 DEF FetchFails, TypeOK, Closed, Fetched
  <2> QED BY <1>5, <2>2, <2>3, <2>4, <2>5 DEF RequestStep
<1> QED BY <1>1, <1>2, <1>3, <1>4, <1>5 DEF Next

(* Type correctness of the collection service.                             *)
THEOREM ServiceTyping == Spec => []TypeOK
  BY TypeInit, TypeNext, PTL DEF Spec
-----------------------------------------------------------------------------
(* What the groups know of their run: those of a phase that has not begun  *)
(* have stored nothing, those of a phase that was awaited stored all their *)
(* members, and a stored success had all its answers.                      *)
NotBegun(g) ==
  \/ run[RunOf[g]] = "idle"
  \/ run[RunOf[g]] = "base" /\ PhaseOf[g] = "dependent"

Awaited(g) ==
  \/ run[RunOf[g]] = "returned"
  \/ run[RunOf[g]] = "dependent" /\ PhaseOf[g] = "base"

AllAnswered(g) == \A q \in RequestsOf(g) : request[q] = "ok"

GroupInv ==
  \A g \in Group :
    /\ NotBegun(g) => group[g] = "idle"
    /\ Awaited(g) => group[g] = "stored"
    /\ group[g] = "idle" => \A s \in Source : rows[g][s] = "none"
    /\ group[g] = "stored" => \A s \in Members[g] : rows[g][s] # "none"
    /\ \A s \in Source : rows[g][s] = "success" => AllAnswered(g)

LEMMA GroupInit == Init => GroupInv
  BY ServiceAssumption DEF Init, GroupInv, NotBegun, Awaited, AllAnswered, Phase

(* A phase of a run begins: its groups were idle, so no stored attempt     *)
(* loses the answers it rests on.                                          *)
LEMMA GatherKeepsGroupInv ==
  ASSUME TypeOK, GroupInv, NEW r \in Run, NEW phase \in Phase,
         Gather(r, phase), rows' = rows,
         run' = [run EXCEPT ![r] = phase],
         \/ run[r] = "idle" /\ phase = "base"
         \/ run[r] = "base" /\ phase = "dependent" /\ PhaseStored(r)
  PROVE  GroupInv'
<1> USE ServiceAssumption
<1> SUFFICES ASSUME NEW g \in Group
             PROVE  /\ NotBegun(g)' => group'[g] = "idle"
                    /\ Awaited(g)' => group'[g] = "stored"
                    /\ group'[g] = "idle" => \A s \in Source : rows'[g][s] = "none"
                    /\ group'[g] = "stored" => \A s \in Members[g] : rows'[g][s] # "none"
                    /\ \A s \in Source : rows'[g][s] = "success" => AllAnswered(g)'
  BY DEF GroupInv
<1>1. RunOf[g] \in Run /\ PhaseOf[g] \in {"base", "dependent"}
  BY DEF Phase
<1>2. CASE g \in GroupsOf(r, phase)
  <2>1. RunOf[g] = r /\ PhaseOf[g] = phase
    BY <1>2 DEF GroupsOf
  <2>2. group[g] = "idle"
    BY <2>1 DEF GroupInv, NotBegun
  <2>3. \A s \in Source : rows[g][s] = "none"
    BY <2>2 DEF GroupInv
  <2>4. group'[g] = "acquiring"
    BY <1>2 DEF Gather
  <2>5. run'[r] = phase
    BY DEF TypeOK
  <2>6. ~NotBegun(g)' /\ ~Awaited(g)'
    BY <2>1, <2>5 DEF NotBegun, Awaited, Phase
  <2> QED BY <2>3, <2>4, <2>6
<1>3. CASE g \notin GroupsOf(r, phase)
  <2>1. group'[g] = group[g]
    BY <1>3 DEF Gather
  <2>2. \A q \in RequestsOf(g) : request'[q] = request[q]
    BY <1>3 DEF Gather, RequestsOf
  <2>3. AllAnswered(g) => AllAnswered(g)'
    BY <2>2 DEF AllAnswered
  <2>4. NotBegun(g)' => NotBegun(g)
    BY <1>1, <1>3 DEF NotBegun, TypeOK, GroupsOf, Phase
  <2>5. Awaited(g)' => Awaited(g) \/ group[g] = "stored"
    BY <1>1, <1>3 DEF Awaited, TypeOK, GroupsOf, PhaseStored, Phase
  <2> QED BY <2>1, <2>3, <2>4, <2>5 DEF GroupInv
<1> QED BY <1>2, <1>3

LEMMA GroupNext == TypeOK /\ GroupInv /\ [Next]_vars => GroupInv'
<1> SUFFICES ASSUME TypeOK, GroupInv, [Next]_vars PROVE GroupInv'
  OBVIOUS
<1> USE ServiceAssumption
<1>1. ASSUME UNCHANGED <<run, group, rows>>,
             \A q \in Request : request[q] = "ok" => request'[q] = "ok"
      PROVE  GroupInv'
  <2>1. \A g \in Group : AllAnswered(g) => AllAnswered(g)'
    BY <1>1 DEF AllAnswered, RequestsOf
  <2> QED BY <1>1, <2>1 DEF GroupInv, NotBegun, Awaited
<1>2. CASE UNCHANGED vars
  BY <1>1, <1>2 DEF vars
<1>3. CASE ClockTick
  BY <1>1, <1>3 DEF ClockTick
<1>4. ASSUME NEW q \in Request, RequestStep(q) PROVE GroupInv'
  <2>1. UNCHANGED <<run, group, rows>>
    BY <1>4 DEF RequestStep, Admit, StartFetch, CircuitOpen, FetchSucceeds, FetchFails,
       FetchRaises
  <2>2. request[q] \in {"queued", "admitted", "fetching"}
    BY <1>4 DEF RequestStep, Admit, StartFetch, CircuitOpen, FetchSucceeds, FetchFails,
       FetchRaises
  <2>3. \A p \in Request \ {q} : request'[p] = request[p]
    BY <1>4 DEF RequestStep, Admit, StartFetch, CircuitOpen, FetchSucceeds, FetchFails,
       FetchRaises, TypeOK
  <2>4. \A p \in Request : request[p] = "ok" => request'[p] = "ok"
    BY <2>2, <2>3
  <2> QED BY <1>1, <2>1, <2>4
<1>5. ASSUME NEW r \in Run, RunStep(r) PROVE GroupInv'
  <2>1. CASE BeginRun(r)
    BY <2>1, GatherKeepsGroupInv DEF BeginRun, Phase
  <2>2. CASE BeginDependent(r)
    BY <2>2, GatherKeepsGroupInv DEF BeginDependent, Phase
  <2>3. CASE ReturnRun(r)
    <3>1. \A g \in Group : AllAnswered(g)' = AllAnswered(g)
      BY <2>3 DEF ReturnRun, AllAnswered
    <3>2. \A g \in Group : RunOf[g] = r => group[g] = "stored"
      BY <2>3 DEF ReturnRun, PhaseStored, GroupsOf, GroupInv, Awaited, Phase
    <3> QED BY <2>3, <3>1, <3>2 DEF ReturnRun, GroupInv, NotBegun, Awaited, TypeOK
  <2> QED BY <1>5, <2>1, <2>2, <2>3 DEF RunStep
<1>6. ASSUME NEW g \in Group, GroupStep(g) PROVE GroupInv'
  <2>1. /\ group[g] = "acquiring" /\ UNCHANGED request
        /\ \A h \in Group : AllAnswered(h)' = AllAnswered(h)
    BY <1>6 DEF GroupStep, StoreGroup, StoreRaises, Acquired, AllAnswered
  <2>2. \A some, row : row \in Attempts(g, some) =>
          \A s \in Source :
            /\ row[s] = "success" => AllAnswered(g)
            /\ s \in some => row[s] # "none"
    BY DEF Attempts, MaySucceed, AllAnswered, GroupInv
  <2>3. CASE StoreGroup(g)
    <3>1. PICK row \in Attempts(g, Members[g]) : rows' = [rows EXCEPT ![g] = row]
      BY <2>3 DEF StoreGroup
    <3>2. /\ rows'[g] = row /\ group'[g] = "stored" /\ UNCHANGED run
          /\ \A h \in Group \ {g} : rows'[h] = rows[h] /\ group'[h] = group[h]
      BY <2>3, <3>1 DEF StoreGroup, TypeOK
    <3>3. \A s \in Members[g] : s \in Source
      OBVIOUS
    <3> QED BY <2>1, <2>2, <3>1, <3>2, <3>3 DEF GroupInv, NotBegun, Awaited
  <2>4. CASE StoreRaises(g)
    <3>0. PICK some \in SUBSET Members[g] : \E row \in Attempts(g, some) :
            rows' = [rows EXCEPT ![g] = row]
      BY <2>4 DEF StoreRaises
    <3>1. PICK row \in Attempts(g, some) : rows' = [rows EXCEPT ![g] = row]
      BY <3>0
    <3>2. /\ rows'[g] = row /\ group'[g] = "raised"
          /\ \A h \in Group \ {g} : rows'[h] = rows[h] /\ group'[h] = group[h]
      BY <2>4, <3>1 DEF StoreRaises, TypeOK
    <3>3. \A h \in Group : /\ NotBegun(h)' => NotBegun(h)
                           /\ Awaited(h)' => Awaited(h)
      BY <2>4 DEF StoreRaises, TypeOK, NotBegun, Awaited
    <3>4. ~NotBegun(g) /\ ~Awaited(g)
      BY <2>1 DEF GroupInv
    <3> QED BY <2>1, <2>2, <3>1, <3>2, <3>3, <3>4 DEF GroupInv
  <2> QED BY <1>6, <2>3, <2>4 DEF GroupStep
<1> QED BY <1>2, <1>3, <1>4, <1>5, <1>6 DEF Next

LEMMA SpecKeepsGroupInv == Spec => []GroupInv
  BY GroupInit, GroupNext, ServiceTyping, PTL DEF Spec

(* Every source of a run that returned has its attempt, whatever its group *)
(* and its phase.                                                          *)
THEOREM RunsAreComplete == Spec => []ReturnedRunIsComplete
<1>1. GroupInv => ReturnedRunIsComplete
  BY DEF GroupInv, Awaited, ReturnedRunIsComplete
<1> QED BY <1>1, SpecKeepsGroupInv, PTL

(* A partial fan-out never becomes a success.                              *)
THEOREM SuccessesAreWhole == Spec => []SuccessHasEveryAnswer
<1>1. GroupInv => SuccessHasEveryAnswer
  BY DEF GroupInv, AllAnswered, SuccessHasEveryAnswer
<1> QED BY <1>1, SpecKeepsGroupInv, PTL
-----------------------------------------------------------------------------
(* In a serial domain one request at a time is under way, and none behind  *)
(* an open circuit.                                                        *)
OneAtATime ==
  \A d \in Domain : DomainCap[d] = 1 =>
    \A p, q \in FetchingFrom(d) : p = q

CircuitInv == OneAtATime /\ SerialCircuitIsQuiet

LEMMA CircuitInit == Init => CircuitInv
  BY ServiceAssumption DEF Init, CircuitInv, OneAtATime, SerialCircuitIsQuiet, FetchingFrom

LEMMA SerialFree ==
  ASSUME NEW d \in Domain, DomainCap[d] = 1, DomainFree(d)
  PROVE  FetchingFrom(d) = {}
<1>1. IsFiniteSet(FetchingFrom(d))
  BY ServiceAssumption, FS_Subset DEF FetchingFrom
<1>2. Cardinality(FetchingFrom(d)) \in Nat /\ Cardinality(FetchingFrom(d)) < 1
  BY <1>1, FS_CardinalityType DEF DomainFree
<1>3. Cardinality(FetchingFrom(d)) = 0
  BY <1>2
<1> QED BY <1>1, <1>3, FS_EmptySet

LEMMA CircuitNext == TypeOK /\ CircuitInv /\ [Next]_vars => CircuitInv'
<1> SUFFICES ASSUME TypeOK, CircuitInv, [Next]_vars PROVE CircuitInv'
  OBVIOUS
<1> USE ServiceAssumption
<1>1. ASSUME \A d \in Domain : FetchingFrom(d)' \subseteq FetchingFrom(d),
             \A d \in Domain : opened'[d] = opened[d] \/ FetchingFrom(d)' = {}
                               \/ opened'[d] = Closed
      PROVE  CircuitInv'
  BY <1>1 DEF CircuitInv, OneAtATime, SerialCircuitIsQuiet
<1>2. CASE UNCHANGED <<request, opened>>
  BY <1>2 DEF CircuitInv, OneAtATime, SerialCircuitIsQuiet, FetchingFrom
<1>3. CASE ClockTick \/ UNCHANGED vars \/ \E g \in Group : GroupStep(g)
  BY <1>2, <1>3 DEF ClockTick, vars, breaker, GroupStep, StoreGroup, StoreRaises
<1>4. ASSUME NEW r \in Run, RunStep(r) PROVE CircuitInv'
  <2>1. CASE ReturnRun(r)
    BY <2>1, <1>2 DEF ReturnRun, breaker
  <2>2. ASSUME NEW phase, Gather(r, phase), opened' = opened PROVE CircuitInv'
    <3>1. \A q \in Request : request'[q] = "fetching" => request[q] = "fetching"
      BY <2>2 DEF Gather
    <3>2. \A d \in Domain : FetchingFrom(d)' \subseteq FetchingFrom(d)
      BY <3>1 DEF FetchingFrom, DomainOfRequest
    <3> QED BY <2>2, <3>2, <1>1
  <2> QED BY <1>4, <2>1, <2>2 DEF RunStep, BeginRun, BeginDependent, breaker
<1>5. ASSUME NEW q \in Request, RequestStep(q) PROVE CircuitInv'
  <2> DEFINE d == DomainOfRequest(q)
  <2>1. d \in Domain
    BY DEF DomainOfRequest
  <2>2. CASE Admit(q) \/ CircuitOpen(q) \/ FetchRaises(q)
    <3>1. \A p \in Request : request'[p] = "fetching" => request[p] = "fetching"
      BY <2>2 DEF Admit, CircuitOpen, FetchRaises, TypeOK
    <3>2. \A e \in Domain : FetchingFrom(e)' \subseteq FetchingFrom(e)
      BY <3>1 DEF FetchingFrom, DomainOfRequest
    <3>3. opened' = opened
      BY <2>2 DEF Admit, CircuitOpen, FetchRaises, breaker
    <3> QED BY <3>2, <3>3, <1>1
  <2>3. CASE StartFetch(q)
    <3>1. \A e \in Domain \ {d} : FetchingFrom(e)' = FetchingFrom(e) /\ opened'[e] = opened[e]
      BY <2>3 DEF StartFetch, ResetCircuit, FetchingFrom, DomainOfRequest, TypeOK
    <3>2. opened'[d] = Closed
      BY <2>1, <2>3 DEF StartFetch, ResetCircuit, TypeOK
    <3>3. FetchingFrom(d)' = FetchingFrom(d) \cup {q}
      BY <2>3 DEF StartFetch, FetchingFrom, DomainOfRequest, TypeOK
    <3>4. DomainCap[d] = 1 => FetchingFrom(d) = {}
      BY <2>1, <2>3, SerialFree DEF StartFetch
    <3> QED BY <3>1, <3>2, <3>3, <3>4 DEF CircuitInv, OneAtATime, SerialCircuitIsQuiet
  <2>4. CASE FetchSucceeds(q) \/ FetchFails(q)
    <3>1. request[q] = "fetching" /\ request'[q] # "fetching"
          /\ \A p \in Request \ {q} : request'[p] = request[p]
      BY <2>4 DEF FetchSucceeds, FetchFails, TypeOK
    <3>2. \A e \in Domain : FetchingFrom(e)' \subseteq FetchingFrom(e)
      BY <3>1 DEF FetchingFrom, DomainOfRequest
    <3>3. q \in FetchingFrom(d) /\ q \notin FetchingFrom(d)'
      BY <3>1 DEF FetchingFrom
    <3>4. DomainCap[d] = 1 => FetchingFrom(d)' = {}
      BY <2>1, <3>2, <3>3 DEF CircuitInv, OneAtATime
    <3>5. \A e \in Domain \ {d} : opened'[e] = opened[e]
      BY <2>4 DEF FetchSucceeds, FetchFails, TypeOK
    <3> QED BY <3>2, <3>4, <3>5 DEF CircuitInv, OneAtATime, SerialCircuitIsQuiet
  <2> QED BY <1>5, <2>2, <2>3, <2>4 DEF RequestStep
<1> QED BY <1>3, <1>4, <1>5 DEF Next

LEMMA SpecKeepsCircuitInv == Spec => []CircuitInv
  BY CircuitInit, CircuitNext, ServiceTyping, PTL DEF Spec

(* Behind an open circuit of a serial domain no request is under way.      *)
THEOREM SerialCircuitHoldsBack == Spec => []SerialCircuitIsQuiet
<1>1. CircuitInv => SerialCircuitIsQuiet
  BY DEF CircuitInv
<1> QED BY <1>1, SpecKeepsCircuitInv, PTL

(* A serial domain's circuit closes only after its cooldown.               *)
THEOREM SerialCircuitWaits == Spec => SerialCircuitCoolsDown
<1>1. ASSUME TypeOK, CircuitInv, [Next]_vars
      PROVE  [\A d \in Domain : DomainCap[d] = 1 => CooldownOver(d)]_vars
  <2> SUFFICES ASSUME NEW d \in Domain, DomainCap[d] = 1,
                      opened[d] # Closed, opened'[d] = Closed
               PROVE  clock - opened[d] >= Cooldown
    BY DEF CooldownOver
  <2>1. PICK q \in Request : StartFetch(q) \/ FetchSucceeds(q) \/ FetchFails(q)
    BY <1>1 DEF Next, vars, breaker, ClockTick, RunStep, BeginRun, BeginDependent,
       ReturnRun, GroupStep, StoreGroup, StoreRaises, RequestStep, Admit, CircuitOpen,
       FetchRaises
  <2>2. DomainOfRequest(q) = d
    BY <1>1, <2>1 DEF StartFetch, ResetCircuit, FetchSucceeds, FetchFails, TypeOK
  <2>3. ~(FetchSucceeds(q) \/ FetchFails(q))
    BY <1>1, <2>2 DEF FetchSucceeds, FetchFails, CircuitInv, SerialCircuitIsQuiet,
       FetchingFrom
  <2> QED BY <2>1, <2>2, <2>3 DEF StartFetch, allow, AllowAfterCooldown
<1> QED BY <1>1, ServiceTyping, SpecKeepsCircuitInv, PTL DEF Spec, SerialCircuitCoolsDown
-----------------------------------------------------------------------------
(* The two semaphores: never more requests under way than the caps allow,  *)
(* although a run that raised leaves its requests to run on beside those   *)
(* of the next one.                                                        *)
WithinCaps ==
  /\ Cardinality(Holding) <= GlobalCap
  /\ \A d \in Domain : DomainCap[d] # 0 => Cardinality(FetchingFrom(d)) <= DomainCap[d]

LEMMA FiniteHolding ==
  /\ IsFiniteSet(Holding) /\ Cardinality(Holding) \in Nat
  /\ \A d : IsFiniteSet(FetchingFrom(d)) /\ Cardinality(FetchingFrom(d)) \in Nat
<1>1. Holding \subseteq Request /\ \A d : FetchingFrom(d) \subseteq Request
  BY DEF Holding, FetchingFrom
<1> QED BY <1>1, ServiceAssumption, FS_Subset, FS_CardinalityType

(* A set that loses members or gains one has at most one member more.      *)
LEMMA AtMostOneMore ==
  ASSUME NEW S, IsFiniteSet(S), NEW x, NEW T
  PROVE  /\ T \subseteq S => Cardinality(T) <= Cardinality(S)
         /\ T \subseteq S \cup {x} => /\ Cardinality(T) \in Nat
                                      /\ Cardinality(T) <= Cardinality(S) + 1
<1>1. Cardinality(S) \in Nat
  BY FS_CardinalityType
<1>2. /\ IsFiniteSet(S \cup {x})
      /\ \/ Cardinality(S \cup {x}) = Cardinality(S)
         \/ Cardinality(S \cup {x}) = Cardinality(S) + 1
  BY FS_AddElement
<1>3. T \subseteq S \cup {x} => Cardinality(T) <= Cardinality(S \cup {x})
                                 /\ Cardinality(T) \in Nat
  BY <1>2, FS_Subset, FS_CardinalityType
<1>4. T \subseteq S => Cardinality(T) <= Cardinality(S)
  BY FS_Subset
<1> QED BY <1>1, <1>2, <1>3, <1>4

LEMMA CapsInit == Init => WithinCaps
<1> SUFFICES ASSUME Init PROVE WithinCaps
  OBVIOUS
<1>1. Holding = {} /\ \A d \in Domain : FetchingFrom(d) = {}
  BY DEF Init, Holding, FetchingFrom
<1>2. Cardinality(Holding) = 0 /\ \A d \in Domain : Cardinality(FetchingFrom(d)) = 0
  BY <1>1, FS_EmptySet
<1>3. GlobalCap \in Nat /\ \A d \in Domain : DomainCap[d] \in Nat
  BY ServiceAssumption
<1> QED BY <1>2, <1>3 DEF WithinCaps

LEMMA CapsNext == TypeOK /\ WithinCaps /\ [Next]_vars => WithinCaps'
<1> SUFFICES ASSUME TypeOK, WithinCaps, [Next]_vars PROVE WithinCaps'
  OBVIOUS
<1> USE ServiceAssumption
<1>1. ASSUME Holding' \subseteq Holding,
             \A d \in Domain : FetchingFrom(d)' \subseteq FetchingFrom(d)
      PROVE  WithinCaps'
  <2>1. /\ Cardinality(Holding') <= Cardinality(Holding)
        /\ \A d \in Domain : Cardinality(FetchingFrom(d)') <= Cardinality(FetchingFrom(d))
    BY <1>1, FiniteHolding, AtMostOneMore
  <2>2. /\ Cardinality(Holding') \in Nat
        /\ \A d \in Domain : Cardinality(FetchingFrom(d)') \in Nat
    BY <1>1, FiniteHolding, FS_Subset, FS_CardinalityType
  <2> QED BY <2>1, <2>2, FiniteHolding DEF WithinCaps
<1>2. ASSUME \A q \in Request :
               /\ request'[q] = "fetching" => request[q] = "fetching"
               /\ request'[q] = "admitted" => request[q] \in {"admitted", "fetching"}
      PROVE  WithinCaps'
  BY <1>1, <1>2 DEF Holding, FetchingFrom, DomainOfRequest
<1>3. CASE ClockTick \/ UNCHANGED vars \/ \E g \in Group : GroupStep(g)
  BY <1>2, <1>3 DEF ClockTick, vars, GroupStep, StoreGroup, StoreRaises
<1>4. ASSUME NEW r \in Run, RunStep(r) PROVE WithinCaps'
  <2>1. CASE ReturnRun(r)
    BY <2>1, <1>2 DEF ReturnRun
  <2>2. ASSUME NEW phase, Gather(r, phase) PROVE WithinCaps'
    BY <2>2, <1>2 DEF Gather
  <2> QED BY <1>4, <2>1, <2>2 DEF RunStep, BeginRun, BeginDependent
<1>5. ASSUME NEW q \in Request, RequestStep(q) PROVE WithinCaps'
  <2> DEFINE d == DomainOfRequest(q)
  <2>1. d \in Domain
    BY DEF DomainOfRequest
  <2>2. CASE CircuitOpen(q) \/ FetchSucceeds(q) \/ FetchFails(q) \/ FetchRaises(q)
    BY <2>2, <1>2 DEF CircuitOpen, FetchSucceeds, FetchFails, FetchRaises, TypeOK
  <2>3. CASE Admit(q)
    <3>1. /\ Holding' \subseteq Holding \cup {q}
          /\ \A e \in Domain : FetchingFrom(e)' = FetchingFrom(e)
      BY <2>3 DEF Admit, Holding, FetchingFrom, DomainOfRequest, TypeOK
    <3>2. Cardinality(Holding') <= Cardinality(Holding) + 1
      BY <3>1, FiniteHolding, AtMostOneMore
    <3>3. Cardinality(Holding) < GlobalCap
      BY <2>3 DEF Admit
    <3>4. Cardinality(Holding') \in Nat
      BY <3>1, FiniteHolding, AtMostOneMore
    <3>5. Cardinality(Holding') <= GlobalCap
      BY <3>2, <3>3, <3>4, FiniteHolding
    <3> QED BY <3>1, <3>5 DEF WithinCaps
  <2>4. CASE StartFetch(q)
    <3>1. /\ Holding' = Holding
          /\ \A e \in Domain \ {d} : FetchingFrom(e)' = FetchingFrom(e)
          /\ FetchingFrom(d)' \subseteq FetchingFrom(d) \cup {q}
      BY <2>4 DEF StartFetch, Holding, FetchingFrom, DomainOfRequest, TypeOK
    <3>2. Cardinality(FetchingFrom(d)') <= Cardinality(FetchingFrom(d)) + 1
      BY <3>1, FiniteHolding, AtMostOneMore
    <3>3. Cardinality(FetchingFrom(d)') \in Nat
      BY <3>1, FiniteHolding, AtMostOneMore
    <3>4. DomainCap[d] # 0 => Cardinality(FetchingFrom(d)) < DomainCap[d]
      BY <2>4 DEF StartFetch, DomainFree
    <3>5. DomainCap[d] # 0 => Cardinality(FetchingFrom(d)') <= DomainCap[d]
      BY <2>1, <3>2, <3>3, <3>4, FiniteHolding
    <3> QED BY <3>1, <3>5 DEF WithinCaps
  <2> QED BY <1>5, <2>2, <2>3, <2>4 DEF RequestStep
<1> QED BY <1>3, <1>4, <1>5 DEF Next

(* No more requests are under way than global_concurrency, nor in a domain *)
(* with a semaphore than its cap, whatever raised and whichever runs'      *)
(* requests are still on their way.                                        *)
THEOREM SemaphoresBound == Spec => []WithinCaps
  BY CapsInit, CapsNext, ServiceTyping, PTL DEF Spec
-----------------------------------------------------------------------------
(* Nobody waits in a circle: while a run collects, its phase is stored, or *)
(* one of its groups can store, or some request -- of this run or left     *)
(* behind by one that raised -- can answer, start or be admitted.          *)
CanMove(r) ==
  \/ PhaseStored(r)
  \/ \E g \in GroupsOf(r, run[r]) : Acquired(g)
  \/ \E q \in Request : request[q] = "fetching"
  \/ \E q \in Request : request[q] = "admitted" /\ DomainFree(DomainOfRequest(q))
  \/ \E q \in Request : request[q] = "queued" /\ Cardinality(Holding) < GlobalCap

NoRunIsStuck == \A r \in Run : Collecting(r) => CanMove(r)

(* What a group that has not stored is waiting for.                        *)
WaitInv ==
  \A g \in Group :
    /\ group[g] = "acquiring" => \A q \in RequestsOf(g) : request[q] # "idle"
    /\ group[g] = "raised" => run[RunOf[g]] = "raised"
    /\ group[g] = "idle" =>
         \/ run[RunOf[g]] = "idle"
         \/ run[RunOf[g]] \in {"base", "raised"} /\ PhaseOf[g] = "dependent"

LEMMA WaitInit == Init => WaitInv
  BY ServiceAssumption DEF Init, WaitInv

LEMMA GatherKeepsWaitInv ==
  ASSUME TypeOK, WaitInv, NEW r \in Run, NEW phase \in Phase, Gather(r, phase),
         run' = [run EXCEPT ![r] = phase],
         \/ run[r] = "idle" /\ phase = "base"
         \/ run[r] = "base" /\ phase = "dependent"
  PROVE  WaitInv'
<1> USE ServiceAssumption
<1> SUFFICES ASSUME NEW g \in Group
             PROVE  /\ group'[g] = "acquiring" =>
                         \A q \in RequestsOf(g) : request'[q] # "idle"
                    /\ group'[g] = "raised" => run'[RunOf[g]] = "raised"
                    /\ group'[g] = "idle" =>
                         \/ run'[RunOf[g]] = "idle"
                         \/ run'[RunOf[g]] \in {"base", "raised"} /\ PhaseOf[g] = "dependent"
  BY DEF WaitInv, RequestsOf
<1>1. RunOf[g] \in Run /\ PhaseOf[g] \in {"base", "dependent"}
  BY DEF Phase
<1>2. CASE g \in GroupsOf(r, phase)
  <2>1. group'[g] = "acquiring"
    BY <1>2 DEF Gather
  <2>2. \A q \in RequestsOf(g) : request'[q] # "idle"
    BY <1>2 DEF Gather, RequestsOf
  <2> QED BY <2>1, <2>2
<1>3. CASE g \notin GroupsOf(r, phase)
  <2>1. group'[g] = group[g] /\ \A q \in RequestsOf(g) : request'[q] = request[q]
    BY <1>3 DEF Gather, RequestsOf
  <2>2. RunOf[g] # r => run'[RunOf[g]] = run[RunOf[g]]
    BY <1>1 DEF TypeOK
  <2>3. RunOf[g] = r => PhaseOf[g] # phase /\ run'[RunOf[g]] = phase
    BY <1>3 DEF GroupsOf, TypeOK
  <2> QED BY <1>1, <2>1, <2>2, <2>3 DEF WaitInv
<1> QED BY <1>2, <1>3

LEMMA WaitNext == TypeOK /\ GroupInv /\ WaitInv /\ [Next]_vars => WaitInv'
<1> SUFFICES ASSUME TypeOK, GroupInv, WaitInv, [Next]_vars PROVE WaitInv'
  OBVIOUS
<1> USE ServiceAssumption
<1>1. ASSUME UNCHANGED <<run, group>>,
             \A q \in Request : request'[q] = "idle" => request[q] = "idle"
      PROVE  WaitInv'
  BY <1>1 DEF WaitInv, RequestsOf
<1>2. CASE UNCHANGED vars \/ ClockTick
  BY <1>1, <1>2 DEF vars, ClockTick
<1>3. ASSUME NEW q \in Request, RequestStep(q) PROVE WaitInv'
  <2>1. UNCHANGED <<run, group>>
    BY <1>3 DEF RequestStep, Admit, StartFetch, CircuitOpen, FetchSucceeds, FetchFails,
       FetchRaises
  <2>2. \A p \in Request : request'[p] = "idle" => request[p] = "idle"
    BY <1>3 DEF RequestStep, Admit, StartFetch, CircuitOpen, FetchSucceeds, FetchFails,
       FetchRaises, TypeOK
  <2> QED BY <1>1, <2>1, <2>2
<1>4. ASSUME NEW r \in Run, RunStep(r) PROVE WaitInv'
  <2>1. CASE BeginRun(r)
    BY <2>1, GatherKeepsWaitInv DEF BeginRun, Phase
  <2>2. CASE BeginDependent(r)
    BY <2>2, GatherKeepsWaitInv DEF BeginDependent, Phase
  <2>3. CASE ReturnRun(r)
    BY <2>3 DEF ReturnRun, WaitInv, RequestsOf, TypeOK
  <2> QED BY <1>4, <2>1, <2>2, <2>3 DEF RunStep
<1>5. ASSUME NEW g \in Group, GroupStep(g) PROVE WaitInv'
  <2>1. CASE StoreGroup(g)
    BY <2>1 DEF StoreGroup, WaitInv, RequestsOf, TypeOK
  <2>2. CASE StoreRaises(g)
    <3>1. /\ group' = [group EXCEPT ![g] = "raised"]
          /\ run' = [run EXCEPT ![RunOf[g]] = "raised"]
          /\ UNCHANGED request /\ group[g] = "acquiring"
      BY <2>2 DEF StoreRaises, Acquired
    <3>2. run[RunOf[g]] # "idle" /\ run[RunOf[g]] # "returned"
      BY <3>1 DEF GroupInv, NotBegun, Awaited
    <3> SUFFICES ASSUME NEW h \in Group
                 PROVE  /\ group'[h] = "acquiring" =>
                             \A q \in RequestsOf(h) : request'[q] # "idle"
                        /\ group'[h] = "raised" => run'[RunOf[h]] = "raised"
                        /\ group'[h] = "idle" =>
                             \/ run'[RunOf[h]] = "idle"
                             \/ /\ run'[RunOf[h]] \in {"base", "raised"}
                                /\ PhaseOf[h] = "dependent"
      BY DEF WaitInv, RequestsOf
    <3>3. RunOf[g] \in Run /\ RunOf[h] \in Run
      OBVIOUS
    <3>4. CASE RunOf[h] = RunOf[g]
      BY <3>1, <3>2, <3>3, <3>4 DEF WaitInv, TypeOK
    <3>5. CASE RunOf[h] # RunOf[g]
      BY <3>1, <3>3, <3>5 DEF WaitInv, TypeOK
    <3> QED BY <3>4, <3>5
  <2> QED BY <1>5, <2>1, <2>2 DEF GroupStep
<1> QED BY <1>2, <1>3, <1>4, <1>5 DEF Next

(* Behind a full semaphore there is a request that holds it and can go on: *)
(* the holders of the domain's are fetching, and those of the global one   *)
(* wait for nothing but the domain's.                                      *)
LEMMA HoldersMove ==
  ASSUME TypeOK, NEW q \in Request, request[q] \in {"queued", "admitted", "fetching"}
  PROVE  \/ \E p \in Request : request[p] = "fetching"
         \/ \E p \in Request : request[p] = "admitted" /\ DomainFree(DomainOfRequest(p))
         \/ \E p \in Request : request[p] = "queued" /\ Cardinality(Holding) < GlobalCap
<1>1. ASSUME NEW p \in Request, request[p] = "admitted", ~DomainFree(DomainOfRequest(p))
      PROVE  \E x \in Request : request[x] = "fetching"
  <2> DEFINE d == DomainOfRequest(p)
  <2>1. d \in Domain /\ DomainCap[d] \in Nat /\ DomainCap[d] # 0
    BY <1>1, ServiceAssumption DEF DomainFree, DomainOfRequest
  <2>2. ~(Cardinality(FetchingFrom(d)) < DomainCap[d])
    BY <1>1 DEF DomainFree
  <2>3. Cardinality(FetchingFrom(d)) # 0
    BY <2>1, <2>2
  <2>4. FetchingFrom(d) # {}
    BY <2>3, FS_EmptySet
  <2> QED BY <2>4 DEF FetchingFrom
<1>2. CASE Cardinality(Holding) < GlobalCap
  BY <1>1, <1>2
<1>3. CASE ~(Cardinality(Holding) < GlobalCap)
  <2>1. Cardinality(Holding) # 0
    BY <1>3, ServiceAssumption
  <2>2. Holding # {}
    BY <2>1, FS_EmptySet
  <2> QED BY <1>1, <2>2 DEF Holding
<1> QED BY <1>2, <1>3

(* The semaphores, the fan-outs and the raises leave no run in a circle of *)
(* waiting coroutines: the safety half of EveryRunEnds, for any number of  *)
(* runs, groups and requests and any caps.                                 *)
THEOREM RunsAreNeverStuck == Spec => []NoRunIsStuck
<1>1. ASSUME TypeOK, WaitInv PROVE NoRunIsStuck
  <2> SUFFICES ASSUME NEW r \in Run, Collecting(r), ~PhaseStored(r),
                      \A h \in GroupsOf(r, run[r]) : ~Acquired(h)
               PROVE  CanMove(r)
    BY DEF NoRunIsStuck, CanMove
  <2>1. PICK g \in GroupsOf(r, run[r]) : group[g] # "stored"
    BY DEF PhaseStored
  <2>2. g \in Group /\ RunOf[g] = r /\ PhaseOf[g] = run[r] /\ run[r] \in {"base", "dependent"}
    BY <2>1 DEF GroupsOf, Collecting, Phase
  <2>3. group[g] = "acquiring"
    BY <1>1, <2>1, <2>2 DEF WaitInv, TypeOK
  <2>4. PICK q \in RequestsOf(g) : request[q] \notin {"ok", "failed"}
    BY <2>1, <2>3 DEF Acquired
  <2>5. request[q] # "raised" /\ request[q] # "idle"
    BY <1>1, <2>1, <2>2, <2>3, <2>4 DEF Acquired, WaitInv
  <2>6. q \in Request /\ request[q] \in {"queued", "admitted", "fetching"}
    BY <1>1, <2>4, <2>5 DEF RequestsOf, TypeOK, Fetched
  <2> QED BY <1>1, <2>6, HoldersMove DEF CanMove
<1>2. Spec => []WaitInv
  BY WaitInit, WaitNext, ServiceTyping, SpecKeepsGroupInv, PTL DEF Spec
<1> QED BY <1>1, <1>2, ServiceTyping, PTL
=============================================================================
