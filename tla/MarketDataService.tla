------------------------- MODULE MarketDataService -------------------------
(***************************************************************************)
(* The bounded collection service (market_data_service.py: run_sources,    *)
(* run_source, _fetch_limited, _acquire, _persist, DomainCircuitBreaker)   *)
(* and the two phases of MarketDataScheduler._run_contracts, inside one    *)
(* long-lived process.  Coroutines interleave at their awaits only: the    *)
(* two semaphores and the fetch itself.  The lease admits one run at a     *)
(* time and is released when the run returns or raises.                    *)
(***************************************************************************)
EXTENDS Integers, FiniteSets

CONSTANTS
  Run,         \* collector runs of the process, numbered in order
  Group,       \* the fetch groups of all runs
  Request,     \* the requests the groups fan out to
  Source,      \* contracts, each stored under its own key
  Domain,
  RunOf, PhaseOf, DomainOf, Members,  \* of a group
  GroupOf,     \* of a request
  GlobalCap,   \* global_concurrency, 4 in the code
  DomainCap,   \* domain_caps, 0 for a domain without a semaphore
  Threshold,   \* failure_threshold, 3
  Cooldown,    \* cooldown_seconds, 900
  MaxClock,    \* bound of the clock
  StoreFails   \* the store may raise (full disk, locked database, lost object)

Phase == {"base", "dependent"}

ASSUME ServiceAssumption ==
  /\ Run \subseteq Nat
  /\ RunOf \in [Group -> Run]
  /\ PhaseOf \in [Group -> Phase]
  /\ DomainOf \in [Group -> Domain]
  /\ Members \in [Group -> SUBSET Source]
  /\ GroupOf \in [Request -> Group]
  /\ IsFiniteSet(Request)
  /\ GlobalCap \in Nat \ {0}
  /\ DomainCap \in [Domain -> Nat]
  /\ Threshold \in Nat \ {0}
  /\ Cooldown \in Nat \ {0}
  /\ MaxClock \in Nat
  /\ StoreFails \in BOOLEAN

VARIABLES
  clock,     \* time.monotonic
  run,       \* progress of each run
  group,     \* progress of each group's coroutine
  request,   \* progress of each request
  rows,      \* the attempt each group stored for each of its members
  failures,  \* DomainCircuitBreaker._failures
  opened     \* DomainCircuitBreaker._opened_at

breaker == <<failures, opened>>
vars == <<clock, run, group, request, rows, breaker>>

Closed == -1
Fetched == {"ok", "failed", "raised"}

TypeOK ==
  /\ clock \in Nat
  /\ run \in [Run -> Phase \cup {"idle", "returned", "raised"}]
  /\ group \in [Group -> {"idle", "acquiring", "stored", "raised"}]
  /\ request \in [Request -> {"idle", "queued", "admitted", "fetching"} \cup Fetched]
  /\ rows \in [Group -> [Source -> {"none", "success", "other"}]]
  /\ failures \in [Domain -> Nat]
  /\ opened \in [Domain -> Nat \cup {Closed}]

Init ==
  /\ clock = 0
  /\ run = [r \in Run |-> "idle"]
  /\ group = [g \in Group |-> "idle"]
  /\ request = [q \in Request |-> "idle"]
  /\ rows = [g \in Group |-> [s \in Source |-> "none"]]
  /\ failures = [d \in Domain |-> 0]
  /\ opened = [d \in Domain |-> Closed]

ClockTick ==
  /\ clock < MaxClock
  /\ clock' = clock + 1
  /\ UNCHANGED <<run, group, request, rows, breaker>>

GroupsOf(r, phase) == {g \in Group : RunOf[g] = r /\ PhaseOf[g] = phase}
RequestsOf(g) == {q \in Request : GroupOf[q] = g}
DomainOfRequest(q) == DomainOf[GroupOf[q]]

Collecting(r) == run[r] \in Phase

(* run_sources creates one coroutine per group and gathers them.  A group  *)
(* of "unready" fails before its first request: its parameters are missing.*)
Gather(r, phase) ==
  \E unready \in SUBSET GroupsOf(r, phase) :
    /\ group' = [g \in Group |-> IF g \in GroupsOf(r, phase) THEN "acquiring" ELSE group[g]]
    /\ request' = [q \in Request |->
                     IF GroupOf[q] \notin GroupsOf(r, phase) THEN request[q]
                     ELSE IF GroupOf[q] \in unready THEN "raised" ELSE "queued"]

(* A run begins under the lease: the runs before it returned or raised.    *)
BeginRun(r) ==
  /\ run[r] = "idle"
  /\ \A p \in Run : p < r => run[p] \in {"returned", "raised"}
  /\ run' = [run EXCEPT ![r] = "base"]
  /\ Gather(r, "base")
  /\ UNCHANGED <<clock, rows, breaker>>

(* The gather of a phase returned; the saved-data fan-outs follow.         *)
PhaseStored(r) == \A g \in GroupsOf(r, run[r]) : group[g] = "stored"

BeginDependent(r) ==
  /\ run[r] = "base"
  /\ PhaseStored(r)
  /\ run' = [run EXCEPT ![r] = "dependent"]
  /\ Gather(r, "dependent")
  /\ UNCHANGED <<clock, rows, breaker>>

(* A plausible bug: the run does not await the dependent phase.            *)
ReturnRun_WithoutWaiting(r) ==
  /\ run[r] = "dependent"
  /\ run' = [run EXCEPT ![r] = "returned"]
  /\ UNCHANGED <<clock, group, request, rows, breaker>>

ReturnRun(r) ==
  /\ run[r] = "dependent"
  /\ PhaseStored(r)
  /\ run' = [run EXCEPT ![r] = "returned"]
  /\ UNCHANGED <<clock, group, request, rows, breaker>>
-----------------------------------------------------------------------------
(* A plausible bug: an exception of the operation leaks the global slot.   *)
Holding_LeakedByRaise == {q \in Request : request[q] \in {"admitted", "fetching", "raised"}}

(* Requests inside "async with self._global_semaphore".                    *)
Holding == {q \in Request : request[q] \in {"admitted", "fetching"}}

FetchingFrom(d) == {q \in Request : request[q] = "fetching" /\ DomainOfRequest(q) = d}

Admit(q) ==
  /\ request[q] = "queued"
  /\ Cardinality(Holding) < GlobalCap
  /\ request' = [request EXCEPT ![q] = "admitted"]
  /\ UNCHANGED <<clock, run, group, rows, breaker>>

DomainFree(d) == DomainCap[d] = 0 \/ Cardinality(FetchingFrom(d)) < DomainCap[d]

AllowAfterCooldown(d) == opened[d] = Closed \/ clock - opened[d] >= Cooldown

(* A plausible bug: the circuit is not asked again at the front of the     *)
(* domain's queue.                                                         *)
allow_NotRechecked(d) == TRUE

(* DomainCircuitBreaker.allow                                              *)
allow(d) == AllowAfterCooldown(d)

(* allow forgets an opening whose cooldown is over.                        *)
ResetCircuit(d) ==
  /\ failures' = [failures EXCEPT ![d] = IF opened[d] = Closed THEN @ ELSE 0]
  /\ opened' = [opened EXCEPT ![d] = Closed]

(* execute_checked: at the front of the domain's queue.                    *)
StartFetch(q) ==
  LET d == DomainOfRequest(q) IN
  /\ request[q] = "admitted"
  /\ DomainFree(d)
  /\ allow(d)
  /\ request' = [request EXCEPT ![q] = "fetching"]
  /\ ResetCircuit(d)
  /\ UNCHANGED <<clock, run, group, rows>>

CircuitOpen(q) ==
  LET d == DomainOfRequest(q) IN
  /\ request[q] = "admitted"
  /\ DomainFree(d)
  /\ ~allow(d)
  /\ request' = [request EXCEPT ![q] = "failed"]
  /\ UNCHANGED <<clock, run, group, rows, breaker>>

(* DomainCircuitBreaker.record_success                                     *)
FetchSucceeds(q) ==
  LET d == DomainOfRequest(q) IN
  /\ request[q] = "fetching"
  /\ request' = [request EXCEPT ![q] = "ok"]
  /\ failures' = [failures EXCEPT ![d] = 0]
  /\ opened' = [opened EXCEPT ![d] = Closed]
  /\ UNCHANGED <<clock, run, group, rows>>

(* A plausible bug: the counter runs the wrong way.                        *)
FetchFails_Countdown(q) ==
  LET d == DomainOfRequest(q) IN
  /\ request[q] = "fetching"
  /\ request' = [request EXCEPT ![q] = "failed"]
  /\ failures' = [failures EXCEPT ![d] = @ - 1]
  /\ opened' = [opened EXCEPT ![d] = IF failures[d] - 1 >= Threshold THEN clock ELSE @]
  /\ UNCHANGED <<clock, run, group, rows>>

(* DomainCircuitBreaker.record_failure                                     *)
FetchFails(q) ==
  LET d == DomainOfRequest(q) IN
  /\ request[q] = "fetching"
  /\ request' = [request EXCEPT ![q] = "failed"]
  /\ failures' = [failures EXCEPT ![d] = @ + 1]
  /\ opened' = [opened EXCEPT ![d] = IF failures[d] + 1 >= Threshold THEN clock ELSE @]
  /\ UNCHANGED <<clock, run, group, rows>>

(* The transport raises: the breaker hears of neither.                     *)
FetchRaises(q) ==
  /\ request[q] = "fetching"
  /\ request' = [request EXCEPT ![q] = "raised"]
  /\ UNCHANGED <<clock, run, group, rows, breaker>>
-----------------------------------------------------------------------------
(* The inner gather of _acquire returns when every request has, and raises *)
(* as soon as one does; the other requests of the group then run on.       *)
Acquired(g) ==
  /\ group[g] = "acquiring"
  /\ \/ \A q \in RequestsOf(g) : request[q] \in {"ok", "failed"}
     \/ \E q \in RequestsOf(g) : request[q] = "raised"

(* A plausible bug: one answered request is enough for a success.          *)
MaySucceed_AnyAnswer(g) == \E q \in RequestsOf(g) : request[q] = "ok"

(* _normalize: a failed request makes the result PARTIAL or FAILED, and no *)
(* endpoint at all is a failure.                                           *)
MaySucceed(g) == RequestsOf(g) # {} /\ \A q \in RequestsOf(g) : request[q] = "ok"

(* Attempts of some members of g; a member may be found empty or invalid.  *)
Attempts(g, some) ==
  {row \in [Source -> {"none", "success", "other"}] :
     \A s \in Source :
       /\ s \notin some => row[s] = rows[g][s]
       /\ s \in some => row[s] \in {"other"} \cup (IF MaySucceed(g) THEN {"success"} ELSE {})}

StoreGroup(g) ==
  /\ Acquired(g)
  /\ \E row \in Attempts(g, Members[g]) : rows' = [rows EXCEPT ![g] = row]
  /\ group' = [group EXCEPT ![g] = "stored"]
  /\ UNCHANGED <<clock, run, request, breaker>>

(* _persist is outside the try: a raise reaches the gather of run_sources, *)
(* which leaves the other groups running, and ends the run.                *)
StoreRaises(g) ==
  /\ StoreFails
  /\ Acquired(g)
  /\ \E some \in SUBSET Members[g] : \E row \in Attempts(g, some) :
       /\ some # Members[g]
       /\ rows' = [rows EXCEPT ![g] = row]
  /\ group' = [group EXCEPT ![g] = "raised"]
  /\ run' = [run EXCEPT ![RunOf[g]] = "raised"]
  /\ UNCHANGED <<clock, request, breaker>>

RequestStep(q) ==
  \/ Admit(q) \/ StartFetch(q) \/ CircuitOpen(q)
  \/ FetchSucceeds(q) \/ FetchFails(q) \/ FetchRaises(q)
GroupStep(g) == StoreGroup(g) \/ StoreRaises(g)
RunStep(r) == BeginRun(r) \/ BeginDependent(r) \/ ReturnRun(r)

Next ==
  \/ ClockTick
  \/ \E r \in Run : RunStep(r)
  \/ \E g \in Group : GroupStep(g)
  \/ \E q \in Request : RequestStep(q)

Spec == Init /\ [][Next]_vars

(* The event loop schedules every ready coroutine, and every fetch ends:   *)
(* the HTTP clients have timeouts.                                         *)
FairSpec ==
  /\ Spec
  /\ \A r \in Run : WF_vars(BeginDependent(r) \/ ReturnRun(r))
  /\ \A g \in Group : WF_vars(GroupStep(g))
  /\ \A q \in Request : WF_vars(RequestStep(q))
-----------------------------------------------------------------------------
(* A run that returns has an attempt row for each of its sources, in both  *)
(* phases: no source is lost between the tasks ("per-source failure        *)
(* isolation", docstring of _run_contracts).                               *)
ReturnedRunIsComplete ==
  \A g \in Group : \A s \in Members[g] :
    run[RunOf[g]] = "returned" => rows[g][s] # "none"

(* Records reach commit_success only when every request of the fan-out was *)
(* answered; a partial fan-out never replaces the last good object.        *)
SuccessHasEveryAnswer ==
  \A g \in Group, s \in Source :
    rows[g][s] = "success" => \A q \in RequestsOf(g) : request[q] = "ok"

(* In a domain fetched one request at a time the circuit opens behind the  *)
(* failure: while it is open no request is under way.                      *)
SerialCircuitIsQuiet ==
  \A d \in Domain : DomainCap[d] = 1 /\ opened[d] # Closed => FetchingFrom(d) = {}

CooldownOver(d) ==
  opened[d] # Closed /\ opened'[d] = Closed => clock - opened[d] >= Cooldown

(* ... and it closes again only when its cooldown is over.                 *)
SerialCircuitCoolsDown ==
  [][\A d \in Domain : DomainCap[d] = 1 => CooldownOver(d)]_vars

(* The two semaphores, the open circuits, the fan-outs and the raises      *)
(* leave no run waiting for ever.                                          *)
EveryRunEnds == \A r \in Run : Collecting(r) ~> ~Collecting(r)
=============================================================================
