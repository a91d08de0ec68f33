----------------------------- MODULE LivePanels -----------------------------
(***************************************************************************)
(* The snapshot behind GET /api/panels/live (live_panels.py:               *)
(* LivePanelsService): concurrent get_snapshot calls and the background    *)
(* loop share a lock, the latest snapshot, a circuit breaker and a         *)
(* quarantine per source.  This is the service without a canonical         *)
(* provider; with one, get_snapshot has no await and touches neither the   *)
(* breaker nor a quarantine (ManualRefresh has what it shows).             *)
(*                                                                         *)
(* Every instant the code stores is a distance in time from now here, of   *)
(* an `instant' that a call read before it waited for the lock: how long   *)
(* ago it was, or how long it is still to come.  A call whose answer       *)
(* changes no state (disabled, circuit open, cache) is left out, as are    *)
(* the rows of the panels.                                                 *)
(***************************************************************************)
EXTENDS Integers, Sequences, FiniteSets, FiniteSetsExt, SequencesExt

CONSTANTS
  Callers,     \* concurrent requests
  Loop,        \* the background loop, which calls get_snapshot as well
  Source,      \* P0_SOURCE_KEYS
  PreOpenSource, \* nse_preopen_fo, all that is asked for before the opening
  Widespread,  \* failures that make a cycle a failed one, 5 in the code
  TripAfter,   \* consecutive failed cycles that open the breaker, 3
  RestAfter,   \* consecutive failures that quarantine a source, 3
  FirstPause, LaterPause, \* of the breaker, 15 and 30 minutes
  Rest,        \* of a source, 10 minutes
  MaxAge,      \* maxAgeSec of the calls
  MaxLag,      \* bound of the duration of a call
  None

ASSUME PanelAssumption ==
  /\ Loop \notin Callers /\ PreOpenSource \in Source
  /\ {Widespread, TripAfter, RestAfter, FirstPause, LaterPause, Rest} \subseteq Nat \ {0}
  /\ MaxAge \in Nat
  /\ MaxLag \in Nat

Client == Callers \cup {Loop}

VARIABLES
  session,     \* the phase of the trading day
  latest,      \* _latest: the age of its generatedAt, and all sources eligible
  failed,      \* _consecutive_widespread_failures
  tripped,     \* _breaker_trip_count is not 0
  breaker,     \* how long until _breaker_until
  failures,    \* _source_failure_counts, up to RestAfter
  quarantine,  \* how long until _source_quarantine_until of a source
  queue,       \* the holder of _lock, and who waits for it
  call,        \* what a call was asked for and has seen
  lag,         \* how long ago its `instant' is
  asked,       \* what the call that fetches asked for
  stopping,    \* _scheduler_stop
  calm,        \* from now on the publisher answers as it should, snapshots
               \* are saved and nobody stops the service, until the market closes
  unsaved      \* history: the snapshot of the cycle that opened the breaker
               \* was not saved

safety == <<failed, tripped, breaker, failures, quarantine, unsaved>>
calls == <<queue, call, lag, asked>>
day == <<session, stopping, calm>>
panelVars == <<latest, safety, calls, day>>

Session == {"PRE_OPEN", "OPEN", "MARKET_CLOSED"}
Call == [refresh : BOOLEAN, force : BOOLEAN, session : Session, overtaken : BOOLEAN]
Snapshot == [age : 0..MaxAge + MaxLag + 1, whole : BOOLEAN]

ASSUME NoneAssumption == None \notin Call /\ None \notin Snapshot

PanelTypeOK ==
  /\ session \in Session
  /\ latest \in Snapshot \cup {None}
  /\ failed \in 0..TripAfter - 1
  /\ tripped \in BOOLEAN /\ unsaved \in BOOLEAN
  /\ stopping \in BOOLEAN /\ calm \in BOOLEAN
  /\ breaker \in -MaxLag..Max({FirstPause, LaterPause})
  /\ failures \in [Source -> 0..RestAfter]
  /\ quarantine \in [Source -> -MaxLag..Rest]
  /\ queue \in Seq(Client)
  /\ call \in [Client -> Call \cup {None}]
  /\ lag \in [Client -> 0..MaxLag]
  /\ asked \in (SUBSET Source) \cup {None}

PanelInit ==
  /\ session \in {"PRE_OPEN", "OPEN"}
  /\ latest = None
  /\ failed = 0 /\ tripped = FALSE /\ breaker = -MaxLag
  /\ failures = [s \in Source |-> 0]
  /\ quarantine = [s \in Source |-> -MaxLag]
  /\ queue = <<>>
  /\ call = [q \in Client |-> None]
  /\ lag = [q \in Client |-> 0]
  /\ asked = None
  /\ stopping = FALSE /\ calm = FALSE /\ unsaved = FALSE
-----------------------------------------------------------------------------
Sooner(left) == IF left > -MaxLag THEN left - 1 ELSE left

(* A call ends within MaxLag.                                              *)
Tick ==
  /\ \A q \in ToSet(queue) : lag[q] < MaxLag
  /\ latest' = IF latest = None \/ latest.age > MaxAge + MaxLag THEN latest
               ELSE [latest EXCEPT !.age = @ + 1]
  /\ breaker' = Sooner(breaker)
  /\ unsaved' = (unsaved /\ breaker' > 0)
  /\ quarantine' = [s \in Source |-> Sooner(quarantine[s])]
  /\ lag' = [q \in Client |-> IF q \in ToSet(queue) THEN lag[q] + 1 ELSE 0]
  /\ UNCHANGED <<failed, tripped, failures, queue, call, asked, day>>

NextSession ==
  /\ ~ calm
  /\ \/ session = "PRE_OPEN" /\ session' = "OPEN"
     \/ session = "OPEN" /\ session' = "MARKET_CLOSED"
  /\ UNCHANGED <<latest, safety, calls, stopping, calm>>

CalmDown ==
  /\ ~ stopping /\ session = "OPEN"
  /\ calm' = TRUE
  /\ UNCHANGED <<latest, safety, calls, session, stopping>>

Stop ==
  /\ ~ calm
  /\ stopping' = TRUE
  /\ UNCHANGED <<latest, safety, calls, session, calm>>
-----------------------------------------------------------------------------
CircuitOpen == breaker > 0

(* get_snapshot up to the lock: the circuit and the cache are asked before *)
(* it, and the generation is read.                                         *)
Enter(q, refresh, force) ==
  /\ q \notin ToSet(queue)
  /\ ~ CircuitOpen
  /\ refresh \/ latest = None
  /\ queue' = Append(queue, q)
  /\ call' = [call EXCEPT ![q] = [refresh |-> refresh, force |-> force,
                                  session |-> session, overtaken |-> FALSE]]
  /\ UNCHANGED <<latest, safety, lag, asked, day>>

Request(q) == q \in Callers /\ \E refresh, force \in BOOLEAN : Enter(q, refresh, force)

LoopCalls ==
  /\ ~ stopping
  /\ session \in {"PRE_OPEN", "OPEN"}
  /\ Enter(Loop, TRUE, FALSE)

Leave(q) ==
  /\ queue' = Tail(queue)
  /\ lag' = [lag EXCEPT ![q] = 0]
  /\ asked' = None

(* A plausible bug: the generation is not compared under the lock.         *)
Answered_NoGeneration(q) ==
  \/ latest # None /\ ~ call[q].force /\ call[q].session = "OPEN"
     /\ latest.age - lag[q] <= MaxAge
  \/ ~ call[q].refresh
  \/ call[q].session = "MARKET_CLOSED" /\ ~ call[q].force

(* Under the lock a call is answered without a fetch when another stored a *)
(* snapshot since it came, when the latest is young enough for it, when it *)
(* is not to refresh, or when the market is closed.                        *)
Answered(q) ==
  \/ latest # None /\ call[q].overtaken
  \/ latest # None /\ ~ call[q].force /\ call[q].session = "OPEN"
     /\ latest.age - lag[q] <= MaxAge
  \/ ~ call[q].refresh
  \/ call[q].session = "MARKET_CLOSED" /\ ~ call[q].force

Holds(q) == queue # <<>> /\ Head(queue) = q /\ asked = None

Answer(q) ==
  /\ Holds(q) /\ Answered(q)
  /\ call' = [call EXCEPT ![q] = None]
  /\ Leave(q)
  /\ UNCHANGED <<latest, safety, day>>

Allowed(q) ==
  IF call[q].session = "PRE_OPEN" /\ ~ call[q].force THEN {PreOpenSource} ELSE Source

Fetch(q) ==
  /\ Holds(q) /\ ~ Answered(q)
  /\ asked' = {s \in Allowed(q) : quarantine[s] <= -lag[q]}
  /\ UNCHANGED <<latest, safety, queue, call, lag, day>>

WidespreadFailure(broken) ==
  Cardinality(broken) >= Max({Widespread, Cardinality(asked) \div 2})

Trips(broken) == WidespreadFailure(broken) /\ failed + 1 >= TripAfter

(* A plausible bug: a source that rests counts as one that failed.         *)
Failing_Resting(good) == Source \ good

(* The sources whose count of consecutive failures goes up.                *)
Failing(good) == asked \ good

(* A plausible bug: the count goes on when the breaker opens.              *)
FailedCycles_NotReset(broken) ==
  IF WidespreadFailure(broken) THEN failed + 1 ELSE 0

(* _consecutive_widespread_failures after a cycle.                         *)
FailedCycles(broken) ==
  IF WidespreadFailure(broken) /\ ~ Trips(broken) THEN failed + 1 ELSE 0

(* _update_safety_state, where `broken' could not be fetched and what is   *)
(* not `good' is stale, of another day or malformed as well.               *)
UpdateSafety(q, good, broken) ==
  /\ failed' = FailedCycles(broken)
  /\ failures' = [s \in Source |->
       CASE s \in good -> 0
         [] s \in Failing(good) -> Min({failures[s] + 1, RestAfter})
         [] OTHER -> failures[s]]
  /\ quarantine' = [s \in Source |->
       CASE s \in good -> -MaxLag
         [] s \in Failing(good) /\ failures[s] + 1 >= RestAfter -> Rest - lag[q]
         [] OTHER -> quarantine[s]]
  /\ tripped' = (tripped \/ Trips(broken))
  /\ breaker' = IF ~ Trips(broken) THEN breaker
                ELSE (IF tripped THEN LaterPause ELSE FirstPause) - lag[q]

(* fetch_many has answered; the rest of the call has no await.  _save may  *)
(* raise, after the safety state is updated: then the latest snapshot and  *)
(* the generation stay.                                                    *)
Finish(q) ==
  /\ asked # None /\ Head(queue) = q
  /\ \E good \in SUBSET asked, saved, whole \in BOOLEAN :
     \E broken \in SUBSET (asked \ good) :
       /\ calm => good = asked /\ saved
       /\ whole => good = Source
       /\ calm /\ good = Source => whole
       /\ UpdateSafety(q, good, broken)
       /\ latest' = IF saved THEN [age |-> lag[q], whole |-> whole] ELSE latest
       /\ call' = [c \in Client |->
            IF c = q \/ call[c] = None THEN None
            ELSE [call[c] EXCEPT !.overtaken = @ \/ saved]]
       /\ unsaved' = IF Trips(broken) THEN ~ saved ELSE unsaved
  /\ Leave(q)
  /\ UNCHANGED day

Work(q) == Answer(q) \/ Fetch(q) \/ Finish(q)

PanelNext ==
  \/ Tick \/ NextSession \/ CalmDown \/ Stop
  \/ LoopCalls
  \/ \E q \in Callers : Request(q)
  \/ \E q \in Client : Work(q)

(* Every await ends, the loop sleeps for a while only, and time goes on.   *)
Fairness ==
  /\ WF_panelVars(Tick) /\ WF_panelVars(LoopCalls)
  /\ WF_panelVars(\E q \in Client : Work(q))

PanelSpec == PanelInit /\ [][PanelNext]_panelVars /\ Fairness
-----------------------------------------------------------------------------
(* While the breaker is open nothing is asked of the publisher, not even   *)
(* by the calls that passed the breaker before it opened and waited for    *)
(* the lock: the stored snapshot of the cycle that opened it answers them. *)
(* Only if that snapshot could not be saved do they fetch, one by one.     *)
BreakerStopsFetches == asked # None /\ CircuitOpen => unsaved

(* From whatever breaker, quarantines, failed saves and waiting calls: once *)
(* the publisher answers well for the rest of the session, the panels   *)
(* have all their sources again.                                           *)
PanelsRecover == calm ~> latest # None /\ latest.whole
=============================================================================
