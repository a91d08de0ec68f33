--------------------------- MODULE SnapshotSlots ---------------------------
(***************************************************************************)
(* The foreground loop of the market-data collector on one trading day     *)
(* (market_data_scheduler.py: start_foreground, tick, _finalized_slots,    *)
(* run_snapshot), with collection enabled and schedules activated.  Each   *)
(* pass reads the clock once and hands that instant to the reconciliation, *)
(* to the checkpoints and to the lease, however long the passes before     *)
(* took.  A manual refresh of the API server competes for the lease; what  *)
(* the lease itself guarantees is the module CollectorLease.               *)
(***************************************************************************)
EXTENDS Integers, FiniteSets

CONSTANTS
  Slot,      \* SNAPSHOT_SLOTS, numbered in the order of the day
  At,        \* the expected time of each slot
  Grace,     \* slot_grace_seconds, 180 in the code
  EodFrom,   \* when nse_session_phase turns to EOD_WINDOW
  MaxNow,    \* bound of the clock
  Failures   \* a pass may raise and the process may die

ASSUME SlotAssumption ==
  /\ Slot \subseteq Nat \ {0}
  /\ IsFiniteSet(Slot)
  /\ At \in [Slot -> Nat]
  /\ Grace \in Nat
  /\ EodFrom \in Nat
  /\ MaxNow \in Nat
  /\ Failures \in BOOLEAN

VARIABLES
  now,        \* the wall clock
  loop,       \* where the foreground loop is
  instant,    \* now_ist of the current pass
  todo,       \* slots the for loop of tick has still to visit
  current,    \* the slot being collected, 0 for none
  lease,      \* who owns the lease row
  runs        \* states of the rows of market_data_scheduler_runs, by slot

passVars == <<instant, todo, current>>
vars == <<now, loop, passVars, lease, runs>>

TypeOK ==
  /\ now \in Nat
  /\ loop \in {"down", "sleeping", "reconciling", "ticking", "collecting", "eod"}
  /\ instant \in Nat
  /\ todo \subseteq Slot
  /\ current \in Slot \cup {0}
  /\ lease \in {"free", "loop", "manual", "dead"}
  /\ runs \in [Slot -> SUBSET {"COMPLETED", "MISSED"}]

Init ==
  /\ now = 0
  /\ loop = "down"
  /\ instant = 0 /\ todo = {} /\ current = 0
  /\ lease = "free"
  /\ runs = [s \in Slot |-> {}]

ClockTick ==
  /\ now < MaxNow
  /\ now' = now + 1
  /\ UNCHANGED <<loop, passVars, lease, runs>>

(* The API server or the CLI starts the loop; nothing restarts it.         *)
start_foreground ==
  /\ loop = "down"
  /\ loop' = "sleeping"
  /\ UNCHANGED <<now, passVars, lease, runs>>

(* The pass begins: now_ist is read, reconcile_research_session is called. *)
(* It fetches under the lease when something is due and the lease is free. *)
Wake ==
  /\ loop = "sleeping"
  /\ loop' = "reconciling"
  /\ instant' = now
  /\ lease' \in IF lease = "free" THEN {"free", "loop"} ELSE {lease}
  /\ UNCHANGED <<now, todo, current, runs>>

ReleaseOwn == lease' = IF lease = "loop" THEN "free" ELSE lease

(* A plausible bug: COMPLETED rows do not finalize a slot.                 *)
_finalized_slots_OnlyMissed == {s \in Slot : "MISSED" \in runs[s]}

(* MARKET_CLOSED, the outcome of a closed session, is COMPLETED here.      *)
_finalized_slots == {s \in Slot : runs[s] # {}}

(* tick reads the finalized slots once and visits the reached others.      *)
BeginTick ==
  /\ loop = "reconciling"
  /\ loop' = "ticking"
  /\ todo' = {s \in Slot : At[s] <= instant /\ s \notin _finalized_slots}
  /\ ReleaseOwn
  /\ UNCHANGED <<now, instant, current, runs>>

NextSlot(s) ==
  /\ loop = "ticking"
  /\ s \in todo
  /\ \A q \in todo : s <= q

Late(s) == instant - At[s] > Grace

(* A plausible bug: the missed slot is reported but not saved.             *)
SlotMissed_NotSaved(s) ==
  /\ NextSlot(s)
  /\ Late(s)
  /\ todo' = todo \ {s}
  /\ UNCHANGED <<now, loop, instant, current, lease, runs>>

(* run_snapshot: the grace window elapsed, the slot is saved as MISSED.    *)
SlotMissed(s) ==
  /\ NextSlot(s)
  /\ Late(s)
  /\ runs' = [runs EXCEPT ![s] = @ \cup {"MISSED"}]
  /\ todo' = todo \ {s}
  /\ UNCHANGED <<now, loop, instant, current, lease>>

(* A plausible bug: the LEASE_HELD result is saved like the others.        *)
SlotLeaseHeld_Saved(s) ==
  /\ NextSlot(s)
  /\ ~Late(s)
  /\ lease # "free"
  /\ runs' = [runs EXCEPT ![s] = @ \cup {"LEASE_HELD"}]
  /\ todo' = todo \ {s}
  /\ UNCHANGED <<now, loop, instant, current, lease>>

(* Another collector owns the lease: LEASE_HELD, nothing is saved.         *)
SlotLeaseHeld(s) ==
  /\ NextSlot(s)
  /\ ~Late(s)
  /\ lease # "free"
  /\ todo' = todo \ {s}
  /\ UNCHANGED <<now, loop, instant, current, lease, runs>>

BeginSlot(s) ==
  /\ NextSlot(s)
  /\ ~Late(s)
  /\ lease = "free"
  /\ lease' = "loop"
  /\ loop' = "collecting"
  /\ current' = s
  /\ todo' = todo \ {s}
  /\ UNCHANGED <<now, instant, runs>>

(* Sources collected, manifest written, run saved, cash pipeline done.     *)
SlotCompleted ==
  /\ loop = "collecting"
  /\ runs' = [runs EXCEPT ![current] = @ \cup {"COMPLETED"}]
  /\ loop' = "ticking"
  /\ current' = 0
  /\ lease' = "free"
  /\ UNCHANGED <<now, instant, todo>>

(* tick is through: in the EOD window of the pass, run_eod fetches under   *)
(* the lease when it gets it.                                              *)
BeginEod ==
  /\ loop = "ticking"
  /\ todo = {}
  /\ instant >= EodFrom
  /\ loop' = "eod"
  /\ lease' \in IF lease = "free" THEN {"free", "loop"} ELSE {lease}
  /\ UNCHANGED <<now, passVars, runs>>

EndPass ==
  /\ \/ loop = "ticking" /\ todo = {} /\ instant < EodFrom
     \/ loop = "eod"
  /\ loop' = "sleeping"
  /\ ReleaseOwn
  /\ UNCHANGED <<now, passVars, runs>>

Stopped ==
  /\ loop' = "down"
  /\ todo' = {} /\ current' = 0
  /\ UNCHANGED <<now, instant>>

(* An exception leaves start_foreground; finally releases the lease.  The  *)
(* lookups before the cash pipeline may raise after the slot was saved.    *)
PassRaises ==
  /\ Failures
  /\ loop \in {"reconciling", "ticking", "collecting", "eod"}
  /\ Stopped
  /\ ReleaseOwn
  /\ runs' \in IF loop = "collecting"
               THEN {runs, [runs EXCEPT ![current] = @ \cup {"COMPLETED"}]}
               ELSE {runs}

(* The process dies: its lease row stays behind.                           *)
Crash ==
  /\ Failures
  /\ loop # "down"
  /\ Stopped
  /\ lease' = IF lease = "loop" THEN "dead" ELSE lease
  /\ UNCHANGED <<runs>>

(* run_all of the API server, or its end.                                  *)
ManualBegin ==
  /\ lease = "free"
  /\ lease' = "manual"
  /\ UNCHANGED <<now, loop, passVars, runs>>

(* The manual refresh ends, or the row of a dead process expires.          *)
LeaseFreed ==
  /\ lease \in {"manual", "dead"}
  /\ lease' = "free"
  /\ UNCHANGED <<now, loop, passVars, runs>>

SlotStep(s) == SlotMissed(s) \/ SlotLeaseHeld(s) \/ BeginSlot(s)
LoopStep ==
  \/ Wake \/ BeginTick \/ SlotCompleted \/ BeginEod \/ EndPass
  \/ \E s \in Slot : SlotStep(s)

Next ==
  \/ ClockTick \/ start_foreground \/ LoopStep
  \/ PassRaises \/ Crash \/ ManualBegin \/ LeaseFreed

Spec == Init /\ [][Next]_vars

(* Every await of the loop returns (the HTTP client has timeouts, the      *)
(* sleep ends) and time goes on.                                           *)
FairSpec == Spec /\ WF_vars(LoopStep) /\ WF_vars(ClockTick)
-----------------------------------------------------------------------------
(* Rows of a slot, as the ledger sees them.                                *)
Outcome(s) ==
  CASE runs[s] = {} -> "PENDING"
    [] runs[s] = {"COMPLETED"} -> "COMPLETED"
    [] runs[s] = {"MISSED"} -> "MISSED"
    [] OTHER -> "CONTRADICTORY"

Ledger ==
  INSTANCE SlotLedger WITH clock <- now, outcome <- [s \in Slot |-> Outcome(s)]

(* The loop implements the ledger: over restarts, exceptions and refused   *)
(* leases a slot is settled once, is never both COMPLETED and MISSED, and  *)
(* is never given up while its grace window is open.                       *)
LedgerSpec == Ledger!Spec

(* The lease row says "loop" exactly while the loop may be collecting.     *)
LeaseMatchesLoop ==
  /\ loop = "collecting" => lease = "loop" /\ current \in Slot
  /\ lease = "loop" => loop \in {"reconciling", "collecting", "eod"}

(* A loop that stays up settles every slot of the day, whatever raised or  *)
(* crashed before and also when manual refreshes keep taking the lease:    *)
(* once the grace window is over no lease is needed to record the slot as  *)
(* MISSED.                                                                 *)
EverySlotSettled ==
  <>[](loop # "down") => \A s \in Slot : <>(runs[s] # {})
=============================================================================
