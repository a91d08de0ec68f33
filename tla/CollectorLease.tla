--------------------------- MODULE CollectorLease ---------------------------
(***************************************************************************)
(* The SQLite singleton lease of the market-data collector                 *)
(* (market_data_scheduler.py: acquire_lease, release_lease and the         *)
(* try/finally around every collector run).                                *)
(*                                                                         *)
(* A run is one call of run_snapshot, run_eod, run_source, run_all or      *)
(* reconcile_research_session in any process that opens the database: the  *)
(* foreground loop, the API server's manual refresh or a CLI command.  It  *)
(* is handed an instant `at' by its caller, draws a fresh uuid as owner    *)
(* and asks for the one row of market_data_scheduler_leases.  Nothing      *)
(* renews the row afterwards, although it has a heartbeat_at column.       *)
(***************************************************************************)
EXTENDS Naturals

CONSTANTS
  Run,       \* the runs of a behaviour, each with its own owner_id
  TtlOf,     \* ttl_seconds a run asks for: 900 in run_all, 120 elsewhere
  MaxNow     \* bound of the clock, for model checking

ASSUME TtlAssumption == TtlOf \in [Run -> Nat \ {0}]
ASSUME MaxNowAssumption == MaxNow \in Nat

VARIABLES
  now,       \* the wall clock
  lease,     \* the lease row: [owner, expires], or NoLease
  pc,        \* where each run is
  instant    \* the `at' argument of each run, a reading of the clock

vars == <<now, lease, pc, instant>>

NoLease == [owner |-> "none", expires |-> 0]

(* The lifecycle of a run.  "entered": its caller read the clock and the   *)
(* run may still wait, for as long as earlier awaits of that caller take.  *)
Location == {"idle", "entered", "collecting", "done", "held", "crashed"}

(* A plausible bug: the timedelta is subtracted.                           *)
ExpiresAt_SignError(r) == instant[r] - TtlOf[r]

(* The expires_at a run writes: ttl_seconds after the instant it was       *)
(* handed, not after the moment the row is written.                        *)
ExpiresAt(r) == instant[r] + TtlOf[r]

LeaseRow == {NoLease} \cup [owner : Run, expires : Nat]

TypeOK ==
  /\ now \in Nat
  /\ lease \in LeaseRow
  /\ pc \in [Run -> Location]
  /\ instant \in [Run -> Nat]

Init ==
  /\ now = 0
  /\ lease = NoLease
  /\ pc = [r \in Run |-> "idle"]
  /\ instant = [r \in Run |-> 0]

Tick ==
  /\ now < MaxNow
  /\ now' = now + 1
  /\ UNCHANGED <<lease, pc, instant>>

(* The caller evaluates datetime.now and passes it on as `at'.             *)
Enter(r) ==
  /\ pc[r] = "idle"
  /\ pc' = [pc EXCEPT ![r] = "entered"]
  /\ instant' = [instant EXCEPT ![r] = now]
  /\ UNCHANGED <<now, lease>>

(* A plausible bug: the expiry instant itself no longer counts as held.    *)
HeldByOther_OffByOne(r) ==
  /\ lease # NoLease
  /\ lease.owner # r
  /\ lease.expires > instant[r] + 1

(* The row another owner holds refuses the run when it expires after the   *)
(* run's instant.                                                          *)
HeldByOther(r) ==
  /\ lease # NoLease
  /\ lease.owner # r
  /\ lease.expires > instant[r]

(* acquire_lease: BEGIN IMMEDIATE, read the row, upsert it.                *)
acquire_lease(r) ==
  /\ pc[r] = "entered"
  /\ ~HeldByOther(r)
  /\ lease' = [owner |-> r, expires |-> ExpiresAt(r)]
  /\ pc' = [pc EXCEPT ![r] = "collecting"]
  /\ UNCHANGED <<now, instant>>

(* acquire_lease returns False and the run ends with LEASE_HELD.           *)
LeaseHeld(r) ==
  /\ pc[r] = "entered"
  /\ HeldByOther(r)
  /\ pc' = [pc EXCEPT ![r] = "held"]
  /\ UNCHANGED <<now, lease, instant>>

(* A plausible bug: DELETE ... WHERE lease_key = ? without the owner.      *)
release_lease_AnyOwner(r) ==
  /\ pc[r] = "collecting"
  /\ lease' = NoLease
  /\ pc' = [pc EXCEPT ![r] = "done"]
  /\ UNCHANGED <<now, instant>>

(* The finally clause of a run that returned or raised: DELETE ... WHERE   *)
(* owner_id = ?, which leaves a row of another owner alone.                *)
release_lease(r) ==
  /\ pc[r] = "collecting"
  /\ lease' = IF lease # NoLease /\ lease.owner = r THEN NoLease ELSE lease
  /\ pc' = [pc EXCEPT ![r] = "done"]
  /\ UNCHANGED <<now, instant>>

(* The process dies: the finally clause does not run, the row stays.       *)
Crash(r) ==
  /\ pc[r] \in {"entered", "collecting"}
  /\ pc' = [pc EXCEPT ![r] = "crashed"]
  /\ UNCHANGED <<now, lease, instant>>

RunStep(r) ==
  Enter(r) \/ acquire_lease(r) \/ LeaseHeld(r) \/ release_lease(r) \/ Crash(r)

Next == Tick \/ \E r \in Run : RunStep(r)

Spec == Init /\ [][Next]_vars
-----------------------------------------------------------------------------
(* A run holds the lease in earnest while it collects and its expiry has   *)
(* not passed.                                                             *)
Protected(r) == pc[r] = "collecting" /\ now < ExpiresAt(r)

(* While a run that collects has not reached the expiry it wrote, no other *)
(* run collects under an unexpired lease, whatever order the runs entered, *)
(* acquired, crashed or released in and however old their instants are.    *)
ProtectedRunsAreAlone ==
  \A r, s \in Run : Protected(r) /\ Protected(s) => r = s

(* Until its expiry the row of a collecting run is its own: neither a late *)
(* release by an expired predecessor nor a takeover by a run with a stale  *)
(* instant removes it.                                                     *)
ProtectedRunOwnsRow ==
  \A r \in Run :
    Protected(r) => lease = [owner |-> r, expires |-> ExpiresAt(r)]
=============================================================================
