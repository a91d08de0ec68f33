--------------------------- MODULE ManualRefresh ---------------------------
(***************************************************************************)
(* The manual refresh of the API server (market_data_scheduler.py:         *)
(* ManualRefreshCoordinator around run_all) beside the other runs that ask *)
(* for the collector lease, and the manifest the panels then show          *)
(* (market_data_alignment.py: _latest_manifest).                           *)
(*                                                                         *)
(* A refresh is one run of CollectorLease.  start and the end of _execute  *)
(* have no await between their tests and their assignments, but the other  *)
(* processes and the thread that answers status() come between any two     *)
(* steps.  The sources and the counts of a manifest are left out: each     *)
(* lists the last-good objects of the moment it is written, so a later row *)
(* is never older in content.                                              *)
(***************************************************************************)
EXTENDS CollectorLease, Sequences, SequencesExt

CONSTANTS
  Refresh,   \* the runs that POST /api/market-data/refresh starts
  None

ASSUME RefreshAssumption == Refresh \subseteq Run /\ None \notin Run

VARIABLES
  task,      \* _task: the refresh that executes or executed last
  state,     \* _state["state"]
  settled,   \* the refreshes whose _execute has ended, or died
  manifests  \* market_data_manifests in the order of their commits

refreshVars == <<task, state, settled, manifests>>

State == {"IDLE", "RUNNING", "COMPLETED", "LEASE_HELD", "FAILED"}

\* A collected manifest is timely when its run still holds the lease.
Row == [run : Run, kind : {"timely", "late", "audit"}]

RefreshTypeOK ==
  /\ TypeOK
  /\ task \in Refresh \cup {None}
  /\ state \in State
  /\ settled \subseteq Refresh
  /\ manifests \in Seq(Row)

RefreshInit ==
  /\ Init
  /\ task = None
  /\ state = "IDLE"
  /\ settled = {}
  /\ manifests = <<>>

Written == {m.run : m \in ToSet(manifests)}
-----------------------------------------------------------------------------
(* The task of an accepted start runs before the event loop does anything  *)
(* that takes time.                                                        *)
Time == (\A r \in Refresh : pc[r] # "entered") /\ Tick /\ UNCHANGED refreshVars

(* A plausible bug: start does not ask whether the task is done.           *)
TaskDone_Unchecked == task = task

(* self._task is None or done().                                           *)
TaskDone == task \in settled \cup {None}

(* An accepted start; a refused one changes nothing.                       *)
StartRefresh(r) ==
  /\ TaskDone
  /\ Enter(r)
  /\ task' = r
  /\ state' = "RUNNING"
  /\ UNCHANGED <<settled, manifests>>

(* Any other run: of the foreground loop, or of a command of the CLI.      *)
EnterOther(r) == r \notin Refresh /\ Enter(r) /\ UNCHANGED refreshVars

AskForLease(r) ==
  /\ acquire_lease(r) \/ LeaseHeld(r)
  /\ UNCHANGED refreshVars

(* _write_manifest at the end of a collection.                             *)
WriteManifest(r) ==
  /\ pc[r] = "collecting"
  /\ r \notin Written
  /\ manifests' = Append(manifests,
       [run |-> r, kind |-> IF now < ExpiresAt(r) THEN "timely" ELSE "late"])
  /\ UNCHANGED <<vars, task, state, settled>>

(* _blocked_result: a checkpoint that is missed or not enabled asks for no *)
(* lease and writes its manifest, of the last-good objects, at once.       *)
WriteAudit(r) ==
  /\ r \notin Refresh
  /\ pc[r] = "entered"
  /\ manifests' = Append(manifests, [run |-> r, kind |-> "audit"])
  /\ pc' = [pc EXCEPT ![r] = "done"]
  /\ UNCHANGED <<now, lease, instant, task, state, settled>>

(* The run returns or raises, before or after its manifest.                *)
EndRun(r) == release_lease(r) /\ UNCHANGED refreshVars

(* The state _execute ends with.  A run that wrote its manifest may still  *)
(* raise, in _save_run or when the manifest is read for its counts.        *)
Outcome(r) ==
  IF pc[r] = "held" THEN {"LEASE_HELD"}
  ELSE {"FAILED"} \cup {s \in {"COMPLETED"} : r \in Written}

(* The end of _execute.                                                    *)
Settle(r) ==
  /\ pc[r] \in {"done", "held"}
  /\ r \notin settled
  /\ state' \in Outcome(r)
  /\ settled' = settled \cup {r}
  /\ UNCHANGED <<vars, task, manifests>>

CrashOther(r) == r \notin Refresh /\ Crash(r) /\ UNCHANGED refreshVars

(* The API server ends, its refresh with it, and is started again.         *)
Restart ==
  /\ task # None
  /\ pc' = [r \in Run |->
              IF r \in Refresh /\ pc[r] \in {"entered", "collecting"}
              THEN "crashed" ELSE pc[r]]
  /\ settled' = settled \cup {r \in Refresh : pc[r] # "idle"}
  /\ task' = None
  /\ state' = "IDLE"
  /\ UNCHANGED <<now, lease, instant, manifests>>

RefreshNext ==
  \/ Time \/ Restart
  \/ \E r \in Refresh : StartRefresh(r) \/ Settle(r)
  \/ \E r \in Run :
       \/ EnterOther(r) \/ AskForLease(r) \/ WriteManifest(r) \/ WriteAudit(r)
       \/ EndRun(r) \/ CrashOther(r)

RefreshSpec == RefreshInit /\ [][RefreshNext]_<<vars, refreshVars>>
-----------------------------------------------------------------------------
(* status() speaks of the newest refresh: while it says RUNNING that one   *)
(* and no other is under way, COMPLETED means that its manifest is stored, *)
(* LEASE_HELD that it collected nothing, through starts that overlap and   *)
(* restarts (start, _execute).                                             *)
StatusIsTrue ==
  /\ \A r \in Refresh : pc[r] # "idle" /\ r \notin settled =>
       task = r /\ state = "RUNNING"
  /\ state = "RUNNING" => task # None /\ task \notin settled
  /\ state = "COMPLETED" => task \in Written
  /\ state = "LEASE_HELD" => pc[task] = "held" /\ task \notin Written

(* The panels show the manifest with the latest instant of the run that    *)
(* wrote it.  Once a refresh that kept its lease is COMPLETED no           *)
(* collection that was committed before it is shown in its place, although *)
(* instants and commits come in different orders.  The manifest of a       *)
(* missed checkpoint may be: it needs no lease.                            *)
RefreshIsShown ==
  state = "COMPLETED" =>
    \A i, j \in DOMAIN manifests :
      /\ manifests[i].run = task /\ manifests[i].kind = "timely"
      /\ j < i /\ manifests[j].kind # "audit"
      => instant[manifests[j].run] <= instant[task]
=============================================================================
