------------------------- MODULE ManualRefresh_proofs -------------------------
(***************************************************************************)
(* Proofs about the collector lease, for any set of runs, any time-to-live *)
(* per run and any clock, and about the manual refresh beside such runs.   *)
(***************************************************************************)
EXTENDS ManualRefresh, TLAPS


LEMMA LeaseTypeStep == TypeOK /\ [Next]_vars => TypeOK'
<1> SUFFICES ASSUME TypeOK, [Next]_vars PROVE TypeOK'
  OBVIOUS
<1> USE DEF TypeOK, LeaseRow, Location
<1>1. CASE Tick
  BY <1>1 DEF Tick
<1>2. ASSUME NEW r \in Run, Enter(r) PROVE TypeOK'
  BY <1>2 DEF Enter
<1>3. ASSUME NEW r \in Run, acquire_lease(r) PROVE TypeOK'
  <2>1. ExpiresAt(r) \in Nat
    BY TtlAssumption DEF ExpiresAt
  <2>2. QED
    BY <1>3, <2>1 DEF acquire_lease
<1>4. ASSUME NEW r \in Run, LeaseHeld(r) PROVE TypeOK'
  BY <1>4 DEF LeaseHeld
<1>5. ASSUME NEW r \in Run, release_lease(r) PROVE TypeOK'
  BY <1>5 DEF release_lease
<1>6. ASSUME NEW r \in Run, Crash(r) PROVE TypeOK'
  BY <1>6 DEF Crash
<1>7. CASE UNCHANGED vars
  BY <1>7 DEF vars
<1>8. QED
  BY <1>1, <1>2, <1>3, <1>4, <1>5, <1>6, <1>7 DEF Next, RunStep

(* The lease module's variables keep their types: the row is absent or a   *)
(* pair of a run and an expiry (market_data_scheduler_leases).             *)
THEOREM LeaseTyping == Spec => []TypeOK
<1>1. Init => TypeOK
  BY DEF Init, TypeOK, LeaseRow, Location
<1>2. QED
  BY <1>1, LeaseTypeStep, PTL DEF Spec

(* Instants are readings of a clock that does not run backwards.           *)
InstantsPast == \A r \in Run : instant[r] <= now

(* The inductive strengthening of the two exclusion properties: instants   *)
(* lie in the past, so a row that does not refuse a run has truly expired. *)
LeaseInv == InstantsPast /\ ProtectedRunOwnsRow

LEMMA LeaseInvStep == TypeOK /\ LeaseInv /\ [Next]_vars => LeaseInv'
<1> SUFFICES ASSUME TypeOK, LeaseInv, [Next]_vars PROVE LeaseInv'
  OBVIOUS
<1> USE TtlAssumption DEF TypeOK, LeaseRow, LeaseInv, InstantsPast,
      ProtectedRunOwnsRow, Protected, ExpiresAt
<1>1. CASE Tick
  BY <1>1 DEF Tick
<1>2. ASSUME NEW r \in Run, Enter(r) PROVE LeaseInv'
  BY <1>2 DEF Enter
<1>3. ASSUME NEW r \in Run, acquire_lease(r) PROVE LeaseInv'
  <2>1. InstantsPast'
    BY <1>3 DEF acquire_lease
  <2>2. ASSUME NEW s \in Run, Protected(s)' 
        PROVE  lease' = [owner |-> s, expires |-> ExpiresAt(s)]'
    <3>1. CASE s = r
      BY <1>3, <3>1 DEF acquire_lease
    <3>2. CASE s # r
      <4>1. Protected(s)
        BY <1>3, <2>2, <3>2 DEF acquire_lease
      <4>2. lease = [owner |-> s, expires |-> ExpiresAt(s)]
        BY <4>1
      <4>3. lease # NoLease
        <5>1. ExpiresAt(s) > 0
          BY <4>1
        <5>2. QED
          BY <4>2, <5>1 DEF NoLease
      <4>4. lease.owner # r /\ lease.expires > instant[r]
        BY <4>1, <4>2, <3>2
      <4>5. QED
        BY <1>3, <4>3, <4>4 DEF acquire_lease, HeldByOther
    <3>3. QED
      BY <3>1, <3>2
  <2>3. QED
    BY <2>1, <2>2
<1>4. ASSUME NEW r \in Run, LeaseHeld(r) PROVE LeaseInv'
  BY <1>4 DEF LeaseHeld
<1>5. ASSUME NEW r \in Run, release_lease(r) PROVE LeaseInv'
  BY <1>5 DEF release_lease
<1>6. ASSUME NEW r \in Run, Crash(r) PROVE LeaseInv'
  BY <1>6 DEF Crash
<1>7. CASE UNCHANGED vars
  BY <1>7 DEF vars
<1>8. QED
  BY <1>1, <1>2, <1>3, <1>4, <1>5, <1>6, <1>7 DEF Next, RunStep

(* Until the expiry it wrote, the row of a collecting run stays its own:   *)
(* acquire_lease never takes it over and release_lease of another run      *)
(* never deletes it.                                                       *)
THEOREM RowStaysWithProtectedRun == Spec => []ProtectedRunOwnsRow
<1>1. Init => LeaseInv
  BY DEF Init, LeaseInv, InstantsPast, ProtectedRunOwnsRow, Protected
<1>2. TypeOK /\ LeaseInv /\ [Next]_vars => LeaseInv'
  BY LeaseInvStep
<1>3. LeaseInv => ProtectedRunOwnsRow
  BY DEF LeaseInv
<1>4. QED
  BY <1>1, <1>2, <1>3, LeaseTyping, PTL DEF Spec

(* Two runs never collect together under unexpired leases, for any number  *)
(* of runs, any ttl_seconds and any staleness of their instants.           *)
THEOREM LeaseExclusion == Spec => []ProtectedRunsAreAlone
<1>1. ProtectedRunOwnsRow => ProtectedRunsAreAlone
  BY DEF ProtectedRunOwnsRow, ProtectedRunsAreAlone
<1>2. QED
  BY <1>1, RowStaysWithProtectedRun, PTL
-----------------------------------------------------------------------------
(* To the lease a step of the refresh is a step of its own, or runs end    *)
(* without release_lease: with a manifest of a missed checkpoint, or with  *)
(* the process.                                                            *)
RunsEnd ==
  /\ UNCHANGED <<now, lease, instant>>
  /\ pc' \in [Run -> Location]
  /\ \A r \in Run : pc'[r] = pc[r] \/ pc'[r] \in {"done", "crashed"}

LEMMA RefreshStepsOfLease ==
  ASSUME TypeOK, [RefreshNext]_<<vars, refreshVars>>
  PROVE  [Next]_vars \/ RunsEnd
<1>1. CASE UNCHANGED <<vars, refreshVars>> \/ Time
  BY <1>1 DEF Time, Next
<1>2. ASSUME NEW r \in Refresh, StartRefresh(r) \/ Settle(r) PROVE [Next]_vars
  BY <1>2, RefreshAssumption DEF StartRefresh, Settle, Next, RunStep
<1>3. ASSUME NEW r \in Run, EnterOther(r) \/ AskForLease(r) \/ EndRun(r) \/ CrashOther(r)
      PROVE  [Next]_vars
  BY <1>3 DEF EnterOther, AskForLease, EndRun, CrashOther, Next, RunStep
<1>4. ASSUME NEW r \in Run, WriteManifest(r) PROVE [Next]_vars
  BY <1>4 DEF WriteManifest
<1>5. ASSUME NEW r \in Run, WriteAudit(r) PROVE RunsEnd
  BY <1>5 DEF WriteAudit, RunsEnd, TypeOK, Location
<1>6. CASE Restart
  BY <1>6 DEF Restart, RunsEnd, TypeOK, Location
<1> QED BY <1>1, <1>2, <1>3, <1>4, <1>5, <1>6 DEF RefreshNext

LEMMA RefreshKeepsLease ==
  TypeOK /\ LeaseInv /\ [RefreshNext]_<<vars, refreshVars>> => TypeOK' /\ LeaseInv'
<1> SUFFICES ASSUME TypeOK, LeaseInv, [RefreshNext]_<<vars, refreshVars>>
             PROVE  TypeOK' /\ LeaseInv'
  OBVIOUS
<1>1. CASE [Next]_vars
  BY <1>1, LeaseTypeStep, LeaseInvStep
<1>2. CASE RunsEnd
  BY <1>2 DEF RunsEnd, TypeOK, LeaseInv, InstantsPast, ProtectedRunOwnsRow, Protected, ExpiresAt
<1> QED BY <1>1, <1>2, RefreshStepsOfLease

LEMMA RefreshTypeStep ==
  RefreshTypeOK /\ [RefreshNext]_<<vars, refreshVars>> /\ TypeOK' => RefreshTypeOK'
<1> SUFFICES ASSUME RefreshTypeOK, [RefreshNext]_<<vars, refreshVars>>, TypeOK'
             PROVE  RefreshTypeOK'
  OBVIOUS
<1> USE DEF RefreshTypeOK, State
<1>1. CASE UNCHANGED <<vars, refreshVars>> \/ Time
  BY <1>1 DEF Time, refreshVars
<1>2. ASSUME NEW r \in Refresh, StartRefresh(r) \/ Settle(r) PROVE RefreshTypeOK'
  BY <1>2 DEF StartRefresh, Settle, Outcome
<1>3. ASSUME NEW r \in Run, EnterOther(r) \/ AskForLease(r) \/ EndRun(r) \/ CrashOther(r)
      PROVE  RefreshTypeOK'
  BY <1>3 DEF EnterOther, AskForLease, EndRun, CrashOther, refreshVars
<1>4. ASSUME NEW r \in Run, WriteManifest(r) \/ WriteAudit(r) PROVE RefreshTypeOK'
  <2>1. PICK k \in {"timely", "late", "audit"} :
          manifests' = Append(manifests, [run |-> r, kind |-> k])
    BY <1>4 DEF WriteManifest, WriteAudit
  <2>2. [run |-> r, kind |-> k] \in Row
    BY DEF Row
  <2>3. UNCHANGED <<task, state, settled>>
    BY <1>4 DEF WriteManifest, WriteAudit
  <2> QED BY <2>1, <2>2, <2>3
<1>5. CASE Restart
  BY <1>5 DEF Restart
<1> QED BY <1>1, <1>2, <1>3, <1>4, <1>5 DEF RefreshNext

LEMMA RefreshStarts == RefreshInit => RefreshTypeOK /\ LeaseInv
<1> SUFFICES ASSUME RefreshInit PROVE RefreshTypeOK /\ LeaseInv
  OBVIOUS
<1>1. TypeOK /\ LeaseInv
  BY DEF RefreshInit, Init, TypeOK, LeaseRow, Location, LeaseInv, InstantsPast,
         ProtectedRunOwnsRow, Protected
<1> QED BY <1>1 DEF RefreshInit, RefreshTypeOK, State

(* The types of the refresh, and the lease's own promise beside it, hold   *)
(* also when runs end without asking for the lease and the API server      *)
(* takes its refresh with it.                                              *)
THEOREM RefreshTyping == RefreshSpec => [](RefreshTypeOK /\ ProtectedRunOwnsRow)
<1>1. RefreshTypeOK => TypeOK
  BY DEF RefreshTypeOK
<1>2. LeaseInv => ProtectedRunOwnsRow
  BY DEF LeaseInv
<1> QED BY <1>1, <1>2, RefreshStarts, RefreshKeepsLease, RefreshTypeStep, PTL DEF RefreshSpec
-----------------------------------------------------------------------------
LEMMA ManifestAppended ==
  ASSUME RefreshTypeOK, NEW r \in Run, NEW k, manifests' = Append(manifests, [run |-> r, kind |-> k])
  PROVE  /\ DOMAIN manifests' = 1..Len(manifests) + 1
         /\ DOMAIN manifests = 1..Len(manifests) /\ Len(manifests) \in Nat
         /\ manifests'[Len(manifests) + 1] = [run |-> r, kind |-> k]
         /\ \A i \in 1..Len(manifests) : manifests'[i] = manifests[i]
BY DEF RefreshTypeOK

(* Who wrote a manifest, by its place.                                     *)
LEMMA WrittenIs == Written = {manifests[i].run : i \in DOMAIN manifests}
BY DEF Written, ToSet

LEMMA ManifestTyping ==
  ASSUME RefreshTypeOK, NEW i \in DOMAIN manifests
  PROVE  manifests[i] \in Row /\ manifests[i].run \in Run /\ manifests[i].run \in Written
<1>1. manifests[i] \in Row
  BY DEF RefreshTypeOK
<1> QED BY <1>1, WrittenIs DEF Row

LEMMA WrittenGrows ==
  ASSUME RefreshTypeOK, NEW r \in Run, WriteManifest(r) \/ WriteAudit(r)
  PROVE  Written' = Written \cup {r}
<1>1. PICK k \in {"timely", "late", "audit"} :
        manifests' = Append(manifests, [run |-> r, kind |-> k])
  BY DEF WriteManifest, WriteAudit
<1>2. Written' = {manifests'[i].run : i \in DOMAIN manifests'}
  BY DEF Written, ToSet
<1>3. ASSUME NEW q \in Written' PROVE q \in Written \cup {r}
  BY <1>1, <1>2, <1>3, ManifestAppended, WrittenIs
<1>4. ASSUME NEW q \in Written \cup {r} PROVE q \in Written'
  <2>1. CASE q = r
    <3>1. Len(manifests) + 1 \in DOMAIN manifests'
      BY <1>1, ManifestAppended
    <3> QED BY <1>1, <1>2, <2>1, <3>1, ManifestAppended
  <2>2. CASE q \in Written
    BY <1>1, <1>2, <2>2, ManifestAppended, WrittenIs
  <2> QED BY <2>1, <2>2
<1> QED BY <1>3, <1>4

Ended == {"done", "held", "crashed"}

(* What the status rests on: a refresh that is settled has ended, and only *)
(* a run that collected or was told of a missed checkpoint has a manifest. *)
StatusInv ==
  /\ StatusIsTrue
  /\ \A r \in settled : pc[r] \in Ended
  /\ \A r \in Written : pc[r] \in {"collecting", "done", "crashed"}

LEMMA StatusStep ==
  RefreshTypeOK /\ StatusInv /\ [RefreshNext]_<<vars, refreshVars>> => StatusInv'
<1> SUFFICES ASSUME RefreshTypeOK, StatusInv, [RefreshNext]_<<vars, refreshVars>>
             PROVE  StatusInv'
  OBVIOUS
<1>u. ASSUME UNCHANGED manifests PROVE Written' = Written
  BY <1>u DEF Written, ToSet
<1> USE RefreshAssumption DEF RefreshTypeOK, TypeOK, StatusInv, StatusIsTrue, Ended
<1>1. CASE UNCHANGED <<vars, refreshVars>> \/ Time
  <2>1. UNCHANGED <<pc, task, state, settled, manifests>>
    BY <1>1 DEF Time, Tick, vars, refreshVars
  <2> QED BY <1>u, <2>1
<1>2. ASSUME NEW r \in Refresh, StartRefresh(r) PROVE StatusInv'
  <2>1. /\ pc[r] = "idle" /\ pc' = [pc EXCEPT ![r] = "entered"]
        /\ task' = r /\ state' = "RUNNING" /\ task \in settled \cup {None}
        /\ UNCHANGED <<settled, manifests>>
    BY <1>2 DEF StartRefresh, TaskDone, Enter
  <2>2. r \notin settled /\ r \notin Written /\ r \in Run
    BY <2>1
  <2> QED BY <1>u, <2>1, <2>2
<1>3. ASSUME NEW r \in Refresh, Settle(r) PROVE StatusInv'
  <2>1. task = r /\ state = "RUNNING" /\ UNCHANGED <<pc, task, manifests>>
    BY <1>3 DEF Settle, vars
  <2>2. settled' = settled \cup {r} /\ pc[r] \in {"done", "held"}
    BY <1>3 DEF Settle
  <2>3. CASE pc[r] = "held"
    BY <1>3, <1>u, <2>1, <2>2, <2>3 DEF Settle, Outcome
  <2>4. CASE pc[r] = "done"
    BY <1>3, <1>u, <2>1, <2>2, <2>4 DEF Settle, Outcome
  <2> QED BY <2>2, <2>3, <2>4
<1>4. ASSUME NEW r \in Run, EnterOther(r) PROVE StatusInv'
  <2>1. r \notin Refresh /\ pc[r] = "idle" /\ pc' = [pc EXCEPT ![r] = "entered"]
    BY <1>4 DEF EnterOther, Enter
  <2>2. UNCHANGED <<task, state, settled, manifests>>
    BY <1>4 DEF EnterOther, refreshVars
  <2> QED BY <1>u, <2>1, <2>2
<1>5. ASSUME NEW r \in Run, AskForLease(r) \/ EndRun(r) \/ CrashOther(r) PROVE StatusInv'
  <2>1. PICK l \in {"collecting", "held", "done", "crashed"} : pc' = [pc EXCEPT ![r] = l]
    BY <1>5 DEF AskForLease, acquire_lease, LeaseHeld, EndRun, release_lease, CrashOther, Crash
  <2>2. /\ pc[r] = "entered" \/ (pc[r] = "collecting" /\ l \in {"done", "crashed"})
        /\ UNCHANGED <<task, state, settled, manifests>>
    <3>1. CASE AskForLease(r)
      BY <2>1, <3>1 DEF AskForLease, acquire_lease, LeaseHeld, refreshVars
    <3>2. CASE EndRun(r)
      BY <2>1, <3>2 DEF EndRun, release_lease, refreshVars
    <3>3. CASE CrashOther(r)
      BY <2>1, <3>3 DEF CrashOther, Crash, refreshVars
    <3> QED BY <1>5, <3>1, <3>2, <3>3
  <2>3. r \notin settled
    BY <2>2
  <2>4. \A q \in Run \ {r} : pc'[q] = pc[q]
    BY <2>1
  <2>5. r \in Written => pc'[r] \in {"collecting", "done", "crashed"}
    BY <2>1, <2>2
  <2> QED BY <1>u, <2>1, <2>2, <2>3, <2>4, <2>5
<1>6. ASSUME NEW r \in Run, WriteManifest(r) PROVE StatusInv'
  <2>1. pc[r] = "collecting" /\ UNCHANGED <<pc, task, state, settled>>
    BY <1>6 DEF WriteManifest, vars
  <2> QED BY <1>6, <2>1, WrittenGrows
<1>7. ASSUME NEW r \in Run, WriteAudit(r) PROVE StatusInv'
  <2>1. /\ r \notin Refresh /\ pc[r] = "entered" /\ pc' = [pc EXCEPT ![r] = "done"]
        /\ UNCHANGED <<task, state, settled>>
    BY <1>7 DEF WriteAudit
  <2> QED BY <1>7, <2>1, WrittenGrows
<1>8. CASE Restart
  <2>1. /\ \A r \in Run : pc'[r] = pc[r] \/ (pc[r] \in {"entered", "collecting"} /\ pc'[r] = "crashed")
        /\ \A r \in Refresh : pc[r] # "idle" => pc'[r] \in Ended
        /\ settled' = settled \cup {r \in Refresh : pc[r] # "idle"}
        /\ task' = None /\ state' = "IDLE" /\ UNCHANGED manifests
    BY <1>8 DEF Restart, Location
  <2>2. Written' = Written
    BY <1>u, <2>1
  <2>3. \A r \in Written : r \in Run => pc'[r] \in {"collecting", "done", "crashed"}
    BY <2>1
  <2>4. \A r \in settled' : pc'[r] \in Ended
    BY <2>1
  <2>5. Written \subseteq Run
    BY WrittenIs, ManifestTyping
  <2>6. \A r \in Refresh : pc'[r] # "idle" => r \in settled'
    BY <2>1
  <2> QED BY <2>1, <2>2, <2>3, <2>4, <2>5, <2>6
<1> QED BY <1>1, <1>2, <1>3, <1>4, <1>5, <1>6, <1>7, <1>8 DEF RefreshNext

LEMMA NothingAtFirst ==
  ASSUME RefreshInit
  PROVE  /\ DOMAIN manifests = {} /\ Written = {} /\ settled = {} /\ state = "IDLE"
         /\ \A r \in Refresh : pc[r] = "idle"
<1>1. DOMAIN manifests = {}
  BY DEF RefreshInit
<1> QED BY <1>1, WrittenIs, RefreshAssumption DEF RefreshInit, Init

(* status() never reports a refresh that is over as running, one that      *)
(* stored nothing as completed, or a second one: for any number of         *)
(* refreshes, other runs and restarts.                                     *)
THEOREM StatusStaysTrue == RefreshSpec => []StatusIsTrue
<1>1. RefreshInit => StatusInv
  BY NothingAtFirst DEF StatusInv, StatusIsTrue
<1>2. StatusInv => StatusIsTrue
  BY DEF StatusInv
<1> QED BY <1>1, <1>2, StatusStep, RefreshTyping, PTL DEF RefreshSpec
-----------------------------------------------------------------------------
(* Why a completed refresh is shown: it began to collect in the instant it *)
(* was asked for, so every run that had begun by then has an instant that  *)
(* is not later, and no other run begins before its expiry.                *)
Collected(j) == manifests[j].kind # "audit"

NewestWhileProtected ==
  \A r \in Refresh : Protected(r) =>
    /\ \A q \in Run : pc[q] = "collecting" => instant[q] <= instant[r]
    /\ \A j \in DOMAIN manifests : Collected(j) => instant[manifests[j].run] <= instant[r]

TimelyIsNewest ==
  \A r \in Refresh, i, j \in DOMAIN manifests :
    manifests[i].run = r /\ manifests[i].kind = "timely" /\ j < i /\ Collected(j)
      => instant[manifests[j].run] <= instant[r]

ShownInv ==
  /\ \A r \in Refresh : pc[r] = "entered" => instant[r] = now
  /\ NewestWhileProtected
  /\ TimelyIsNewest

(* A step that lets nobody begin and writes nothing.                       *)
LEMMA QuietKeepsShown ==
  ASSUME RefreshTypeOK, ShownInv, UNCHANGED <<instant, manifests>>,
         now' \in Nat, now <= now',
         \A q \in Run : pc'[q] \in {"collecting", "entered"} => pc'[q] = pc[q],
         now' = now \/ \A r \in Refresh : pc[r] # "entered"
  PROVE  ShownInv'
<1> USE RefreshAssumption, TtlAssumption DEF RefreshTypeOK, TypeOK, ShownInv
<1>1. \A r \in Refresh : pc'[r] = "entered" => instant'[r] = now'
  OBVIOUS
<1>2. \A r \in Refresh : Protected(r)' => Protected(r)
  BY DEF Protected, ExpiresAt
<1>3. NewestWhileProtected'
  BY <1>2 DEF NewestWhileProtected, Collected
<1>4. TimelyIsNewest'
  BY DEF TimelyIsNewest, Collected
<1> QED BY <1>1, <1>3, <1>4

(* A run that is entered has no manifest yet.                              *)
LEMMA EnterKeepsShown ==
  ASSUME RefreshTypeOK, StatusInv, ShownInv, NEW q \in Run, Enter(q), UNCHANGED manifests
  PROVE  ShownInv'
<1> USE RefreshAssumption DEF RefreshTypeOK, TypeOK, ShownInv, Enter
<1>1. \A i \in DOMAIN manifests : manifests[i].run \in Run \ {q}
  BY ManifestTyping DEF StatusInv
<1>2. /\ \A r \in Run \ {q} : pc'[r] = pc[r] /\ instant'[r] = instant[r]
      /\ pc'[q] = "entered" /\ instant'[q] = now /\ now' = now
  OBVIOUS
<1>3. \A r \in Refresh : pc'[r] = "entered" => instant'[r] = now'
  BY <1>2
<1>4. \A r \in Run : Protected(r)' => r # q /\ Protected(r)
  BY <1>2 DEF Protected, ExpiresAt
<1>5. NewestWhileProtected'
  BY <1>1, <1>2, <1>4 DEF NewestWhileProtected, Collected
<1>6. TimelyIsNewest'
  <2> SUFFICES ASSUME NEW r \in Refresh, NEW i \in DOMAIN manifests, NEW j \in DOMAIN manifests,
                      manifests[i].run = r, manifests[i].kind = "timely", j < i, Collected(j)
               PROVE  instant'[manifests[j].run] <= instant'[r]
    BY DEF TimelyIsNewest, Collected
  <2>1. instant[manifests[j].run] <= instant[r]
    BY DEF TimelyIsNewest
  <2> QED BY <1>1, <1>2, <2>1
<1> QED BY <1>3, <1>5, <1>6

(* Nobody takes the row of a protected run over, and a refresh that takes  *)
(* it has the latest instant there is.                                     *)
LEMMA AcquireKeepsShown ==
  ASSUME RefreshTypeOK, LeaseInv, StatusInv, ShownInv, NEW q \in Run, acquire_lease(q),
         UNCHANGED manifests
  PROVE  ShownInv'
<1> USE RefreshAssumption, TtlAssumption DEF RefreshTypeOK, TypeOK, ShownInv
<1>1. /\ \A r \in Run \ {q} : pc'[r] = pc[r]
      /\ pc[q] = "entered" /\ pc'[q] = "collecting" /\ UNCHANGED <<now, instant>>
  BY DEF acquire_lease
<1>2. ASSUME NEW r \in Run, r # q PROVE ~ Protected(r)
  <2>1. SUFFICES ASSUME Protected(r) PROVE HeldByOther(q)
    BY DEF acquire_lease
  <2>2. lease = [owner |-> r, expires |-> ExpiresAt(r)]
    BY <2>1 DEF LeaseInv, ProtectedRunOwnsRow
  <2>3. instant[q] <= now /\ now < ExpiresAt(r) /\ ExpiresAt(r) \in Nat
    BY <2>1 DEF LeaseInv, InstantsPast, Protected, ExpiresAt
  <2>4. lease.owner = r /\ lease.expires > instant[q] /\ lease.expires # 0
    BY <2>2, <2>3
  <2> QED BY <1>2, <2>4 DEF HeldByOther, NoLease
<1>3. \A r \in Refresh : pc'[r] = "entered" => instant'[r] = now'
  BY <1>1
<1>4. NewestWhileProtected'
  <2> SUFFICES ASSUME NEW r \in Refresh, Protected(r)'
               PROVE  \A x \in Run : instant'[x] <= instant'[r]
    BY ManifestTyping DEF NewestWhileProtected, Collected
  <2>1. r = q
    BY <1>1, <1>2 DEF Protected, ExpiresAt
  <2> QED BY <1>1, <2>1 DEF LeaseInv, InstantsPast
<1>5. TimelyIsNewest'
  BY <1>1 DEF TimelyIsNewest, Collected
<1> QED BY <1>3, <1>4, <1>5

LEMMA WriteKeepsShown ==
  ASSUME RefreshTypeOK, ShownInv, NEW q \in Run, WriteManifest(q) \/ WriteAudit(q)
  PROVE  ShownInv'
<1> USE RefreshAssumption DEF RefreshTypeOK, TypeOK, ShownInv
<1> DEFINE n == Len(manifests) + 1
<1>1. PICK k \in {"timely", "late", "audit"} :
        /\ manifests' = Append(manifests, [run |-> q, kind |-> k])
        /\ k # "audit" => pc[q] = "collecting"
        /\ k = "timely" => Protected(q)
  BY DEF WriteManifest, WriteAudit, Protected
<1>2. UNCHANGED <<now, instant>> /\ \A r \in Run : pc'[r] \in {"collecting", "entered"} => pc'[r] = pc[r]
  BY DEF WriteManifest, WriteAudit, vars
<1>3. /\ DOMAIN manifests' = 1..n /\ DOMAIN manifests = 1..n - 1 /\ n \in Nat
      /\ manifests'[n].run = q /\ manifests'[n].kind = k
      /\ \A i \in 1..n - 1 : manifests'[i] = manifests[i]
  BY <1>1, ManifestAppended
<1>4. \A r \in Refresh : Protected(r)' => Protected(r)
  BY <1>2 DEF Protected, ExpiresAt
<1> HIDE DEF n
<1>5. NewestWhileProtected'
  <2> SUFFICES ASSUME NEW r \in Refresh, Protected(r)'
               PROVE  /\ \A x \in Run : pc'[x] = "collecting" => instant'[x] <= instant'[r]
                      /\ \A j \in DOMAIN manifests' : Collected(j)' =>
                           instant'[manifests'[j].run] <= instant'[r]
    BY DEF NewestWhileProtected
  <2>1. \A x \in Run : pc'[x] = "collecting" => instant'[x] <= instant'[r]
    BY <1>2, <1>4 DEF NewestWhileProtected
  <2>2. ASSUME NEW j \in DOMAIN manifests', Collected(j)'
        PROVE  instant'[manifests'[j].run] <= instant'[r]
    <3>1. CASE j = n
      BY <1>1, <1>2, <1>3, <1>4, <2>2, <3>1 DEF NewestWhileProtected, Collected
    <3>2. CASE j # n
      <4>1. j \in DOMAIN manifests /\ manifests'[j] = manifests[j]
        BY <1>3, <2>2, <3>2
      <4> QED BY <1>2, <1>4, <2>2, <4>1 DEF NewestWhileProtected, Collected
    <3> QED BY <3>1, <3>2
  <2> QED BY <2>1, <2>2
<1>6. TimelyIsNewest'
  <2> SUFFICES ASSUME NEW r \in Refresh, NEW i \in 1..n, NEW j \in 1..n,
                      manifests'[i].run = r, manifests'[i].kind = "timely", j < i,
                      manifests'[j].kind # "audit"
               PROVE  instant[manifests'[j].run] <= instant[r]
    BY <1>2, <1>3 DEF TimelyIsNewest, Collected
  <2>1. j \in DOMAIN manifests /\ manifests'[j] = manifests[j]
    BY <1>3
  <2>2. CASE i = n
    BY <1>1, <1>3, <2>1, <2>2 DEF NewestWhileProtected, Collected
  <2>3. CASE i # n
    <3>1. i \in DOMAIN manifests /\ manifests'[i] = manifests[i]
      BY <1>3, <2>3
    <3> QED BY <2>1, <3>1 DEF TimelyIsNewest, Collected
  <2> QED BY <2>2, <2>3
<1>7. \A r \in Refresh : pc'[r] = "entered" => instant'[r] = now'
  BY <1>2
<1> QED BY <1>5, <1>6, <1>7

LEMMA ShownStep ==
  /\ RefreshTypeOK /\ LeaseInv /\ StatusInv /\ ShownInv
  /\ [RefreshNext]_<<vars, refreshVars>>
  => ShownInv'
<1> SUFFICES ASSUME RefreshTypeOK, LeaseInv, StatusInv, ShownInv,
                    [RefreshNext]_<<vars, refreshVars>>
             PROVE  ShownInv'
  OBVIOUS
<1> USE RefreshAssumption DEF RefreshTypeOK, TypeOK
<1>1. CASE UNCHANGED <<vars, refreshVars>> \/ Time
  BY <1>1, QuietKeepsShown DEF Time, Tick, vars, refreshVars
<1>2. ASSUME NEW r \in Refresh, StartRefresh(r) PROVE ShownInv'
  BY <1>2, EnterKeepsShown DEF StartRefresh
<1>3. ASSUME NEW r \in Refresh, Settle(r) PROVE ShownInv'
  BY <1>3, QuietKeepsShown DEF Settle, vars
<1>4. ASSUME NEW r \in Run, EnterOther(r) PROVE ShownInv'
  BY <1>4, EnterKeepsShown DEF EnterOther, refreshVars
<1>5. ASSUME NEW r \in Run, AskForLease(r), acquire_lease(r) PROVE ShownInv'
  BY <1>5, AcquireKeepsShown DEF AskForLease, refreshVars
<1>6. ASSUME NEW r \in Run, LeaseHeld(r) \/ release_lease(r) \/ Crash(r), UNCHANGED manifests
      PROVE  ShownInv'
  <2>1. UNCHANGED <<now, instant>> /\ \E l \in {"held", "done", "crashed"} : pc' = [pc EXCEPT ![r] = l]
    BY <1>6 DEF LeaseHeld, release_lease, Crash
  <2> QED BY <1>6, <2>1, QuietKeepsShown
<1>7. ASSUME NEW r \in Run, WriteManifest(r) \/ WriteAudit(r) PROVE ShownInv'
  BY <1>7, WriteKeepsShown
<1>8. CASE Restart
  BY <1>8, QuietKeepsShown DEF Restart, Location
<1> QED BY <1>1, <1>2, <1>3, <1>4, <1>5, <1>6, <1>7, <1>8
        DEF RefreshNext, AskForLease, EndRun, CrashOther, refreshVars

(* Once a refresh that kept its lease is completed, no collection that was *)
(* committed before its manifest is shown in its place, for any number of  *)
(* runs, whatever their time-to-live.                                      *)
THEOREM RefreshStaysShown == RefreshSpec => []RefreshIsShown
<1>1. RefreshInit => ShownInv /\ StatusInv
  BY NothingAtFirst
     DEF ShownInv, NewestWhileProtected, TimelyIsNewest, Protected, StatusInv, StatusIsTrue
<1>2. RefreshTypeOK /\ ShownInv /\ StatusInv => RefreshIsShown
  <2> SUFFICES ASSUME RefreshTypeOK, ShownInv, StatusInv, state = "COMPLETED",
                      NEW i \in DOMAIN manifests, NEW j \in DOMAIN manifests,
                      manifests[i].run = task, manifests[i].kind = "timely",
                      j < i, manifests[j].kind # "audit"
               PROVE  instant[manifests[j].run] <= instant[task]
    BY DEF RefreshIsShown
  <2>1. task \in Refresh
    BY ManifestTyping, RefreshAssumption DEF RefreshTypeOK
  <2> QED BY <2>1 DEF ShownInv, TimelyIsNewest, Collected
<1>3. RefreshTypeOK => TypeOK
  BY DEF RefreshTypeOK
<1> QED BY <1>1, <1>2, <1>3, RefreshStarts, RefreshKeepsLease, RefreshTypeStep, StatusStep,
           ShownStep, PTL DEF RefreshSpec
=============================================================================
