----------------------- MODULE CashPostCommit_proofs -----------------------
(***************************************************************************)
(* Proofs about the post-commit bridge: its typing, and that every run it  *)
(* publishes is one lineage, for any number of dispatchers, collectors,    *)
(* artifacts and crashes.                                                  *)
(***************************************************************************)
EXTENDS CashPostCommit, TLAPS

(* What a dispatch has already computed at each place of process().        *)
Computed ==
  \A d \in Dispatchers :
    /\ pc[d] = "recover" => previous[d] # None
    /\ pc[d] \in {"recover", "build", "staged", "bundled", "ordered"} => fp[d] # None
    /\ pc[d] = "staged" => staged[d] # None
    /\ pc[d] \in {"bundled", "ordered"} => mine[d] # None

Typed == TypeOK /\ Computed

LEMMA InitTyped == Init => Typed
  BY BoundAssumption
  DEF Init, Typed, TypeOK, Computed, Location, Kind, BuildId

(* The records the dispatches build are runs, fingerprints and snapshots.  *)
LEMMA FingerprintTyped ==
  ASSUME TypeOK, NEW d \in Dispatchers
  PROVE  Fingerprint(d) \in Fp
  BY DEF TypeOK, Fingerprint, Fp

LEMMA BlockedRunTyped ==
  ASSUME NEW f \in Fp
  PROVE  /\ BlockedRun(f) \in Run
         /\ [BlockedRun(f) EXCEPT !.state = "FAILED_STAGE"] \in Run
  BY DEF BlockedRun, Run

LEMMA SaveTyped ==
  ASSUME TypeOK, NEW d \in Dispatchers, NEW decision \in Decision,
         NEW run \in Run \cup {None}, Save(d, decision, run)
  PROVE  /\ out' \in [Dispatchers -> Snapshot \cup {None}]
         /\ pc' \in [Dispatchers -> Location]
         /\ pc' = [pc EXCEPT ![d] = "save"]
  BY DEF TypeOK, Save, Goto, Snapshot, Location

(* What FinishPipeline writes.                                             *)
LEMMA FinishedRunTyped ==
  ASSUME NEW f \in Fp, NEW b \in BuildId, NEW r3 \in {None, b}, NEW rest \in BOOLEAN
  PROVE  [state |-> "COMPLETED", fp |-> f, r1 |-> b, r2 |-> b, r3 |-> r3,
          rest |-> rest] \in Run
  BY DEF Run

LEMMA FinishSaves ==
  ASSUME Typed, NEW d \in Dispatchers, FinishPipeline(d)
  PROVE  /\ fp[d] \in Fp /\ mine[d] \in BuildId
         /\ \E r3 \in {None, mine[d]}, rest \in BOOLEAN :
              Save(d, "DISPATCHED",
                   [state |-> "COMPLETED", fp |-> fp[d], r1 |-> mine[d],
                    r2 |-> mine[d], r3 |-> r3, rest |-> rest])
<1>1. fp[d] \in Fp /\ mine[d] \in BuildId
  BY DEF Typed, TypeOK, Computed, FinishPipeline
<1>2. PICK t \in TailOutcomes : \E r3 \in {None, mine[d]}, schemaApplied \in BOOLEAN :
        Save(d, "DISPATCHED",
             [state |-> "COMPLETED", fp |-> fp[d], r1 |-> mine[d],
              r2 |-> mine[d], r3 |-> r3,
              rest |-> /\ {"R4", "R14", "R5", "S8"} \subseteq t
                       /\ "R16" \in t \/ ~ schemaApplied])
  BY ZenonT(30) DEF FinishPipeline
<1>3. PICK r3 \in {None, mine[d]} : \E schemaApplied \in BOOLEAN :
        Save(d, "DISPATCHED",
             [state |-> "COMPLETED", fp |-> fp[d], r1 |-> mine[d],
              r2 |-> mine[d], r3 |-> r3,
              rest |-> /\ {"R4", "R14", "R5", "S8"} \subseteq t
                       /\ "R16" \in t \/ ~ schemaApplied])
  BY <1>2, Zenon
<1>4. PICK schemaApplied \in BOOLEAN :
        Save(d, "DISPATCHED",
             [state |-> "COMPLETED", fp |-> fp[d], r1 |-> mine[d],
              r2 |-> mine[d], r3 |-> r3,
              rest |-> /\ {"R4", "R14", "R5", "S8"} \subseteq t
                       /\ "R16" \in t \/ ~ schemaApplied])
  BY <1>3, Zenon
<1> DEFINE whole == /\ {"R4", "R14", "R5", "S8"} \subseteq t
                    /\ "R16" \in t \/ ~ schemaApplied
<1>5. whole \in BOOLEAN
  OBVIOUS
<1> QED BY <1>1, <1>4, <1>5, Zenon
-----------------------------------------------------------------------------
LEMMA CollectKeepsTyped ==
  ASSUME Typed, NEW d \in Dispatchers, Collect(d) \/ Reconcile(d)
  PROVE  Typed'
<1> USE DEF Typed, TypeOK, Computed, Observe, Goto, Kind, Location
<1>1. CASE \E a \in Artifacts \ {lastGood} : lastGood' = a /\ Observe(d, "New", a)
  BY <1>1
<1>2. CASE UNCHANGED lastGood /\ Observe(d, "Unchanged", lastGood)
  BY <1>2
<1>3. CASE \E k \in {"Unrelated", "Companion", "Failed"} :
             UNCHANGED lastGood /\ Observe(d, k, None)
  BY <1>3
<1> HIDE DEF Typed, TypeOK, Computed, Observe, Goto, Kind, Location
<1> QED BY <1>1, <1>2, <1>3 DEF Collect, Reconcile

(* The steps of process() that only decide and build the next snapshot.    *)
LEMMA DecideKeepsTyped ==
  ASSUME Typed, NEW d \in Dispatchers,
         ReadPrevious(d) \/ CheckCash(d) \/ Decide(d) \/ RecoverR3(d)
  PROVE  Typed'
<1>1. CASE ReadPrevious(d)
  <2> DEFINE run == IF file = None THEN None ELSE file.run
  <2>1. run \in Run \cup {None}
    BY DEF Typed, TypeOK, Snapshot
  <2>2. \/ Save(d, "SKIPPED_UNRELATED", run)
        \/ Goto(d, "check") /\ UNCHANGED out
    BY <1>1 DEF ReadPrevious
  <2>3. /\ out' \in [Dispatchers -> Snapshot \cup {None}]
        /\ pc' = [pc EXCEPT ![d] = "save"] \/ pc' = [pc EXCEPT ![d] = "check"]
    BY <2>1, <2>2, SaveTyped DEF Goto, Typed, TypeOK, Decision
  <2>4. previous' = [previous EXCEPT ![d] = run]
        /\ UNCHANGED <<lastGood, file, temp, bundle, order, builds, kind, hash, fp,
                       staged, mine, builtFrom>>
    BY <1>1 DEF ReadPrevious
  <2> HIDE DEF run
  <2> QED BY <2>1, <2>3, <2>4 DEF Typed, TypeOK, Computed, Location
<1>2. CASE CheckCash(d)
  <2>1. BlockedRun(Fingerprint(d)) \in Run
    BY FingerprintTyped, BlockedRunTyped DEF Typed
  <2>2. \/ Save(d, "BLOCKED_INPUT", BlockedRun(Fingerprint(d)))
        \/ Goto(d, "fingerprint") /\ UNCHANGED out
    BY <1>2 DEF CheckCash
  <2>3. /\ out' \in [Dispatchers -> Snapshot \cup {None}]
        /\ pc' = [pc EXCEPT ![d] = "save"] \/ pc' = [pc EXCEPT ![d] = "fingerprint"]
    BY <2>1, <2>2, SaveTyped DEF Goto, Typed, TypeOK, Decision
  <2>4. UNCHANGED <<lastGood, file, temp, bundle, order, builds, kind, hash,
                    previous, fp, staged, mine, builtFrom>>
    BY <1>2 DEF CheckCash
  <2> QED BY <2>3, <2>4 DEF Typed, TypeOK, Computed, Location
<1>3. CASE Decide(d)
  <2>1. Fingerprint(d) \in Fp
    BY FingerprintTyped DEF Typed
  <2>2. \/ previous[d] # None /\ Goto(d, "recover") /\ UNCHANGED out
        \/ previous[d] # None /\ Save(d, "SKIPPED_DUPLICATE", previous[d])
        \/ Goto(d, "build") /\ UNCHANGED out
    BY <1>3 DEF Decide
  <2>3. /\ out' \in [Dispatchers -> Snapshot \cup {None}]
        /\ \/ pc' = [pc EXCEPT ![d] = "recover"] /\ previous[d] # None
           \/ pc' = [pc EXCEPT ![d] = "save"]
           \/ pc' = [pc EXCEPT ![d] = "build"]
    BY <2>2, SaveTyped DEF Goto, Typed, TypeOK, Decision
  <2>4. /\ fp' = [fp EXCEPT ![d] = Fingerprint(d)]
        /\ UNCHANGED <<lastGood, file, temp, bundle, order, builds, kind, hash,
                       previous, staged, mine, builtFrom>>
        /\ pc[d] = "fingerprint"
    BY <1>3 DEF Decide
  <2>5. Fingerprint(d) # None
    BY <2>1, NoneAssumption
  <2> QED BY <2>1, <2>3, <2>4, <2>5 DEF Typed, TypeOK, Computed, Location
<1>4. CASE RecoverR3(d)
  <2>1. previous[d] \in Run
    BY <1>4 DEF RecoverR3, Typed, TypeOK, Computed
  <2>2. Lineage(d) => [previous[d] EXCEPT !.r3 = bundle.id] \in Run
    BY <2>1 DEF Lineage, Typed, TypeOK, Run
  <2>3. \E run \in Run : Save(d, "DISPATCHED", run)
    BY <1>4, <2>1, <2>2 DEF RecoverR3
  <2>4. /\ out' \in [Dispatchers -> Snapshot \cup {None}]
        /\ pc' = [pc EXCEPT ![d] = "save"]
    BY <2>3, SaveTyped DEF Typed, Decision
  <2>5. UNCHANGED <<lastGood, file, temp, bundle, order, builds, kind, hash,
                    previous, fp, staged, mine, builtFrom>>
    BY <1>4 DEF RecoverR3
  <2> QED BY <2>4, <2>5 DEF Typed, TypeOK, Computed, Location
<1> QED BY <1>1, <1>2, <1>3, <1>4

(* The steps of run_existing_cash_pipeline.                                *)
LEMMA PipelineKeepsTyped ==
  ASSUME Typed, NEW d \in Dispatchers,
         StageCash(d) \/ PersistBundle(d) \/ PersistOrder(d) \/ FinishPipeline(d)
           \/ FailStage(d)
  PROVE  Typed'
<1>1. CASE StageCash(d)
  BY <1>1, NoneAssumption DEF StageCash, Goto, Typed, TypeOK, Computed, Location
<1>2. CASE PersistBundle(d)
  <2>1. builds + 1 \in BuildId /\ builds + 1 \in 0 .. MaxBuilds
    BY <1>2, BoundAssumption DEF PersistBundle, Typed, TypeOK, BuildId
  <2>2. fp[d] \in Fp /\ staged[d] \in Artifacts
    BY <1>2 DEF PersistBundle, Typed, TypeOK, Computed
  <2>3. bundle' \in [id: BuildId, fp: Fp] \cup {None}
    BY <1>2, <2>1, <2>2 DEF PersistBundle
  <2>4. /\ builtFrom' \in [BuildId -> Artifacts \cup {None}]
        /\ mine' \in [Dispatchers -> BuildId \cup {None}]
        /\ pc' \in [Dispatchers -> Location]
    BY <1>2, <2>1, <2>2 DEF PersistBundle, Typed, TypeOK, Goto, Location
  <2>5. Computed'
    <3>1. mine'[d] = builds + 1 /\ builds + 1 # None
      BY <1>2, <2>1, NoneAssumption DEF PersistBundle, Typed, TypeOK
    <3> QED BY <1>2, <2>1, <3>1 DEF PersistBundle, Typed, TypeOK, Computed, Goto
  <2> QED BY <1>2, <2>1, <2>3, <2>4, <2>5 DEF PersistBundle, Typed, TypeOK
<1>3. CASE PersistOrder(d)
  BY <1>3 DEF PersistOrder, Goto, local, Typed, TypeOK, Computed, Location
<1>4. CASE FinishPipeline(d)
  <2>1. \E run \in Run : Save(d, "DISPATCHED", run)
    BY <1>4, FinishSaves, FinishedRunTyped, Zenon
  <2>2. /\ out' \in [Dispatchers -> Snapshot \cup {None}]
        /\ pc' = [pc EXCEPT ![d] = "save"]
    BY <2>1, SaveTyped DEF Typed, Decision
  <2>3. UNCHANGED <<lastGood, file, temp, bundle, order, builds, kind, hash,
                    previous, fp, staged, mine, builtFrom>>
    BY <1>4 DEF FinishPipeline
  <2> QED BY <2>2, <2>3 DEF Typed, TypeOK, Computed, Location
<1>5. CASE FailStage(d)
  <2>1. fp[d] \in Fp
    BY <1>5 DEF FailStage, Typed, TypeOK, Computed
  <2>2. /\ out' \in [Dispatchers -> Snapshot \cup {None}]
        /\ pc' = [pc EXCEPT ![d] = "save"]
    BY <1>5, <2>1, BlockedRunTyped, SaveTyped DEF FailStage, Typed, Decision
  <2>3. UNCHANGED <<lastGood, file, temp, bundle, order, builds, kind, hash,
                    previous, fp, staged, mine, builtFrom>>
    BY <1>5 DEF FailStage
  <2> QED BY <2>2, <2>3 DEF Typed, TypeOK, Computed, Location
<1> QED BY <1>1, <1>2, <1>3, <1>4, <1>5

(* The two file steps, and a crash.                                        *)
LEMMA WriteKeepsTyped ==
  ASSUME Typed, NEW d \in Dispatchers, WriteTemp(d) \/ Replace(d) \/ Crash(d)
  PROVE  Typed'
<1>1. CASE WriteTemp(d)
  BY <1>1 DEF WriteTemp, Goto, local, Typed, TypeOK, Computed, Location
<1>2. CASE Replace(d)
  <2>1. file' \in Snapshot \cup {None} /\ temp' \in Snapshot \cup {None}
    BY <1>2 DEF Replace, Typed, TypeOK
  <2> QED BY <1>2, <2>1
          DEF Replace, Forget, Goto, Typed, TypeOK, Computed, Location, Kind
<1>3. CASE Crash(d)
  BY <1>3 DEF Crash, Forget, Goto, Typed, TypeOK, Computed, Location, Kind
<1> QED BY <1>1, <1>2, <1>3

LEMMA NextKeepsTyped == Typed /\ [Next]_vars => Typed'
<1> SUFFICES ASSUME Typed, [Next]_vars PROVE Typed'
  OBVIOUS
<1>1. CASE UNCHANGED vars
  BY <1>1 DEF vars, local, Typed, TypeOK, Computed
<1>2. CASE Next
  <2>1. PICK d \in Dispatchers :
          \/ Collect(d) \/ Reconcile(d)
          \/ ReadPrevious(d) \/ CheckCash(d) \/ Decide(d) \/ RecoverR3(d)
          \/ StageCash(d) \/ PersistBundle(d) \/ PersistOrder(d)
          \/ FinishPipeline(d) \/ FailStage(d)
          \/ WriteTemp(d) \/ Replace(d) \/ Crash(d)
    BY <1>2 DEF Next
  <2> QED BY <2>1, CollectKeepsTyped, DecideKeepsTyped, PipelineKeepsTyped,
             WriteKeepsTyped
<1> QED BY <1>1, <1>2

LEMMA SpecKeepsTyped == Spec => []Typed
  BY InitTyped, NextKeepsTyped, PTL DEF Spec

(* Type correctness of the post-commit bridge.                             *)
THEOREM CashTyping == Spec => []TypeOK
<1>1. Typed => TypeOK
  BY DEF Typed
<1> QED BY <1>1, SpecKeepsTyped, PTL
-----------------------------------------------------------------------------
(* The lineage of a run travels: from the file to the dispatch that read    *)
(* it, from there to the snapshot it saves, through the temporary file and *)
(* back, whoever replaces the file.                                        *)
OneLineage(run) == run # None => run.r3 \in {None, run.r1}

CarriesOneLineage ==
  /\ file # None => OneLineage(file.run)
  /\ temp # None => OneLineage(temp.run)
  /\ \A d \in Dispatchers : OneLineage(previous[d])
  /\ \A d \in Dispatchers : out[d] # None => OneLineage(out[d].run)

LineageInv == Typed /\ CarriesOneLineage

LEMMA InitLineage == Init => LineageInv
  BY InitTyped DEF Init, LineageInv, CarriesOneLineage, OneLineage

(* A step that saves a run of one lineage and leaves the files alone.      *)
LEMMA SaveKeepsLineage ==
  ASSUME Typed, CarriesOneLineage, NEW d \in Dispatchers,
         NEW decision \in Decision, NEW run \in Run \cup {None},
         Save(d, decision, run), OneLineage(run),
         UNCHANGED <<file, temp, previous>>
  PROVE  CarriesOneLineage'
<1>1. out' = [out EXCEPT ![d] = [decision |-> decision, run |-> run]]
  BY DEF Save
<1>2. ASSUME NEW e \in Dispatchers, out'[e] # None
      PROVE  OneLineage(out'[e].run)
  BY <1>1, <1>2 DEF Typed, TypeOK, CarriesOneLineage
<1> QED BY <1>2 DEF CarriesOneLineage, OneLineage

LEMMA NextKeepsLineage == LineageInv /\ [Next]_vars => LineageInv'
<1> SUFFICES ASSUME LineageInv, [Next]_vars PROVE CarriesOneLineage'
  BY NextKeepsTyped DEF LineageInv
<1>0. Typed /\ CarriesOneLineage
  BY DEF LineageInv
<1>1. CASE UNCHANGED vars
  BY <1>0, <1>1 DEF vars, local, CarriesOneLineage, OneLineage
<1>2. ASSUME NEW d \in Dispatchers, Collect(d) \/ Reconcile(d)
      PROVE  CarriesOneLineage'
  BY <1>0, <1>2 DEF Collect, Reconcile, Observe, CarriesOneLineage, OneLineage
<1>3. ASSUME NEW d \in Dispatchers, ReadPrevious(d)
      PROVE  CarriesOneLineage'
  <2> DEFINE run == IF file = None THEN None ELSE file.run
  <2>1. OneLineage(run)
    BY <1>0 DEF CarriesOneLineage, OneLineage
  <2>2. /\ previous' = [previous EXCEPT ![d] = run]
        /\ \/ out' = [out EXCEPT ![d] = [decision |-> "SKIPPED_UNRELATED", run |-> run]]
           \/ out' = out
        /\ UNCHANGED <<file, temp>>
    BY <1>3 DEF ReadPrevious, Save
  <2> HIDE DEF run
  <2>3. \A e \in Dispatchers : OneLineage(previous'[e])
    BY <1>0, <2>1, <2>2 DEF Typed, TypeOK, CarriesOneLineage
  <2>4. ASSUME NEW e \in Dispatchers, out'[e] # None
        PROVE  OneLineage(out'[e].run)
    BY <1>0, <2>1, <2>2, <2>4 DEF Typed, TypeOK, CarriesOneLineage
  <2> QED BY <1>0, <2>2, <2>3, <2>4 DEF CarriesOneLineage, OneLineage
<1>4. ASSUME NEW d \in Dispatchers, CheckCash(d)
      PROVE  CarriesOneLineage'
  <2>1. BlockedRun(Fingerprint(d)) \in Run /\ OneLineage(BlockedRun(Fingerprint(d)))
    BY <1>0, FingerprintTyped, BlockedRunTyped DEF Typed, BlockedRun, OneLineage
  <2>2. CASE Save(d, "BLOCKED_INPUT", BlockedRun(Fingerprint(d)))
    BY <1>0, <1>4, <2>1, <2>2, SaveKeepsLineage DEF CheckCash, Decision
  <2>3. CASE UNCHANGED out
    BY <1>0, <1>4, <2>3 DEF CheckCash, CarriesOneLineage, OneLineage
  <2> QED BY <1>4, <2>2, <2>3 DEF CheckCash
<1>5. ASSUME NEW d \in Dispatchers, Decide(d)
      PROVE  CarriesOneLineage'
  <2>1. previous[d] \in Run \cup {None} /\ OneLineage(previous[d])
    BY <1>0 DEF Typed, TypeOK, CarriesOneLineage
  <2>2. CASE Save(d, "SKIPPED_DUPLICATE", previous[d])
    BY <1>0, <1>5, <2>1, <2>2, SaveKeepsLineage DEF Decide, Decision
  <2>3. CASE UNCHANGED out
    BY <1>0, <1>5, <2>3 DEF Decide, CarriesOneLineage, OneLineage
  <2> QED BY <1>5, <2>2, <2>3 DEF Decide
<1>6. ASSUME NEW d \in Dispatchers, RecoverR3(d)
      PROVE  CarriesOneLineage'
  <2>1. previous[d] \in Run /\ OneLineage(previous[d])
    BY <1>0, <1>6 DEF RecoverR3, Typed, TypeOK, Computed, CarriesOneLineage
  <2>2. CASE Lineage(d) /\ Save(d, "DISPATCHED", [previous[d] EXCEPT !.r3 = bundle.id])
    <3>1. bundle.id = previous[d].r1 /\ bundle.id \in BuildId
      BY <1>0, <2>2 DEF Lineage, Typed, TypeOK
    <3>2. /\ [previous[d] EXCEPT !.r3 = bundle.id] \in Run
          /\ OneLineage([previous[d] EXCEPT !.r3 = bundle.id])
      BY <2>1, <3>1 DEF Run, OneLineage
    <3> QED BY <1>0, <1>6, <2>2, <3>2, SaveKeepsLineage DEF RecoverR3, Decision
  <2>3. CASE Save(d, "DISPATCHED", previous[d])
    BY <1>0, <1>6, <2>1, <2>3, SaveKeepsLineage DEF RecoverR3, Decision
  <2> QED BY <1>6, <2>2, <2>3 DEF RecoverR3
<1>7. ASSUME NEW d \in Dispatchers, StageCash(d) \/ PersistBundle(d) \/ PersistOrder(d)
      PROVE  CarriesOneLineage'
  BY <1>0, <1>7
  DEF StageCash, PersistBundle, PersistOrder, local, CarriesOneLineage, OneLineage
<1>8. ASSUME NEW d \in Dispatchers, FinishPipeline(d)
      PROVE  CarriesOneLineage'
  <2>1. fp[d] \in Fp /\ mine[d] \in BuildId
    BY <1>0, <1>8, FinishSaves
  <2>2. PICK r3 \in {None, mine[d]} : \E rest \in BOOLEAN :
          Save(d, "DISPATCHED",
               [state |-> "COMPLETED", fp |-> fp[d], r1 |-> mine[d],
                r2 |-> mine[d], r3 |-> r3, rest |-> rest])
    BY <1>0, <1>8, FinishSaves, Zenon
  <2>3. PICK rest \in BOOLEAN :
          Save(d, "DISPATCHED",
               [state |-> "COMPLETED", fp |-> fp[d], r1 |-> mine[d],
                r2 |-> mine[d], r3 |-> r3, rest |-> rest])
    BY <2>2, Zenon
  <2> DEFINE run == [state |-> "COMPLETED", fp |-> fp[d], r1 |-> mine[d],
                     r2 |-> mine[d], r3 |-> r3, rest |-> rest]
  <2>4. run \in Run
    BY <2>1, FinishedRunTyped, Zenon
  <2>5. OneLineage(run)
    BY DEF OneLineage
  <2>6. UNCHANGED <<file, temp, previous>>
    BY <1>8 DEF FinishPipeline
  <2>7. Save(d, "DISPATCHED", run) /\ "DISPATCHED" \in Decision
    BY <2>3 DEF Decision
  <2> HIDE DEF run
  <2> QED BY <1>0, <2>4, <2>5, <2>6, <2>7, SaveKeepsLineage
<1>9. ASSUME NEW d \in Dispatchers, FailStage(d)
      PROVE  CarriesOneLineage'
  <2>1. fp[d] \in Fp
    BY <1>0, <1>9 DEF FailStage, Typed, TypeOK, Computed
  <2>2. OneLineage([BlockedRun(fp[d]) EXCEPT !.state = "FAILED_STAGE"])
    BY DEF BlockedRun, OneLineage
  <2> QED BY <1>0, <1>9, <2>1, <2>2, BlockedRunTyped, SaveKeepsLineage
          DEF FailStage, Decision
<1>10. ASSUME NEW d \in Dispatchers, WriteTemp(d)
       PROVE  CarriesOneLineage'
  BY <1>0, <1>10 DEF WriteTemp, local, CarriesOneLineage, OneLineage
<1>11. ASSUME NEW d \in Dispatchers, Replace(d) \/ Crash(d)
       PROVE  CarriesOneLineage'
  <2>1. /\ \/ file' = file /\ temp' = temp
           \/ file' = file /\ temp' = None
           \/ file' = temp /\ temp' = None
        /\ previous' = [previous EXCEPT ![d] = None]
        /\ out' = [out EXCEPT ![d] = None]
    BY <1>11 DEF Replace, Crash, Forget
  <2>2. (file' # None => OneLineage(file'.run)) /\ (temp' # None => OneLineage(temp'.run))
    BY <1>0, <2>1 DEF CarriesOneLineage, OneLineage
  <2>3. OneLineage(None)
    BY DEF OneLineage
  <2>4. \A e \in Dispatchers : OneLineage(previous'[e])
    BY <1>0, <2>1, <2>3 DEF Typed, TypeOK, CarriesOneLineage
  <2>5. \A e \in Dispatchers : out'[e] # None => OneLineage(out'[e].run)
    BY <1>0, <2>1 DEF Typed, TypeOK, CarriesOneLineage
  <2> QED BY <2>2, <2>4, <2>5 DEF CarriesOneLineage, OneLineage
<1> QED BY <1>1, <1>2, <1>3, <1>4, <1>5, <1>6, <1>7, <1>8, <1>9, <1>10, <1>11 DEF Next

LEMMA SpecKeepsLineage == Spec => []LineageInv
  BY InitLineage, NextKeepsLineage, PTL DEF Spec

(* Every run the state file publishes is one lineage, whichever dispatches  *)
(* interleave and wherever they crash.                                     *)
THEOREM RunsAreOneLineage == Spec => []PublishedRunIsOneLineage
<1>1. LineageInv => PublishedRunIsOneLineage
  BY DEF LineageInv, CarriesOneLineage, OneLineage, PublishedRunIsOneLineage
<1> QED BY <1>1, SpecKeepsLineage, PTL
-----------------------------------------------------------------------------
(* When dispatches do not overlap, the outputs of every run that is kept   *)
(* anywhere were built from the content that the run's fingerprint names:  *)
(* what the fingerprint read is what A1 stages, because no collection      *)
(* commits while a dispatch is inside process().  A run outlives the build *)
(* it points at, so the invariant also says that no later build takes the  *)
(* place of its R1 bundle.                                                 *)
Alone ==
  \A d, e \in Dispatchers : pc[d] # "idle" /\ pc[e] # "idle" => d = e

Built(b, content) == b <= builds /\ builtFrom[b] = content

Faithful(run) ==
  run # None /\ run.r1 # None => Built(run.r1, run.fp.content)

KeptRunsAreFaithful ==
  /\ file # None => Faithful(file.run)
  /\ temp # None => Faithful(temp.run)
  /\ \A d \in Dispatchers : Faithful(previous[d])
  /\ \A d \in Dispatchers : out[d] # None => Faithful(out[d].run)

(* How far the build of a dispatch has come, and what it skipped for.      *)
Progress(d) ==
  /\ pc[d] \in {"recover", "build", "staged", "bundled", "ordered"}
       => fp[d].content = lastGood
  /\ pc[d] = "staged" => staged[d] = lastGood
  /\ pc[d] \in {"bundled", "ordered"} => Built(mine[d], lastGood)
  /\ pc[d] = "save" /\ out[d].decision = "SKIPPED_DUPLICATE"
       => /\ out[d].run # None /\ out[d].run.r1 # None
          /\ out[d].run.fp.content = lastGood

SerialInv ==
  /\ Typed /\ Alone /\ KeptRunsAreFaithful
  /\ \A d \in Dispatchers : Progress(d)
  /\ \A d \in Dispatchers : pc[d] = "save" => out[d] # None

LEMMA InitSerial == Init => SerialInv
  BY InitTyped
  DEF Init, SerialInv, Alone, KeptRunsAreFaithful, Faithful, Progress

(* A dispatch that moves is the only one that is not idle: what the others *)
(* have done is nothing.                                                   *)
LEMMA OthersAreIdle ==
  ASSUME Typed, Alone, NEW d \in Dispatchers, NEW l \in Location,
         pc[d] # "idle" \/ \A e \in Dispatchers : pc[e] = "idle",
         pc' = [pc EXCEPT ![d] = l]
  PROVE  /\ Alone'
         /\ pc'[d] = l
         /\ \A e \in Dispatchers : e # d => pc'[e] = "idle"
  BY DEF Typed, TypeOK, Alone

LEMMA SerialFromOne ==
  ASSUME SerialInv, Typed', NEW d \in Dispatchers, NEW l \in Location,
         pc[d] # "idle" \/ \A e \in Dispatchers : pc[e] = "idle",
         pc' = [pc EXCEPT ![d] = l],
         KeptRunsAreFaithful', Progress(d)', l = "save" => out'[d] # None
  PROVE  SerialInv'
<1>1. /\ Alone'
      /\ pc'[d] = l
      /\ \A e \in Dispatchers : e # d => pc'[e] = "idle"
  BY OthersAreIdle DEF SerialInv
<1>2. \A e \in Dispatchers : Progress(e)'
  BY <1>1 DEF Progress
<1>3. \A e \in Dispatchers : pc'[e] = "save" => out'[e] # None
  BY <1>1
<1> QED BY <1>1, <1>2, <1>3 DEF SerialInv

(* No step takes a built bundle away, and what a dispatch stores was       *)
(* faithful before or is so when it is stored.                             *)
BuildsGrow ==
  \/ UNCHANGED <<builds, builtFrom>>
  \/ \E a \in Artifacts :
       builds' = builds + 1 /\ builtFrom' = [builtFrom EXCEPT ![builds + 1] = a]

LEMMA FaithfulStays ==
  ASSUME Typed, NEW run \in Run \cup {None}, Faithful(run), BuildsGrow
  PROVE  Faithful(run)'
<1>1. SUFFICES ASSUME run # None, run.r1 # None
               PROVE  Built(run.r1, run.fp.content)'
  BY DEF Faithful
<1>2. run.r1 \in BuildId /\ Built(run.r1, run.fp.content)
  BY <1>1 DEF Faithful, Run
<1> QED BY <1>2, BoundAssumption DEF Built, BuildsGrow, Typed, TypeOK, BuildId

LEMMA KeptStays ==
  ASSUME Typed, Typed', KeptRunsAreFaithful, BuildsGrow, NEW d \in Dispatchers,
         file' = file \/ file' = temp,
         temp' = temp \/ temp' = out[d] \/ temp' = None,
         NEW p \in Run \cup {None}, previous' = [previous EXCEPT ![d] = p],
         p = previous[d] \/ p = None \/ (file # None /\ p = file.run),
         NEW o \in Snapshot \cup {None}, out' = [out EXCEPT ![d] = o],
         o # None => Faithful(o.run)'
  PROVE  KeptRunsAreFaithful'
<1>1. \A r \in Run \cup {None} : Faithful(r) => Faithful(r)'
  BY FaithfulStays
<1>2. \A r \in Snapshot : r.run \in Run \cup {None}
  BY DEF Snapshot
<1>3. ASSUME NEW r \in Snapshot \cup {None},
             r = file \/ r = temp \/ r = out[d]
      PROVE  r # None => Faithful(r.run)'
  BY <1>1, <1>2, <1>3 DEF KeptRunsAreFaithful
<1>4. /\ file' # None => Faithful(file.run)'
      /\ temp' # None => Faithful(temp.run)'
  BY <1>3 DEF Typed, TypeOK
<1>5. \A e \in Dispatchers : Faithful(previous[e])'
  <2>1. Faithful(None) /\ Faithful(p)
    BY DEF KeptRunsAreFaithful, Faithful
  <2>2. ASSUME NEW e \in Dispatchers
        PROVE  previous'[e] \in Run \cup {None} /\ Faithful(previous'[e])
    BY <2>1 DEF KeptRunsAreFaithful, Typed, TypeOK
  <2> QED BY <1>1, <2>2
<1>6. \A e \in Dispatchers : out'[e] # None => Faithful(out[e].run)'
  BY <1>1, <1>2 DEF KeptRunsAreFaithful, Typed, TypeOK
<1> QED BY <1>4, <1>5, <1>6 DEF KeptRunsAreFaithful

(* What a step leaves in previous: what was there, nothing, or the run of  *)
(* the state file.                                                         *)
KeepsOrReads(d) ==
  \/ UNCHANGED previous
  \/ previous' = [previous EXCEPT ![d] = None]
  \/ file # None /\ previous' = [previous EXCEPT ![d] = file.run]

LEMMA PreviousIsARun ==
  ASSUME Typed, NEW d \in Dispatchers, KeepsOrReads(d)
  PROVE  \E p \in Run \cup {None} :
           /\ previous' = [previous EXCEPT ![d] = p]
           /\ p = previous[d] \/ p = None \/ (file # None /\ p = file.run)
<1> DEFINE Q(p) == /\ previous' = [previous EXCEPT ![d] = p]
                   /\ p = previous[d] \/ p = None \/ (file # None /\ p = file.run)
<1> SUFFICES \E p \in Run \cup {None} : Q(p)
  OBVIOUS
<1>1. CASE UNCHANGED previous
  <2>1. previous[d] \in Run \cup {None} /\ Q(previous[d])
    BY <1>1 DEF Typed, TypeOK
  <2> HIDE DEF Q
  <2> QED BY <2>1
<1>2. CASE previous' = [previous EXCEPT ![d] = None]
  <2>1. None \in Run \cup {None} /\ Q(None)
    BY <1>2
  <2> HIDE DEF Q
  <2> QED BY <2>1
<1>3. CASE file # None /\ previous' = [previous EXCEPT ![d] = file.run]
  <2>1. file.run \in Run \cup {None} /\ Q(file.run)
    BY <1>3 DEF Typed, TypeOK, Snapshot
  <2> HIDE DEF Q
  <2> QED BY <2>1
<1> QED BY <1>1, <1>2, <1>3 DEF KeepsOrReads

(* A step that saves a run and writes neither file.                        *)
LEMMA SaveKeepsSerial ==
  ASSUME SerialInv, Typed', NEW d \in Dispatchers, pc[d] # "idle",
         NEW decision \in Decision, NEW run \in Run \cup {None},
         Save(d, decision, run),
         UNCHANGED <<lastGood, file, temp, builds, builtFrom>>,
         KeepsOrReads(d),
         Faithful(run),
         decision = "SKIPPED_DUPLICATE"
           => run # None /\ run.r1 # None /\ run.fp.content = lastGood
  PROVE  SerialInv'
<1> DEFINE o == [decision |-> decision, run |-> run]
<1>1. /\ out' = [out EXCEPT ![d] = o] /\ out'[d] = o
      /\ pc' = [pc EXCEPT ![d] = "save"] /\ pc'[d] = "save"
      /\ "save" \in Location
  BY DEF Save, Goto, SerialInv, Typed, TypeOK, Location
<1>2. o \in Snapshot /\ o # None
  BY NoneAssumption DEF Snapshot
<1>3. o.run = run /\ o.decision = decision
  OBVIOUS
<1>4. Faithful(o.run)'
  <2>1. Faithful(run)'
    BY FaithfulStays DEF SerialInv, BuildsGrow
  <2> QED BY <1>3, <2>1
<1> HIDE DEF o
<1>5. \E p \in Run \cup {None} :
        /\ previous' = [previous EXCEPT ![d] = p]
        /\ p = previous[d] \/ p = None \/ (file # None /\ p = file.run)
  BY PreviousIsARun DEF SerialInv
<1>6. KeptRunsAreFaithful'
  BY <1>1, <1>2, <1>4, <1>5, KeptStays DEF SerialInv, BuildsGrow
<1>7. Progress(d)'
  BY <1>1, <1>3 DEF Progress
<1> QED BY <1>1, <1>2, <1>6, <1>7, SerialFromOne

(* A step that saves nothing and writes neither file.                      *)
LEMMA QuietStepKeepsSerial ==
  ASSUME SerialInv, Typed', NEW d \in Dispatchers, NEW l \in Location \ {"save"},
         pc[d] # "idle" \/ \A e \in Dispatchers : pc[e] = "idle",
         pc' = [pc EXCEPT ![d] = l], BuildsGrow, UNCHANGED <<file, temp, out>>,
         KeepsOrReads(d),
         Progress(d)'
  PROVE  SerialInv'
<1>1. \E p \in Run \cup {None} :
        /\ previous' = [previous EXCEPT ![d] = p]
        /\ p = previous[d] \/ p = None \/ (file # None /\ p = file.run)
  BY PreviousIsARun DEF SerialInv
<1>2. /\ out[d] \in Snapshot \cup {None}
      /\ out' = [out EXCEPT ![d] = out[d]]
  BY DEF SerialInv, Typed, TypeOK
<1>3. out[d] # None => Faithful(out[d].run)'
  <2>1. out[d] # None => out[d].run \in Run \cup {None} /\ Faithful(out[d].run)
    BY <1>2 DEF SerialInv, KeptRunsAreFaithful, Snapshot
  <2>2. \A r \in Run \cup {None} : Faithful(r) => Faithful(r)'
    BY FaithfulStays DEF SerialInv
  <2> QED BY <2>1, <2>2
<1>4. KeptRunsAreFaithful'
  BY <1>1, <1>2, <1>3, KeptStays DEF SerialInv
<1> QED BY <1>4, SerialFromOne

(* A dispatch begins when no other is under way, so last-good may move.    *)
LEMMA CollectKeepsSerial ==
  ASSUME ~ SideBySide, SerialInv, Typed', NEW d \in Dispatchers,
         Collect(d) \/ Reconcile(d)
  PROVE  SerialInv'
<1>1. \A e \in Dispatchers : pc[e] = "idle"
  BY DEF Collect, Reconcile, Observe
<1>2. /\ pc' = [pc EXCEPT ![d] = "dispatched"]
      /\ UNCHANGED <<file, temp, builds, previous, out, builtFrom>>
  BY DEF Collect, Reconcile, Observe, Goto
<1>3. Progress(d)'
  BY <1>2 DEF SerialInv, Typed, TypeOK, Progress
<1> QED BY <1>1, <1>2, <1>3, QuietStepKeepsSerial DEF BuildsGrow, KeepsOrReads, Location

(* The steps of process(), which read last-good but leave it.              *)
LEMMA DecideKeepsSerial ==
  ASSUME SerialInv, Typed', NEW d \in Dispatchers,
         ReadPrevious(d) \/ CheckCash(d) \/ Decide(d) \/ RecoverR3(d)
  PROVE  SerialInv'
<1>0. Typed /\ KeptRunsAreFaithful /\ Progress(d)
  BY DEF SerialInv
<1>1. CASE ReadPrevious(d)
  <2> DEFINE run == IF file = None THEN None ELSE file.run
  <2>1. run \in Run \cup {None} /\ Faithful(run)
    BY <1>0 DEF Typed, TypeOK, Snapshot, KeptRunsAreFaithful, Faithful
  <2>2. KeepsOrReads(d) /\ pc[d] # "idle"
    BY <1>1 DEF ReadPrevious, KeepsOrReads
  <2>3. UNCHANGED <<lastGood, file, temp, builds, fp, staged, mine, builtFrom>>
    BY <1>1 DEF ReadPrevious
  <2>4. \/ Save(d, "SKIPPED_UNRELATED", run)
        \/ Goto(d, "check") /\ UNCHANGED out
    BY <1>1 DEF ReadPrevious
  <2> HIDE DEF run
  <2>5. CASE Save(d, "SKIPPED_UNRELATED", run)
    BY <2>1, <2>2, <2>3, <2>5, SaveKeepsSerial DEF Decision
  <2>6. CASE Goto(d, "check") /\ UNCHANGED out
    <3>1. Progress(d)'
      BY <1>0, <2>6 DEF Goto, Typed, TypeOK, Progress
    <3> QED BY <2>2, <2>3, <2>6, <3>1, QuietStepKeepsSerial DEF Goto, BuildsGrow, Location
  <2> QED BY <2>4, <2>5, <2>6
<1>2. CASE CheckCash(d)
  <2>1. /\ BlockedRun(Fingerprint(d)) \in Run
        /\ Faithful(BlockedRun(Fingerprint(d)))
    BY <1>0, FingerprintTyped, BlockedRunTyped DEF Typed, BlockedRun, Faithful
  <2>2. /\ UNCHANGED <<lastGood, file, temp, builds, previous, fp, staged, mine, builtFrom>>
        /\ pc[d] # "idle" /\ KeepsOrReads(d)
    BY <1>2 DEF CheckCash, KeepsOrReads
  <2>3. CASE Save(d, "BLOCKED_INPUT", BlockedRun(Fingerprint(d)))
    BY <2>1, <2>2, <2>3, SaveKeepsSerial DEF Decision
  <2>4. CASE Goto(d, "fingerprint") /\ UNCHANGED out
    <3>1. Progress(d)'
      BY <1>0, <2>4 DEF Goto, Typed, TypeOK, Progress
    <3> QED BY <2>2, <2>4, <3>1, QuietStepKeepsSerial DEF Goto, BuildsGrow, Location
  <2> QED BY <1>2, <2>3, <2>4 DEF CheckCash
<1>3. CASE Decide(d)
  <2>1. /\ UNCHANGED <<lastGood, file, temp, builds, previous, staged, mine, builtFrom>>
        /\ fp' = [fp EXCEPT ![d] = Fingerprint(d)]
        /\ pc[d] # "idle" /\ KeepsOrReads(d)
    BY <1>3 DEF Decide, KeepsOrReads
  <2>2. fp'[d] = Fingerprint(d) /\ Fingerprint(d).content = lastGood
    BY <1>0, <2>1 DEF Typed, TypeOK, Fingerprint
  <2>3. previous[d] \in Run \cup {None} /\ Faithful(previous[d])
    BY <1>0 DEF Typed, TypeOK, KeptRunsAreFaithful
  <2>4. CASE /\ previous[d] # None /\ previous[d].fp = Fingerprint(d)
             /\ OutputsComplete(previous[d])
             /\ Save(d, "SKIPPED_DUPLICATE", previous[d])
    <3>1. /\ previous[d] # None /\ previous[d].r1 # None
          /\ previous[d].fp.content = lastGood
      BY <2>2, <2>4 DEF OutputsComplete, R1R2Complete
    <3>2. Save(d, "SKIPPED_DUPLICATE", previous[d]) /\ "SKIPPED_DUPLICATE" \in Decision
      BY <2>4 DEF Decision
    <3> QED BY <2>1, <2>3, <3>1, <3>2, SaveKeepsSerial
  <2>5. CASE \E l \in {"recover", "build"} : Goto(d, l) /\ UNCHANGED out
    <3>1. PICK l \in {"recover", "build"} : Goto(d, l) /\ UNCHANGED out
      BY <2>5
    <3>2. Progress(d)'
      BY <1>0, <2>2, <2>1, <3>1 DEF Goto, Typed, TypeOK, Progress
    <3> QED BY <2>1, <3>1, <3>2, QuietStepKeepsSerial DEF Goto, BuildsGrow, Location
  <2> QED BY <1>3, <2>4, <2>5 DEF Decide
<1>4. CASE RecoverR3(d)
  <2>1. /\ UNCHANGED <<lastGood, file, temp, builds, previous, fp, staged, mine, builtFrom>>
        /\ pc[d] # "idle" /\ KeepsOrReads(d)
    BY <1>4 DEF RecoverR3, KeepsOrReads
  <2>2. previous[d] \in Run /\ Faithful(previous[d])
    BY <1>0, <1>4 DEF RecoverR3, Typed, TypeOK, Computed, KeptRunsAreFaithful
  <2>3. CASE Lineage(d) /\ Save(d, "DISPATCHED", [previous[d] EXCEPT !.r3 = bundle.id])
    <3>1. bundle.id \in BuildId
      BY <1>0, <2>3 DEF Lineage, Typed, TypeOK
    <3>2. /\ [previous[d] EXCEPT !.r3 = bundle.id] \in Run
          /\ Faithful([previous[d] EXCEPT !.r3 = bundle.id])
      BY <2>2, <3>1, NoneAssumption DEF Run, Faithful
    <3> QED BY <2>1, <2>3, <3>2, SaveKeepsSerial DEF Decision
  <2>4. CASE Save(d, "DISPATCHED", previous[d])
    BY <2>1, <2>2, <2>4, SaveKeepsSerial DEF Decision
  <2> QED BY <1>4, <2>3, <2>4 DEF RecoverR3
<1> QED BY <1>1, <1>2, <1>3, <1>4

(* The steps of run_existing_cash_pipeline: what A1 stages is what the     *)
(* fingerprint read.                                                       *)
LEMMA PipelineKeepsSerial ==
  ASSUME SerialInv, Typed', NEW d \in Dispatchers,
         StageCash(d) \/ PersistBundle(d) \/ PersistOrder(d) \/ FinishPipeline(d)
           \/ FailStage(d)
  PROVE  SerialInv'
<1>0. Typed /\ Progress(d)
  BY DEF SerialInv
<1>1. CASE StageCash(d)
  <2>1. Progress(d)'
    BY <1>0, <1>1 DEF StageCash, Goto, Typed, TypeOK, Progress
  <2> QED BY <1>1, <2>1, QuietStepKeepsSerial
          DEF StageCash, Goto, BuildsGrow, KeepsOrReads, Location
<1>2. CASE PersistBundle(d)
  <2>1. /\ staged[d] = lastGood /\ lastGood \in Artifacts
        /\ builds + 1 \in BuildId
        /\ pc' = [pc EXCEPT ![d] = "bundled"]
        /\ builds' = builds + 1
        /\ builtFrom' = [builtFrom EXCEPT ![builds + 1] = lastGood]
        /\ mine' = [mine EXCEPT ![d] = builds + 1]
        /\ UNCHANGED <<lastGood, file, temp, previous, fp, out>>
    BY <1>0, <1>2, BoundAssumption
    DEF PersistBundle, Goto, Typed, TypeOK, Progress, BuildId
  <2>2. BuildsGrow /\ KeepsOrReads(d)
    BY <2>1 DEF BuildsGrow, KeepsOrReads
  <2>3. pc'[d] = "bundled" /\ mine'[d] = builds + 1 /\ builtFrom'[builds + 1] = lastGood
    BY <1>0, <2>1 DEF Typed, TypeOK
  <2>4. Built(mine[d], lastGood)'
    BY <1>0, <2>1, <2>3, BoundAssumption DEF Built, Typed, TypeOK
  <2>5. Progress(d)'
    BY <1>0, <1>2, <2>1, <2>3, <2>4 DEF PersistBundle, Progress
  <2> QED BY <1>2, <2>1, <2>2, <2>5, QuietStepKeepsSerial DEF PersistBundle, Location
<1>3. CASE PersistOrder(d)
  <2>1. Progress(d)'
    BY <1>0, <1>3 DEF PersistOrder, Goto, local, Built, Typed, TypeOK, Progress
  <2> QED BY <1>3, <2>1, QuietStepKeepsSerial
          DEF PersistOrder, Goto, local, BuildsGrow, KeepsOrReads, Location
<1>4. CASE FinishPipeline(d)
  <2>1. fp[d] \in Fp /\ mine[d] \in BuildId
    BY <1>0, <1>4, FinishSaves
  <2>2. PICK r3 \in {None, mine[d]} : \E rest \in BOOLEAN :
          Save(d, "DISPATCHED",
               [state |-> "COMPLETED", fp |-> fp[d], r1 |-> mine[d],
                r2 |-> mine[d], r3 |-> r3, rest |-> rest])
    BY <1>0, <1>4, FinishSaves, Zenon
  <2>3. PICK rest \in BOOLEAN :
          Save(d, "DISPATCHED",
               [state |-> "COMPLETED", fp |-> fp[d], r1 |-> mine[d],
                r2 |-> mine[d], r3 |-> r3, rest |-> rest])
    BY <2>2, Zenon
  <2> DEFINE run == [state |-> "COMPLETED", fp |-> fp[d], r1 |-> mine[d],
                     r2 |-> mine[d], r3 |-> r3, rest |-> rest]
  <2>4. run \in Run
    BY <2>1, FinishedRunTyped, Zenon
  <2>5. Faithful(run)
    BY <1>0, <1>4 DEF FinishPipeline, Progress, Faithful
  <2>6. /\ UNCHANGED <<lastGood, file, temp, builds, builtFrom>>
        /\ pc[d] # "idle" /\ KeepsOrReads(d)
    BY <1>4 DEF FinishPipeline, KeepsOrReads
  <2>7. Save(d, "DISPATCHED", run) /\ "DISPATCHED" \in Decision
    BY <2>3 DEF Decision
  <2> HIDE DEF run
  <2> QED BY <2>4, <2>5, <2>6, <2>7, SaveKeepsSerial
<1>5. CASE FailStage(d)
  <2> DEFINE run == [BlockedRun(fp[d]) EXCEPT !.state = "FAILED_STAGE"]
  <2>1. fp[d] \in Fp
    BY <1>0, <1>5 DEF FailStage, Typed, TypeOK, Computed
  <2>2. run \in Run /\ Faithful(run)
    BY <2>1, BlockedRunTyped DEF BlockedRun, Faithful
  <2>3. /\ UNCHANGED <<lastGood, file, temp, builds, builtFrom>>
        /\ pc[d] # "idle" /\ KeepsOrReads(d)
        /\ Save(d, "DISPATCHED", run) /\ "DISPATCHED" \in Decision
    BY <1>5 DEF FailStage, KeepsOrReads, Decision
  <2> HIDE DEF run
  <2> QED BY <2>2, <2>3, SaveKeepsSerial
<1> QED BY <1>1, <1>2, <1>3, <1>4, <1>5

(* The two file steps, and a crash.                                        *)
LEMMA WriteKeepsSerial ==
  ASSUME SerialInv, Typed', NEW d \in Dispatchers,
         WriteTemp(d) \/ Replace(d) \/ Crash(d)
  PROVE  SerialInv'
<1>0. Typed /\ KeptRunsAreFaithful /\ pc[d] # "idle"
  BY DEF SerialInv, WriteTemp, Replace, Crash
<1>1. \E l \in {"replace", "idle"} : pc' = [pc EXCEPT ![d] = l] /\ pc'[d] = l
  BY <1>0 DEF WriteTemp, Replace, Crash, Forget, Goto, Typed, TypeOK
<1>2. /\ \E p \in {previous[d], None} : previous' = [previous EXCEPT ![d] = p]
      /\ \E o \in {out[d], None} : out' = [out EXCEPT ![d] = o]
  <2>1. CASE WriteTemp(d)
    <3>1. /\ previous' = [previous EXCEPT ![d] = previous[d]]
          /\ out' = [out EXCEPT ![d] = out[d]]
      BY <1>0, <2>1 DEF WriteTemp, local, Typed, TypeOK
    <3> QED BY <3>1
  <2>2. CASE Replace(d) \/ Crash(d)
    <3>1. /\ previous' = [previous EXCEPT ![d] = None]
          /\ out' = [out EXCEPT ![d] = None]
      BY <2>2 DEF Replace, Crash, Forget
    <3> QED BY <3>1
  <2> QED BY <2>1, <2>2
<1>3. /\ file' = file \/ file' = temp
      /\ temp' = temp \/ temp' = out[d] \/ temp' = None
      /\ BuildsGrow
  BY DEF WriteTemp, Replace, Crash, BuildsGrow
<1>4. KeptRunsAreFaithful'
  <2>1. PICK p \in {previous[d], None} : previous' = [previous EXCEPT ![d] = p]
    BY <1>2
  <2>2. PICK o \in {out[d], None} : out' = [out EXCEPT ![d] = o]
    BY <1>2
  <2>3. p \in Run \cup {None} /\ o \in Snapshot \cup {None}
    BY <1>0 DEF Typed, TypeOK
  <2>4. o # None => Faithful(o.run)'
    <3>1. o # None => o.run \in Run \cup {None} /\ Faithful(o.run)
      BY <1>0, <2>3 DEF KeptRunsAreFaithful, Snapshot
    <3>2. \A r \in Run \cup {None} : Faithful(r) => Faithful(r)'
      BY <1>0, <1>3, FaithfulStays
    <3> QED BY <3>1, <3>2
  <2> QED BY <1>0, <1>3, <2>1, <2>2, <2>3, <2>4, KeptStays
<1>5. Progress(d)'
  BY <1>1 DEF Progress
<1> QED BY <1>0, <1>1, <1>4, <1>5, SerialFromOne DEF Location

LEMMA NextKeepsSerial ==
  ASSUME ~ SideBySide
  PROVE  SerialInv /\ [Next]_vars => SerialInv'
<1> SUFFICES ASSUME SerialInv, [Next]_vars PROVE SerialInv'
  OBVIOUS
<1>0. Typed'
  BY NextKeepsTyped DEF SerialInv
<1>1. CASE UNCHANGED vars
  BY <1>0, <1>1
  DEF vars, local, SerialInv, Alone, KeptRunsAreFaithful, Faithful, Built, Progress
<1>2. CASE Next
  <2>1. PICK d \in Dispatchers :
          \/ Collect(d) \/ Reconcile(d)
          \/ ReadPrevious(d) \/ CheckCash(d) \/ Decide(d) \/ RecoverR3(d)
          \/ StageCash(d) \/ PersistBundle(d) \/ PersistOrder(d)
          \/ FinishPipeline(d) \/ FailStage(d)
          \/ WriteTemp(d) \/ Replace(d) \/ Crash(d)
    BY <1>2 DEF Next
  <2> QED BY <1>0, <2>1, CollectKeepsSerial, DecideKeepsSerial, PipelineKeepsSerial,
             WriteKeepsSerial
<1> QED BY <1>1, <1>2

(* While dispatches do not overlap, a dispatch that is skipped as a        *)
(* duplicate points at outputs that were built from what is last-good now, *)
(* whatever crashes, failed stages and recoveries came before.             *)
THEOREM SkippedIsCurrent ==
  ASSUME ~ SideBySide
  PROVE  Spec => []SkipsOnlyWhatIsCurrent
<1>1. SerialInv => SkipsOnlyWhatIsCurrent
  <2> SUFFICES ASSUME SerialInv, NEW d \in Dispatchers,
                      pc[d] = "save", out[d].decision = "SKIPPED_DUPLICATE"
               PROVE  builtFrom[out[d].run.r1] = lastGood
    BY DEF SkipsOnlyWhatIsCurrent
  <2>1. /\ out[d] # None /\ out[d].run # None /\ out[d].run.r1 # None
        /\ out[d].run.fp.content = lastGood
    BY DEF SerialInv, Progress
  <2> QED BY <2>1 DEF SerialInv, KeptRunsAreFaithful, Faithful, Built
<1>2. SerialInv /\ [Next]_vars => SerialInv'
  BY NextKeepsSerial
<1> QED BY <1>1, <1>2, InitSerial, PTL DEF Spec
-----------------------------------------------------------------------------
(* When dispatches do not overlap, what an unrelated dispatch is about to  *)
(* write is the run the state file holds, and the temporary file is the    *)
(* one it wrote itself: the run that an unrelated dispatch puts back can   *)
(* only be an older one because another dispatch replaced the file between *)
(* its read and its write.                                                 *)
KeptRun == IF file = None THEN None ELSE file.run

Retains(d) ==
  /\ pc[d] \in {"save", "replace"} /\ out[d].decision = "SKIPPED_UNRELATED"
       => out[d].run = KeptRun
  /\ pc[d] = "replace" => temp = out[d]

LEMMA SaveRetains ==
  ASSUME Typed, NEW d \in Dispatchers, NEW decision, NEW run,
         Save(d, decision, run), UNCHANGED file,
         decision = "SKIPPED_UNRELATED" => run = KeptRun
  PROVE  Retains(d)'
<1>1. pc'[d] = "save" /\ out'[d] = [decision |-> decision, run |-> run]
  BY DEF Save, Goto, Typed, TypeOK
<1> QED BY <1>1 DEF Retains, KeptRun

LEMMA NextRetains ==
  ASSUME ~ SideBySide, SerialInv, \A d \in Dispatchers : Retains(d), [Next]_vars
  PROVE  \A d \in Dispatchers : Retains(d)'
<1>0. Typed /\ Alone /\ SerialInv'
  BY NextKeepsSerial DEF SerialInv
<1>1. CASE UNCHANGED vars
  BY <1>1 DEF vars, local, Retains, KeptRun
<1>2. CASE Next
  <2>1. PICK d \in Dispatchers :
          \/ Collect(d) \/ Reconcile(d)
          \/ ReadPrevious(d) \/ CheckCash(d) \/ Decide(d) \/ RecoverR3(d)
          \/ StageCash(d) \/ PersistBundle(d) \/ PersistOrder(d)
          \/ FinishPipeline(d) \/ FailStage(d)
          \/ WriteTemp(d) \/ Replace(d) \/ Crash(d)
    BY <1>2 DEF Next
  <2>2. PICK l \in Location : pc' = [pc EXCEPT ![d] = l] /\ pc'[d] = l
    <3>1. \E l \in Location : pc' = [pc EXCEPT ![d] = l]
      BY <2>1 DEF Collect, Reconcile, Observe, ReadPrevious, CheckCash, Decide, RecoverR3,
                  StageCash, PersistBundle, PersistOrder, FinishPipeline, FailStage,
                  WriteTemp, Replace, Crash, Forget, Save, Goto, Location
    <3> QED BY <1>0, <3>1 DEF Typed, TypeOK
  <2>3. pc[d] # "idle" \/ \A e \in Dispatchers : pc[e] = "idle"
    BY <2>1 DEF Collect, Reconcile, Observe, ReadPrevious, CheckCash, Decide, RecoverR3,
                StageCash, PersistBundle, PersistOrder, FinishPipeline, FailStage,
                WriteTemp, Replace, Crash
  <2>4. \A e \in Dispatchers : e # d => pc'[e] = "idle"
    BY <1>0, <2>2, <2>3, OthersAreIdle
  <2>5. Retains(d)'
    <3>1. CASE ReadPrevious(d)
      <4>1. \/ Save(d, "SKIPPED_UNRELATED", KeptRun)
            \/ Goto(d, "check")
        BY <3>1 DEF ReadPrevious, KeptRun
      <4>2. UNCHANGED file
        BY <3>1 DEF ReadPrevious
      <4>3. CASE Save(d, "SKIPPED_UNRELATED", KeptRun)
        BY <1>0, <4>2, <4>3, SaveRetains
      <4>4. CASE Goto(d, "check")
        BY <1>0, <4>4 DEF Goto, Typed, TypeOK, Retains
      <4> QED BY <4>1, <4>3, <4>4
    <3>2. CASE \/ CheckCash(d) \/ Decide(d) \/ RecoverR3(d)
               \/ FinishPipeline(d) \/ FailStage(d)
      <4>1. \/ \E decision \in Decision \ {"SKIPPED_UNRELATED"} :
                 \E run \in {out'[d].run} : Save(d, decision, run)
            \/ \E m \in Location \ {"save", "replace"} : Goto(d, m)
        <5>1. \A decision, run : Save(d, decision, run) => out'[d].run = run
          BY <1>0 DEF Save, Typed, TypeOK
        <5>2. CASE CheckCash(d)
          BY <5>1, <5>2 DEF CheckCash, Decision, Location
        <5>3. CASE Decide(d)
          BY <5>1, <5>3 DEF Decide, Decision, Location
        <5>4. CASE RecoverR3(d)
          BY <5>1, <5>4 DEF RecoverR3, Decision
        <5>5. CASE FinishPipeline(d)
          <6>1. \E r3 \in {None, mine[d]}, rest \in BOOLEAN :
                  Save(d, "DISPATCHED",
                       [state |-> "COMPLETED", fp |-> fp[d], r1 |-> mine[d],
                        r2 |-> mine[d], r3 |-> r3, rest |-> rest])
            BY <1>0, <5>5, FinishSaves, Zenon
          <6> QED BY <5>1, <6>1 DEF Decision
        <5>6. CASE FailStage(d)
          BY <5>1, <5>6 DEF FailStage, Decision
        <5> QED BY <3>2, <5>2, <5>3, <5>4, <5>5, <5>6
      <4>2. UNCHANGED file
        BY <3>2 DEF CheckCash, Decide, RecoverR3, FinishPipeline, FailStage
      <4>3. CASE \E m \in Location \ {"save", "replace"} : Goto(d, m)
        BY <1>0, <4>3 DEF Goto, Typed, TypeOK, Retains
      <4>4. ASSUME NEW decision \in Decision \ {"SKIPPED_UNRELATED"}, NEW run,
                   Save(d, decision, run)
            PROVE  Retains(d)'
        BY <1>0, <4>2, <4>4, SaveRetains
      <4> QED BY <4>1, <4>3, <4>4
    <3>3. CASE WriteTemp(d)
      BY <1>0, <3>3 DEF WriteTemp, Goto, local, Typed, TypeOK, Retains, KeptRun
    <3>4. CASE \/ Collect(d) \/ Reconcile(d) \/ StageCash(d) \/ PersistBundle(d)
               \/ PersistOrder(d) \/ Replace(d) \/ Crash(d)
      BY <1>0, <3>4 DEF Collect, Reconcile, Observe, StageCash, PersistBundle, PersistOrder,
                        Replace, Crash, Forget, Goto, Typed, TypeOK, Retains
    <3> QED BY <2>1, <3>1, <3>2, <3>3, <3>4
  <2> QED BY <2>4, <2>5 DEF Retains
<1> QED BY <1>1, <1>2

(* The state file changes only when a dispatch replaces it, and that one   *)
(* is the only one that is not idle.                                       *)
LEMMA ReplaceKeepsRun ==
  ASSUME SerialInv, \A e \in Dispatchers : Retains(e), [Next]_vars,
         NEW d \in Dispatchers, pc[d] = "replace",
         out[d].decision = "SKIPPED_UNRELATED", file # None, file' # file
  PROVE  file'.run = file.run
<1>1. PICK e \in Dispatchers : Replace(e)
  BY DEF Next, vars, Collect, Reconcile, Observe, ReadPrevious, CheckCash, Decide,
         RecoverR3, StageCash, PersistBundle, PersistOrder, FinishPipeline, FailStage,
         WriteTemp, Crash
<1>2. e = d
  BY <1>1 DEF Replace, SerialInv, Alone
<1>3. file' = temp /\ temp = out[d] /\ out[d].run = file.run
  BY <1>1, <1>2 DEF Replace, Retains, KeptRun
<1> QED BY <1>3

(* While dispatches do not overlap, an unrelated dispatch keeps the run of *)
(* the state file, whatever died before: the loss that two dispatches side *)
(* by side can cause has no other cause.                                   *)
THEOREM UnrelatedKeepsRunAlone ==
  ASSUME ~ SideBySide
  PROVE  Spec => UnrelatedKeepsRun
<1> DEFINE I == SerialInv /\ \A d \in Dispatchers : Retains(d)
           A == \A d \in Dispatchers :
                  pc[d] = "replace" /\ out[d].decision = "SKIPPED_UNRELATED"
                    /\ pc'[d] = "idle" /\ file # None /\ file' # file
                    => file'.run = file.run
<1>1. Init => I
  BY InitSerial DEF Init, Retains
<1>2. I /\ [Next]_vars => I'
  BY NextKeepsSerial, NextRetains
<1>3. I /\ [Next]_vars => [A]_vars
  BY ReplaceKeepsRun
<1>4. [][A]_vars <=> UnrelatedKeepsRun
  BY DEF UnrelatedKeepsRun
<1> QED BY <1>1, <1>2, <1>3, <1>4, PTL DEF Spec
=============================================================================
