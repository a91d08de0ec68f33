-------------------------- MODULE CashPostCommit --------------------------
(***************************************************************************)
(* The post-commit bridge of selection/cash_post_commit.py: after a        *)
(* collection the scheduler hands the run's results to                     *)
(* CashPostCommitOrchestrator.process in a worker thread, which decides    *)
(* from the state file operations/cash-pipeline.json, the cash last-good   *)
(* and a fingerprint of both whether the cash stages A1..R16 run again.    *)
(*                                                                         *)
(* Dispatches of collectors hold the collector lease (module               *)
(* CollectorLease); the dispatch of reconcile_research_session's           *)
(* "already current" branch does not, so it runs beside a collector that   *)
(* commits a new artifact.  The trading date is one session's: Current is  *)
(* the set of artifacts dated for it.  The companion sources (ban, MWPL,   *)
(* index, F&O, corporate actions) only decide whether a dispatch is        *)
(* relevant; their contents are left out of the fingerprint.               *)
(***************************************************************************)
EXTENDS Naturals, FiniteSets

CONSTANTS Dispatchers,  \* threads that may be inside process() at one time
          Collectors,   \* those of them that collect and commit first
          Artifacts,    \* contents of the cash source, one per content hash
          Current,      \* the artifacts dated for the session
          SideBySide,   \* whether a dispatch may begin beside another
          MaxBuilds,    \* bound: R1 bundles ever persisted
          Crashes,      \* whether a process may die
          None          \* Python's None

ASSUME DispatcherAssumption == Collectors \subseteq Dispatchers
ASSUME ArtifactAssumption == Current \subseteq Artifacts /\ Current # {}
ASSUME BoundAssumption == 
  /\ MaxBuilds \in Nat \ {0}
  /\ {SideBySide, Crashes} \subseteq BOOLEAN

\* What a dispatch's results say: no relevant source attempted; companions only,
\* and one succeeded; the cash source with a new or an unchanged content; or no
\* start: the cash attempt failed, or companions were tried and none succeeded.
Kind == {"Unrelated", "Companion", "New", "Unchanged", "Failed"}

\* What _input_fingerprint hashes: the stored content, and the status and hash
\* the dispatch itself observed.
Fp == [content: Artifacts, status: Kind, hash: Artifacts \cup {None}]

\* A CashPipelineRun.  r1 and r2 are output ids, named by the build that
\* persisted them; r3 is the bundle the resolution was made from; rest says that
\* R4, R14, R5, S8 and R16 left their outputs (or R16's explicit schema block).
BuildId == 1 .. MaxBuilds
Run == [state: {"COMPLETED", "BLOCKED_INPUT", "FAILED_STAGE"}, fp: Fp,
        r1: BuildId \cup {None}, r2: BuildId \cup {None},
        r3: BuildId \cup {None}, rest: BOOLEAN]

Decision == {"DISPATCHED", "SKIPPED_UNRELATED", "SKIPPED_DUPLICATE",
             "BLOCKED_INPUT"}
Snapshot == [decision: Decision, run: Run \cup {None}]

\* Python's None is no value of any of these types.
ASSUME NoneAssumption ==
  /\ None \notin Artifacts /\ None \notin BuildId
  /\ None \notin Fp /\ None \notin Run /\ None \notin Snapshot

VARIABLES lastGood,  \* content of the cash source's last-good row
          file,      \* cash-pipeline.json
          temp,      \* .cash-pipeline.json.tmp, one name for every writer
          bundle,    \* latest_inventory_source_bundle()
          order,     \* latest_attention_order()
          builds,    \* R1 bundles persisted so far
          pc, kind, hash, previous, fp, staged, mine, out,
          builtFrom  \* history: the artifact each R1 bundle was built from

local == <<kind, hash, previous, fp, staged, mine, out>>
vars == <<lastGood, file, temp, bundle, order, builds, pc, local, builtFrom>>

Location == {"idle", "dispatched", "check", "fingerprint", "recover", "build",
             "staged", "bundled", "ordered", "save", "replace"}

TypeOK ==
  /\ lastGood \in Artifacts
  /\ file \in Snapshot \cup {None} /\ temp \in Snapshot \cup {None}
  /\ bundle \in [id: BuildId, fp: Fp] \cup {None}
  /\ order \in [id: BuildId, bundle: BuildId] \cup {None}
  /\ builds \in 0 .. MaxBuilds
  /\ pc \in [Dispatchers -> Location]
  /\ kind \in [Dispatchers -> Kind]
  /\ hash \in [Dispatchers -> Artifacts \cup {None}]
  /\ previous \in [Dispatchers -> Run \cup {None}]
  /\ fp \in [Dispatchers -> Fp \cup {None}]
  /\ staged \in [Dispatchers -> Artifacts \cup {None}]
  /\ mine \in [Dispatchers -> BuildId \cup {None}]
  /\ out \in [Dispatchers -> Snapshot \cup {None}]
  /\ builtFrom \in [BuildId -> Artifacts \cup {None}]

Init ==
  /\ lastGood \in Artifacts
  /\ file = None /\ temp = None /\ bundle = None /\ order = None /\ builds = 0
  /\ pc = [d \in Dispatchers |-> "idle"]
  /\ kind = [d \in Dispatchers |-> "Unrelated"]
  /\ hash = [d \in Dispatchers |-> None]
  /\ previous = [d \in Dispatchers |-> None]
  /\ fp = [d \in Dispatchers |-> None]
  /\ staged = [d \in Dispatchers |-> None]
  /\ mine = [d \in Dispatchers |-> None]
  /\ out = [d \in Dispatchers |-> None]
  /\ builtFrom = [b \in BuildId |-> None]

Goto(d, l) == pc' = [pc EXCEPT ![d] = l]

\* _save_dispatch builds the snapshot in memory; the two file steps follow.
Save(d, decision, run) ==
  /\ out' = [out EXCEPT ![d] = [decision |-> decision, run |-> run]]
  /\ Goto(d, "save")

----------------------------------------------------------------------------
\* The scheduler's side: what the results say and what they committed.

Observe(d, k, h) ==
  /\ pc[d] = "idle"
  /\ SideBySide \/ \A e \in Dispatchers : pc[e] = "idle"
  /\ kind' = [kind EXCEPT ![d] = k]
  /\ hash' = [hash EXCEPT ![d] = h]
  /\ Goto(d, "dispatched")
  /\ UNCHANGED <<file, temp, bundle, order, builds, previous, fp, staged, mine,
                 out, builtFrom>>

\* A collection under the lease: one collector is between its acquire and its
\* release at a time, and its commits come before its dispatch.
Collect(d) ==
  /\ \A e \in Collectors : pc[e] = "idle"
  /\ \/ \E a \in Artifacts \ {lastGood} : lastGood' = a /\ Observe(d, "New", a)
     \/ UNCHANGED lastGood /\ Observe(d, "Unchanged", lastGood)
     \/ \E k \in {"Unrelated", "Companion", "Failed"} :
          UNCHANGED lastGood /\ Observe(d, k, None)

\* reconcile_research_session with nothing to fetch: the results are rebuilt
\* from the last-good row, without the lease.
Reconcile(d) == UNCHANGED lastGood /\ Observe(d, "Unchanged", lastGood)

----------------------------------------------------------------------------
\* CashPostCommitOrchestrator.process

\* A plausible bug: the content is left out of the fingerprint.
Fingerprint_StatusOnly(d) ==
  [content |-> CHOOSE a \in Artifacts : TRUE, status |-> kind[d],
   hash |-> hash[d]]

Fingerprint(d) ==
  [content |-> lastGood, status |-> kind[d], hash |-> hash[d]]

\* An unrelated dispatch writes back the run it read.
ReadPrevious(d) ==
  LET run == IF file = None THEN None ELSE file.run
  IN /\ pc[d] = "dispatched"
     /\ previous' = [previous EXCEPT ![d] = run]
     /\ \/ /\ kind[d] = "Unrelated"
           /\ Save(d, "SKIPPED_UNRELATED", run)
        \/ kind[d] # "Unrelated" /\ Goto(d, "check") /\ UNCHANGED out
     /\ UNCHANGED <<lastGood, file, temp, bundle, order, builds, kind, hash, fp,
                    staged, mine, builtFrom>>

\* A plausible bug: a blocked run has no fingerprint.
BlockedRun_NoFingerprint(f) ==
  [state |-> "BLOCKED_INPUT", fp |-> None, r1 |-> None, r2 |-> None,
   r3 |-> None, rest |-> FALSE]

BlockedRun(f) == [state |-> "BLOCKED_INPUT", fp |-> f, r1 |-> None, r2 |-> None,
                  r3 |-> None, rest |-> FALSE]

CheckCash(d) ==
  /\ pc[d] = "check"
  /\ \/ /\ lastGood \in Current /\ kind[d] # "Failed"
        /\ Goto(d, "fingerprint") /\ UNCHANGED out
     \/ /\ lastGood \notin Current \/ kind[d] = "Failed"
        /\ Save(d, "BLOCKED_INPUT", BlockedRun(Fingerprint(d)))
  /\ UNCHANGED <<lastGood, file, temp, bundle, order, builds, kind, hash,
                 previous, fp, staged, mine, builtFrom>>

R1R2Complete(run) == run.state = "COMPLETED" /\ run.r1 # None /\ run.r2 # None

\* previous_outputs_complete
OutputsComplete(run) == R1R2Complete(run) /\ run.r3 # None /\ run.rest

Decide(d) ==
  LET f == Fingerprint(d)
      same == previous[d] # None /\ previous[d].fp = f
      missingR3 == same /\ R1R2Complete(previous[d]) /\ previous[d].r3 = None
      duplicate == same /\ OutputsComplete(previous[d])
  IN /\ pc[d] = "fingerprint"
     /\ fp' = [fp EXCEPT ![d] = f]
     /\ \/ missingR3 /\ Goto(d, "recover") /\ UNCHANGED out
        \/ duplicate /\ Save(d, "SKIPPED_DUPLICATE", previous[d])
        \/ ~ missingR3 /\ ~ duplicate /\ Goto(d, "build") /\ UNCHANGED out
     /\ UNCHANGED <<lastGood, file, temp, bundle, order, builds, kind, hash,
                    previous, staged, mine, builtFrom>>

\* A plausible bug: R3 is rebuilt from the newest bundle, whatever run it is of.
Lineage_Newest(d) ==
  /\ bundle # None /\ order # None
  /\ order.bundle = bundle.id

\* The stored lineage R3 may be rebuilt from.  The four tables are read one
\* after the other, but every comparison is with ids fixed in previous_run, so a
\* write between two reads can only make the check fail.
Lineage(d) ==
  /\ bundle # None /\ order # None
  /\ bundle.id = previous[d].r1 /\ order.id = previous[d].r2
  /\ order.bundle = bundle.id
  /\ bundle.fp = fp[d]

RecoverR3(d) ==
  /\ pc[d] = "recover"
  /\ \/ /\ Lineage(d)
        /\ Save(d, "DISPATCHED", [previous[d] EXCEPT !.r3 = bundle.id])
     \/ Save(d, "DISPATCHED", previous[d])  \* the stored rows or the build raise
  /\ UNCHANGED <<lastGood, file, temp, bundle, order, builds, kind, hash,
                 previous, fp, staged, mine, builtFrom>>

----------------------------------------------------------------------------
\* run_existing_cash_pipeline, called by process

\* A1 reads the last-good row again.
StageCash(d) ==
  /\ pc[d] = "build"
  /\ staged' = [staged EXCEPT ![d] = lastGood]
  /\ Goto(d, "staged")
  /\ UNCHANGED <<lastGood, file, temp, bundle, order, builds, kind, hash,
                 previous, fp, mine, out, builtFrom>>

PersistBundle(d) ==
  /\ pc[d] = "staged" /\ builds < MaxBuilds
  /\ builds' = builds + 1
  /\ bundle' = [id |-> builds + 1, fp |-> fp[d]]
  /\ builtFrom' = [builtFrom EXCEPT ![builds + 1] = staged[d]]
  /\ mine' = [mine EXCEPT ![d] = builds + 1]
  /\ Goto(d, "bundled")
  /\ UNCHANGED <<lastGood, file, temp, order, kind, hash, previous, fp, staged,
                 out>>

PersistOrder(d) ==
  /\ pc[d] = "bundled"
  /\ order' = [id |-> mine[d], bundle |-> mine[d]]
  /\ Goto(d, "ordered")
  /\ UNCHANGED <<lastGood, file, temp, bundle, builds, local, builtFrom>>

\* R4 and R14 each complete or fail; R5 needs R14, S8 needs R5, R16 needs S8.
TailOutcomes ==
  {t \in SUBSET {"R4", "R14", "R5", "S8", "R16"} :
     /\ "R5" \in t => "R14" \in t
     /\ "S8" \in t => "R5" \in t
     /\ "R16" \in t => "S8" \in t}

FinishPipeline(d) ==
  /\ pc[d] = "ordered"
  /\ \E t \in TailOutcomes, r3 \in {None, mine[d]}, schemaApplied \in BOOLEAN :
       /\ "R16" \in t => schemaApplied
       /\ Save(d, "DISPATCHED",
               [state |-> "COMPLETED", fp |-> fp[d], r1 |-> mine[d],
                r2 |-> mine[d], r3 |-> r3,
                rest |-> /\ {"R4", "R14", "R5", "S8"} \subseteq t
                         /\ "R16" \in t \/ ~ schemaApplied])
  /\ UNCHANGED <<lastGood, file, temp, bundle, order, builds, kind, hash,
                 previous, fp, staged, mine, builtFrom>>

\* A stage up to R2 raises.
FailStage(d) ==
  /\ pc[d] \in {"build", "staged", "bundled"}
  /\ Save(d, "DISPATCHED", [BlockedRun(fp[d]) EXCEPT !.state = "FAILED_STAGE"])
  /\ UNCHANGED <<lastGood, file, temp, bundle, order, builds, kind, hash,
                 previous, fp, staged, mine, builtFrom>>

----------------------------------------------------------------------------
\* _write: the fixed temporary file, then os.replace

WriteTemp(d) ==
  /\ pc[d] = "save"
  /\ temp' = out[d]
  /\ Goto(d, "replace")
  /\ UNCHANGED <<lastGood, file, bundle, order, builds, local, builtFrom>>

Forget(d) ==
  /\ Goto(d, "idle")
  /\ kind' = [kind EXCEPT ![d] = "Unrelated"]
  /\ hash' = [hash EXCEPT ![d] = None]
  /\ previous' = [previous EXCEPT ![d] = None]
  /\ fp' = [fp EXCEPT ![d] = None]
  /\ staged' = [staged EXCEPT ![d] = None]
  /\ mine' = [mine EXCEPT ![d] = None]
  /\ out' = [out EXCEPT ![d] = None]

\* Replaces the state file by whatever the temporary file holds; when another
\* writer has moved it away os.replace raises and the dispatch ends.
Replace(d) ==
  /\ pc[d] = "replace"
  /\ file' = IF temp = None THEN file ELSE temp
  /\ temp' = None
  /\ Forget(d)
  /\ UNCHANGED <<lastGood, bundle, order, builds, builtFrom>>

Crash(d) ==
  /\ Crashes /\ pc[d] # "idle"
  /\ Forget(d)
  /\ UNCHANGED <<lastGood, file, temp, bundle, order, builds, builtFrom>>

Next ==
  \E d \in Dispatchers :
    \/ d \in Collectors /\ Collect(d)
    \/ d \notin Collectors /\ Reconcile(d)
    \/ ReadPrevious(d) \/ CheckCash(d) \/ Decide(d) \/ RecoverR3(d)
    \/ StageCash(d) \/ PersistBundle(d) \/ PersistOrder(d) \/ FinishPipeline(d)
    \/ FailStage(d) \/ WriteTemp(d) \/ Replace(d) \/ Crash(d)

Spec == Init /\ [][Next]_vars

----------------------------------------------------------------------------
\* A published run is one lineage: its R3 resolution was made from the bundle
\* whose id stands beside it as R1, also when R3 was recovered later from the
\* stored outputs while another dispatch was persisting its own (process, the
\* R3 recovery branch).
PublishedRunIsOneLineage ==
  file # None /\ file.run # None => file.run.r3 \in {None, file.run.r1}

\* A dispatch that is skipped as a duplicate leaves nothing to do: the full
\* outputs it points at were built from the artifact that is the last-good now
\* (_input_fingerprint, process).
SkipsOnlyWhatIsCurrent ==
  \A d \in Dispatchers :
    pc[d] = "save" /\ out[d].decision = "SKIPPED_DUPLICATE"
      => builtFrom[out[d].run.r1] = lastGood

\* Replacing the state file for an unrelated dispatch changes no cash run: "No
\* cash-relevant source was attempted; existing cash run was retained".
UnrelatedKeepsRun ==
  [][\A d \in Dispatchers :
       pc[d] = "replace" /\ out[d].decision = "SKIPPED_UNRELATED" /\ pc'[d] = "idle"
       /\ file # None /\ file' # file
         => file'.run = file.run]_vars
=============================================================================
