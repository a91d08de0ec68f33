------------------------- MODULE Collection_proofs -------------------------
(***************************************************************************)
(* What collected data can be relied on for, for any number of sources,    *)
(* contents, collectors and days.                                          *)
(*                                                                         *)
(* The market-data store:                                                  *)
(*   - the foreign keys hold through every interleaving of collectors,     *)
(*     retention and crashes;                                              *)
(*   - while no collector runs next to a sweep, the last-good contents and *)
(*     the contents of the manifests stay readable.                        *)
(* The end-of-day collection that fills it:                                *)
(*   - a completed day stands for an object of that day;                   *)
(*   - while the loop collects alone, a pass asks for a source once.       *)
(***************************************************************************)
EXTENDS MarketDataStore, EodCollection, TLAPS

(* The dummy values of unused local variables are of the right type.       *)
LEMMA DummyTyping ==
  /\ NoJob \in Job
  /\ NoManifestJob \in ManifestJob
  /\ NoTarget \in Content
<1>1. NoTarget \in Content
  BY StoreAssumption DEF NoTarget
<1>2. NoJob \in Job
  <2>1. PICK s \in Source, c \in Content : TRUE
    BY StoreAssumption
  <2>2. [source |-> s, content |-> c] \in Job
    BY <2>1 DEF Job
  <2> QED
    BY <2>2 DEF NoJob
<1>3. NoManifestJob \in ManifestJob
  <2> DEFINE e == [s \in Source |-> NoContent]
  <2>1. e \in Manifest
    BY DEF Manifest, Reference
  <2>2. 1 \in Day
    BY StoreAssumption DEF Day
  <2>3. [day |-> 1, entries |-> e, previous |-> NoManifest] \in ManifestJob
    BY <2>1, <2>2 DEF ManifestJob
  <2> QED
    BY <2>3 DEF NoManifestJob
<1> QED
  BY <1>1, <1>2, <1>3

(* A manifest commit hands a row of an earlier run at most what it named.  *)
LEMMA SupersededGrowth ==
  ASSUME TypeOK, NEW w \in Writer, CommitManifest(w)
  PROVE  /\ superseded' \in [Day -> SUBSET Content]
         /\ \A d \in Day : superseded'[d] \subseteq superseded[d] \cup NewestNames(d)
<1>1. wman[w].day \in Day
  BY DEF TypeOK, ManifestJob
<1>2. PICK names \in {{}, NewestNames(wman[w].day)} :
        superseded' = [superseded EXCEPT ![wman[w].day] = @ \cup names]
  BY DEF CommitManifest
<1>3. names \subseteq NewestNames(wman[w].day) /\ NewestNames(wman[w].day) \subseteq Content
  BY DEF NewestNames
<1> QED
  BY <1>1, <1>2, <1>3 DEF TypeOK

(* The variables of a collector keep their types through its steps.        *)
LEMMA WriterTyping ==
  ASSUME TypeOK, NEW w \in Writer, WriterStep(w)
  PROVE  TypeOK'
<1> USE DummyTyping DEF TypeOK, Goto, Return, WriterLocation,
                        tableVars, fileVars, writerVars, retentionVars
<1>1. ASSUME NEW s \in Source, NEW c \in Content, BeginCommit(w, s, c)
      PROVE  TypeOK'
  BY <1>1 DEF BeginCommit, Job
<1>2. CASE install_object(w)
  BY <1>2 DEF install_object
<1>3. CASE WriteObjectFile(w)
  BY <1>3 DEF WriteObjectFile, Job
<1>4. CASE RegisterObject(w)
  BY <1>4 DEF RegisterObject, Job
<1>5. CASE commit_success(w)
  BY <1>5 DEF commit_success, Job, Reference
<1>7. ASSUME NEW entries \in Manifest, BeginManifest(w, entries)
      PROVE  TypeOK'
  <2>1. [day |-> today, entries |-> entries, previous |-> NoManifest] \in ManifestJob
    BY DEF ManifestJob
  <2> QED
    BY <1>7, <2>1 DEF BeginManifest
<1>8. CASE WriteManifestFile(w)
  <2>1. wman[w] \in ManifestJob
    OBVIOUS
  <2>2. [day |-> wman[w].day, entries |-> wman[w].entries,
         previous |-> manifestFile[wman[w].day]] \in ManifestJob
    BY <2>1 DEF ManifestJob
  <2> QED
    BY <1>8, <2>1, <2>2 DEF WriteManifestFile, ManifestJob
<1>9. CASE CommitManifest(w)
  BY <1>9, SupersededGrowth DEF CommitManifest, ManifestJob
<1>10. CASE RestoreManifest(w)
  BY <1>10 DEF RestoreManifest, ManifestJob
<1>11. CASE CrashWriter(w)
  BY <1>11 DEF CrashWriter, ManifestJob
<1> QED
  BY <1>1, <1>2, <1>3, <1>4, <1>5, <1>7, <1>8, <1>9, <1>10, <1>11 DEF WriterStep

(* So do the variables of a sweep.                                         *)
LEMMA RetentionTyping ==
  ASSUME TypeOK, RetentionStep
  PROVE  TypeOK'
<1> USE DummyTyping DEF TypeOK, ReturnRetention, RetentionLocation,
                        tableVars, fileVars, writerVars, retentionVars
<1>1. CASE cleanup_retention
  BY <1>1 DEF cleanup_retention, ExpiredDays, LatestReferences
<1>2. CASE ReadManifestReferences
  BY <1>2 DEF ReadManifestReferences, ManifestReferences, NewestNames
<1>3. CASE PlanSweep
  BY <1>3 DEF PlanSweep
<1>4. CASE DryRun
  BY <1>4 DEF DryRun
<1>5. CASE DeleteDays
  BY <1>5 DEF DeleteDays
<1>6. CASE DeleteManifestRows
  BY <1>6 DEF DeleteManifestRows
<1>7. CASE UnlinkObject
  BY <1>7 DEF UnlinkObject
<1>8. CASE DeleteObjectRow
  BY <1>8 DEF DeleteObjectRow
<1>9. CASE SweepDone
  BY <1>9 DEF SweepDone
<1>10. CASE CrashRetention
  BY <1>10 DEF CrashRetention
<1> QED
  BY <1>1, <1>2, <1>3, <1>4, <1>5, <1>6, <1>7, <1>8, <1>9, <1>10 DEF RetentionStep

LEMMA TypeStep ==
  TypeOK /\ [Next]_vars => TypeOK'
<1> SUFFICES ASSUME TypeOK, [Next]_vars PROVE TypeOK'
  OBVIOUS
<1>1. CASE NextDay
  BY <1>1, StoreAssumption
     DEF NextDay, TypeOK, Day, tableVars, fileVars, writerVars, retentionVars
<1>2. CASE RetentionStep
  BY <1>2, RetentionTyping
<1>3. ASSUME NEW w \in Writer, WriterStep(w) PROVE TypeOK'
  BY <1>3, WriterTyping
<1>4. CASE UNCHANGED vars
  BY <1>4 DEF TypeOK, vars, tableVars, fileVars, writerVars, retentionVars
<1> QED
  BY <1>1, <1>2, <1>3, <1>4 DEF Next

LEMMA TypeInit == Init => TypeOK
  BY StoreAssumption, DummyTyping
     DEF Init, TypeOK, Day, Reference, WriterLocation, RetentionLocation

(* Every step of every collector and of retention keeps the tables, files  *)
(* and local variables of the store well typed.                            *)
THEOREM StoreTyping == Spec => []TypeOK
  BY TypeInit, TypeStep, PTL DEF Spec
-----------------------------------------------------------------------------
(* A collector adds a reference only in a transaction that requires the    *)
(* object's row.                                                           *)
LEMMA WriterKeepsRows ==
  ASSUME TypeOK, ReferencesHaveRows, NEW w \in Writer, WriterStep(w)
  PROVE  ReferencesHaveRows'
<1> USE DEF ReferencesHaveRows, LatestReferences, ManifestReferences, NewestNames,
            tableVars, fileVars, writerVars, retentionVars
<1>1. CASE commit_success(w)
  BY <1>1 DEF commit_success, TypeOK, Job
<1>2. CASE CommitManifest(w)
  <2>1. wman[w] \in ManifestJob
    BY DEF TypeOK
  <2>2. UNCHANGED <<objects, attempts, latest>>
    BY <1>2 DEF CommitManifest
  <2>3. ASSUME NEW c \in Content, NEW d \in Day, NEW s \in Source,
               manifests'[d] # NoManifest, manifests'[d][s] = c
        PROVE  c \in objects
    <3>1. CASE d = wman[w].day
      BY <1>2, <2>1, <2>3, <3>1, StoreAssumption DEF CommitManifest, TypeOK, ManifestJob
    <3>2. CASE d # wman[w].day
      BY <1>2, <2>1, <2>3, <3>2 DEF CommitManifest, TypeOK, ManifestJob
    <3> QED
      BY <3>1, <3>2
  <2>4. \A d \in Day : superseded'[d] \subseteq objects
    BY <1>2, SupersededGrowth
  <2> QED
    BY <2>2, <2>3, <2>4
<1>3. CASE RegisterObject(w)
  BY <1>3 DEF RegisterObject
<1>4. CASE ~(commit_success(w) \/ CommitManifest(w) \/ RegisterObject(w))
  <2>1. UNCHANGED <<objects, attempts, latest, manifests, superseded>>
    BY <1>4 DEF WriterStep, BeginCommit, install_object, WriteObjectFile,
                BeginManifest, WriteManifestFile, RestoreManifest, CrashWriter
  <2> QED
    BY <2>1
<1> QED
  BY <1>1, <1>2, <1>3, <1>4

(* Retention deletes only a row nothing references.                        *)
LEMMA RetentionKeepsRows ==
  ASSUME TypeOK, ReferencesHaveRows, RetentionStep
  PROVE  ReferencesHaveRows'
<1> USE DEF ReferencesHaveRows, LatestReferences, ManifestReferences, NewestNames,
            tableVars, fileVars, writerVars, retentionVars
<1>1. CASE DeleteManifestRows
  BY <1>1 DEF DeleteManifestRows
<1>2. CASE DeleteObjectRow
  BY <1>2 DEF DeleteObjectRow, Referenced
<1>3. CASE ~(DeleteManifestRows \/ DeleteObjectRow)
  <2>1. UNCHANGED <<objects, attempts, latest, manifests, superseded>>
    BY <1>3 DEF RetentionStep, cleanup_retention, ReadManifestReferences, PlanSweep, DryRun,
                DeleteDays, UnlinkObject, SweepDone, CrashRetention
  <2> QED
    BY <2>1
<1> QED
  BY <1>1, <1>2, <1>3

(* The foreign keys of the attempt log, the last-good pointers and the     *)
(* manifests hold for any number of collectors next to retention, with     *)
(* processes dying anywhere: commit_success and write_manifest re-check    *)
(* the row inside their transaction, and the DELETE of a sweep is refused  *)
(* while a row references its object.                                      *)
THEOREM ForeignKeysHold == Spec => []ReferencesHaveRows
<1>1. Init => ReferencesHaveRows
  BY StoreAssumption
     DEF Init, ReferencesHaveRows, LatestReferences, ManifestReferences, NewestNames
<1>2. TypeOK /\ ReferencesHaveRows /\ [Next]_vars => ReferencesHaveRows'
  <2> SUFFICES ASSUME TypeOK, ReferencesHaveRows, [Next]_vars
               PROVE  ReferencesHaveRows'
    OBVIOUS
  <2> USE DEF tableVars, fileVars, writerVars, retentionVars
  <2>1. CASE NextDay \/ UNCHANGED vars
    <3>1. UNCHANGED <<objects, attempts, latest, manifests, superseded>>
      BY <2>1 DEF NextDay, vars
    <3> QED
      BY <3>1 DEF ReferencesHaveRows, LatestReferences, ManifestReferences, NewestNames
  <2>2. CASE RetentionStep
    BY <2>2, RetentionKeepsRows
  <2>3. ASSUME NEW w \in Writer, WriterStep(w) PROVE ReferencesHaveRows'
    BY <2>3, WriterKeepsRows
  <2> QED
    BY <2>1, <2>2, <2>3 DEF Next
<1> QED
  BY <1>1, <1>2, StoreTyping, PTL DEF Spec
-----------------------------------------------------------------------------
(* What keeps contents readable when no collector runs next to a sweep.    *)
Exclusion == rpc # "idle" => \A w \in Writer : wpc[w] = "idle"

(* A collector that has installed its object still finds the file.         *)
JobsInstalled ==
  \A w \in Writer :
    wpc[w] \in {"registering", "installed"} => wjob[w].content \in files

(* So does a manifest on its way to the database.                          *)
ManifestJobsReadable ==
  \A w \in Writer : wpc[w] \in {"manifest_file", "manifest_row"} =>
    \A s \in Source : wman[w].entries[s] \in files \cup {NoContent}

(* The sweep keeps what the pointers and the surviving manifests name, and *)
(* by the time it unlinks the other manifests are gone.                    *)
SweepKeeps ==
  /\ rpc # "idle" => LatestReferences \subseteq kept
  /\ rpc \notin {"idle", "latest_read"} => ManifestReferences(Day \ expired) \subseteq kept
  /\ rpc \in {"sweeping", "unlinked"} => ManifestReferences(Day) \subseteq kept
  /\ rpc \notin {"idle", "latest_read", "references_read"} => eligible \cap kept = {}

ReadInv ==
  /\ Exclusion
  /\ JobsInstalled
  /\ ManifestJobsReadable
  /\ SweepKeeps
  /\ LastGoodReadable
  /\ ManifestContentsReadable

LEMMA WriterKeepsReadable ==
  ASSUME RetentionExclusive, TypeOK, ReadInv, NEW w \in Writer, WriterStep(w)
  PROVE  ReadInv'
<1> USE DEF tableVars, fileVars, writerVars, retentionVars
<1>1. rpc = "idle" /\ UNCHANGED retentionVars
  BY DEF ReadInv, Exclusion, WriterStep, MayWrite, BeginCommit, install_object,
         WriteObjectFile, RegisterObject, commit_success, BeginManifest,
         WriteManifestFile, CommitManifest, RestoreManifest, CrashWriter
<1>2. Exclusion' /\ SweepKeeps'
  BY <1>1 DEF Exclusion, SweepKeeps
<1>3. files \subseteq files'
  BY DEF WriterStep, BeginCommit, install_object, WriteObjectFile, RegisterObject,
         commit_success, BeginManifest, WriteManifestFile, CommitManifest,
         RestoreManifest, CrashWriter
<1> USE DEF TypeOK, ReadInv, Goto, Return, WriterLocation
<1>4. JobsInstalled'
  BY <1>3 DEF JobsInstalled, WriterStep, BeginCommit, install_object, WriteObjectFile,
         RegisterObject, commit_success, BeginManifest, WriteManifestFile,
         CommitManifest, RestoreManifest, CrashWriter, Job
<1>5. ManifestJobsReadable'
  <2>1. ASSUME NEW entries \in Manifest, BeginManifest(w, entries)
        PROVE  ManifestJobsReadable'
    BY <1>3, <2>1 DEF BeginManifest, ManifestJobsReadable, LastGoodReadable,
                      LatestReferences, Reference
  <2>2. CASE WriteManifestFile(w)
    BY <1>3, <2>2 DEF WriteManifestFile, ManifestJobsReadable
  <2>3. CASE \/ \E s \in Source, c \in Content : BeginCommit(w, s, c)
             \/ install_object(w) \/ WriteObjectFile(w) \/ RegisterObject(w)
             \/ commit_success(w) \/ CommitManifest(w) \/ RestoreManifest(w)
             \/ CrashWriter(w)
    BY <1>3, <2>3 DEF ManifestJobsReadable, BeginCommit, install_object, WriteObjectFile,
         RegisterObject, commit_success, CommitManifest, RestoreManifest,
         CrashWriter
  <2> QED
    BY <2>1, <2>2, <2>3 DEF WriterStep
<1>6. LastGoodReadable'
  <2>1. CASE commit_success(w)
    BY <1>3, <2>1 DEF commit_success, LastGoodReadable, LatestReferences, JobsInstalled, Job
  <2>2. CASE UNCHANGED latest
    BY <1>3, <2>2 DEF LastGoodReadable, LatestReferences
  <2> QED
    BY <2>1, <2>2 DEF WriterStep, BeginCommit, install_object, WriteObjectFile,
         RegisterObject, BeginManifest, WriteManifestFile,
         CommitManifest, RestoreManifest, CrashWriter
<1>7. ManifestContentsReadable'
  <2>1. CASE CommitManifest(w)
    <3>1. wman[w] \in ManifestJob
      OBVIOUS
    <3>2. \A d \in Day : superseded'[d] \subseteq files
      BY <2>1, SupersededGrowth DEF ManifestContentsReadable, ManifestReferences
    <3>3. \A d \in Day : NewestNames(d)' \subseteq files
      BY <2>1, <3>1, StoreAssumption DEF CommitManifest, ManifestContentsReadable,
         ManifestReferences, NewestNames, ManifestJobsReadable, ManifestJob
    <3> QED
      BY <1>3, <3>2, <3>3 DEF ManifestContentsReadable, ManifestReferences
  <2>2. CASE UNCHANGED <<manifests, superseded>>
    BY <1>3, <2>2 DEF ManifestContentsReadable, ManifestReferences, NewestNames
  <2> QED
    BY <2>1, <2>2 DEF WriterStep, BeginCommit, install_object, WriteObjectFile,
         RegisterObject, commit_success, BeginManifest, WriteManifestFile,
         RestoreManifest, CrashWriter
<1> QED
  BY <1>2, <1>4, <1>5, <1>6, <1>7

LEMMA RetentionKeepsReadable ==
  ASSUME RetentionExclusive, TypeOK, ReadInv, RetentionStep
  PROVE  ReadInv'
<1> USE DEF tableVars, fileVars, writerVars, retentionVars
<1>1. /\ \A w \in Writer : wpc[w] = "idle"
      /\ UNCHANGED <<writerVars, latest>>
  BY DEF ReadInv, Exclusion, RetentionStep, cleanup_retention, ReadManifestReferences,
         PlanSweep, DryRun, DeleteDays, DeleteManifestRows, UnlinkObject, DeleteObjectRow,
         SweepDone, CrashRetention
<1>2. Exclusion' /\ JobsInstalled' /\ ManifestJobsReadable'
  BY <1>1 DEF Exclusion, JobsInstalled, ManifestJobsReadable
<1>3. CASE cleanup_retention
  <2>1. SweepKeeps'
    BY <1>3 DEF cleanup_retention, SweepKeeps, LatestReferences
  <2>2. LastGoodReadable' /\ ManifestContentsReadable'
    BY <1>3 DEF cleanup_retention, ReadInv, LastGoodReadable, LatestReferences,
                ManifestContentsReadable, ManifestReferences, NewestNames
  <2> QED
    BY <1>2, <2>1, <2>2 DEF ReadInv
<1>4. CASE ReadManifestReferences
  <2>1. SweepKeeps'
    BY <1>4 DEF ReadManifestReferences, ReadInv, SweepKeeps, LatestReferences,
                ManifestReferences, NewestNames
  <2>2. LastGoodReadable' /\ ManifestContentsReadable'
    BY <1>4 DEF ReadManifestReferences, ReadInv, LastGoodReadable, LatestReferences,
                ManifestContentsReadable, ManifestReferences, NewestNames
  <2> QED
    BY <1>2, <2>1, <2>2 DEF ReadInv
<1>5. CASE PlanSweep
  <2>1. SweepKeeps'
    BY <1>5 DEF PlanSweep, ReadInv, SweepKeeps, LatestReferences, ManifestReferences, NewestNames
  <2>2. LastGoodReadable' /\ ManifestContentsReadable'
    BY <1>5 DEF PlanSweep, ReadInv, LastGoodReadable, LatestReferences,
                ManifestContentsReadable, ManifestReferences, NewestNames
  <2> QED
    BY <1>2, <2>1, <2>2 DEF ReadInv
<1>6. CASE DeleteDays
  <2>1. SweepKeeps'
    BY <1>6 DEF DeleteDays, ReadInv, SweepKeeps, LatestReferences, ManifestReferences, NewestNames
  <2>2. LastGoodReadable' /\ ManifestContentsReadable'
    BY <1>6 DEF DeleteDays, ReadInv, LastGoodReadable, LatestReferences,
                ManifestContentsReadable, ManifestReferences, NewestNames
  <2> QED
    BY <1>2, <2>1, <2>2 DEF ReadInv
<1>7. CASE DeleteManifestRows
  <2>1. ManifestReferences(Day)' \subseteq ManifestReferences(Day \ expired)
    BY <1>7 DEF DeleteManifestRows, TypeOK, ManifestReferences, NewestNames
  <2>2. ManifestReferences(Day \ expired)' \subseteq ManifestReferences(Day)'
    BY DEF ManifestReferences, NewestNames
  <2>3. SweepKeeps'
    BY <1>7, <2>1, <2>2 DEF DeleteManifestRows, ReadInv, SweepKeeps, LatestReferences
  <2>4. ManifestReferences(Day \ expired) \subseteq ManifestReferences(Day)
    BY DEF ManifestReferences, NewestNames
  <2>5. LastGoodReadable' /\ ManifestContentsReadable'
    BY <1>7, <2>1, <2>4 DEF DeleteManifestRows, ReadInv, LastGoodReadable,
                LatestReferences, ManifestContentsReadable
  <2> QED
    BY <1>2, <2>3, <2>5 DEF ReadInv
<1>8. CASE UnlinkObject
  <2>1. SweepKeeps'
    BY <1>8 DEF UnlinkObject, ReadInv, SweepKeeps, LatestReferences, ManifestReferences, NewestNames
  <2>2. LastGoodReadable' /\ ManifestContentsReadable'
    BY <1>8 DEF UnlinkObject, ReadInv, SweepKeeps, LastGoodReadable, LatestReferences,
                ManifestContentsReadable, ManifestReferences, NewestNames
  <2> QED
    BY <1>2, <2>1, <2>2 DEF ReadInv
<1>9. CASE DeleteObjectRow
  <2>1. SweepKeeps'
    BY <1>9 DEF DeleteObjectRow, ReturnRetention, ReadInv, SweepKeeps, LatestReferences,
                ManifestReferences, NewestNames
  <2>2. LastGoodReadable' /\ ManifestContentsReadable'
    BY <1>9 DEF DeleteObjectRow, ReadInv, LastGoodReadable, LatestReferences,
                ManifestContentsReadable, ManifestReferences, NewestNames
  <2> QED
    BY <1>2, <2>1, <2>2 DEF ReadInv
<1>10. CASE DryRun \/ SweepDone \/ CrashRetention
  <2>1. SweepKeeps'
    BY <1>10 DEF DryRun, SweepDone, CrashRetention, ReturnRetention, SweepKeeps
  <2>2. LastGoodReadable' /\ ManifestContentsReadable'
    BY <1>10 DEF DryRun, SweepDone, CrashRetention, ReadInv, LastGoodReadable,
                LatestReferences, ManifestContentsReadable, ManifestReferences, NewestNames
  <2> QED
    BY <1>2, <2>1, <2>2 DEF ReadInv
<1> QED
  BY <1>3, <1>4, <1>5, <1>6, <1>7, <1>8, <1>9, <1>10 DEF RetentionStep

LEMMA SpecKeepsReadable ==
  ASSUME RetentionExclusive
  PROVE  Spec => []ReadInv
<1>1. Init => ReadInv
  BY StoreAssumption
     DEF Init, ReadInv, Exclusion, JobsInstalled, ManifestJobsReadable, SweepKeeps,
         LastGoodReadable, ManifestContentsReadable, LatestReferences, ManifestReferences, NewestNames
<1>2. TypeOK /\ ReadInv /\ [Next]_vars => ReadInv'
  <2> SUFFICES ASSUME TypeOK, ReadInv, [Next]_vars
               PROVE  ReadInv'
    OBVIOUS
  <2>1. CASE NextDay \/ UNCHANGED vars
    <3>1. UNCHANGED <<tableVars, fileVars, writerVars, retentionVars>>
      BY <2>1 DEF NextDay, vars
    <3> QED
      BY <3>1 DEF tableVars, fileVars, writerVars, retentionVars, ReadInv, Exclusion,
         JobsInstalled, ManifestJobsReadable, SweepKeeps, LastGoodReadable,
         ManifestContentsReadable, LatestReferences, ManifestReferences, NewestNames
  <2>2. CASE RetentionStep
    BY <2>2, RetentionKeepsReadable, RetentionExclusive
  <2>3. ASSUME NEW w \in Writer, WriterStep(w) PROVE ReadInv'
    BY <2>3, WriterKeepsReadable, RetentionExclusive
  <2> QED
    BY <2>1, <2>2, <2>3 DEF Next
<1> QED
  BY <1>1, <1>2, StoreTyping, PTL DEF Spec

(* When the operator keeps retention apart from the collectors, no sweep,  *)
(* crash or sequence of days ever unlinks the last-good object of a        *)
(* source, whatever hashes recur: the sweep reads every protected hash     *)
(* before it unlinks, and no pointer moves while it does.                  *)
THEOREM LastGoodSurvivesRetention ==
  ASSUME RetentionExclusive
  PROVE  Spec => []LastGoodReadable
<1>1. ReadInv => LastGoodReadable
  BY DEF ReadInv
<1> QED BY <1>1, SpecKeepsReadable, PTL

(* Under the same condition no object that a manifest row names is ever    *)
(* unlinked, also through the rows of earlier runs of a day: what the      *)
(* manifest of a day that is kept lists can be read back.                  *)
THEOREM ManifestsSurviveRetention ==
  ASSUME RetentionExclusive
  PROVE  Spec => []ManifestContentsReadable
<1>1. ReadInv => ManifestContentsReadable
  BY DEF ReadInv
<1> QED BY <1>1, SpecKeepsReadable, PTL
-----------------------------------------------------------------------------
(* The one writer between file and row holds what is needed to undo the    *)
(* file, and outside that window the two agree wherever no crash hit it.   *)
InWindow(d) ==
  \/ \E w \in Writer : wpc[w] = "manifest_row" /\ wman[w].day = d
  \/ rpc = "days_deleted" /\ d \in expired

GenerationInv ==
  /\ Exclusion
  /\ \A d \in Day \ torn : manifestFile[d] = manifests[d] \/ InWindow(d)
  /\ \A w \in Writer : wpc[w] = "manifest_row" =>
       /\ manifestFile[wman[w].day] = wman[w].entries
       /\ wman[w].day \notin torn => wman[w].previous = manifests[wman[w].day]
  /\ rpc = "days_deleted" => \A d \in expired : manifestFile[d] = NoManifest

LEMMA WriterKeepsGenerations ==
  ASSUME RetentionExclusive, \A v, w \in Writer : v = w,
         TypeOK, GenerationInv, NEW w \in Writer, WriterStep(w)
  PROVE  GenerationInv'
<1> USE DEF tableVars, fileVars, writerVars, retentionVars
<1>1. rpc = "idle" /\ UNCHANGED retentionVars
  BY DEF GenerationInv, Exclusion, WriterStep, MayWrite, BeginCommit, install_object,
         WriteObjectFile, RegisterObject, commit_success, BeginManifest,
         WriteManifestFile, CommitManifest, RestoreManifest, CrashWriter
<1> USE DEF TypeOK, GenerationInv, InWindow, Exclusion, Goto, Return
<1>2. CASE \/ \E s \in Source, c \in Content : BeginCommit(w, s, c)
           \/ install_object(w) \/ WriteObjectFile(w) \/ RegisterObject(w)
           \/ commit_success(w) \/ \E entries \in Manifest : BeginManifest(w, entries)
  <2>1. UNCHANGED <<manifests, manifestFile, torn>>
    BY <1>2 DEF BeginCommit, install_object, WriteObjectFile, RegisterObject,
                commit_success, BeginManifest
  <2>2. wpc[w] # "manifest_row" /\ wpc'[w] # "manifest_row"
    BY <1>2 DEF BeginCommit, install_object, WriteObjectFile, RegisterObject,
                commit_success, BeginManifest, MayWrite
  <2> QED BY <1>1, <2>1, <2>2
<1>3. CASE WriteManifestFile(w)
  <2>1. wman[w] \in ManifestJob
    OBVIOUS
  <2> QED BY <1>1, <1>3, <2>1 DEF WriteManifestFile, ManifestJob
<1>4. CASE CommitManifest(w)
  <2>1. wman[w].day \in Day /\ wpc[w] = "manifest_row" /\ wpc'[w] = "idle"
    BY <1>4 DEF CommitManifest, ManifestJob
  <2>2. manifests'[wman[w].day] = manifestFile[wman[w].day] /\ UNCHANGED manifestFile
    BY <1>4, <2>1 DEF CommitManifest
  <2>3. \A d \in Day \ {wman[w].day} : manifests'[d] = manifests[d] /\ (d \in torn <=> d \in torn')
    BY <1>4, <2>1 DEF CommitManifest
  <2> QED BY <1>1, <2>1, <2>2, <2>3
<1>5. CASE RestoreManifest(w)
  <2>1. wman[w].day \in Day /\ wpc[w] = "manifest_row" /\ wpc'[w] = "idle"
    BY <1>5 DEF RestoreManifest, ManifestJob
  <2> QED BY <1>1, <1>5, <2>1 DEF RestoreManifest
<1>6. CASE CrashWriter(w)
  <2>1. wpc'[w] = "idle" /\ UNCHANGED <<manifests, manifestFile>>
    BY <1>6 DEF CrashWriter
  <2>2. \A d \in Day \ torn' : d \notin torn /\ ~ (wpc[w] = "manifest_row" /\ wman[w].day = d)
    BY <1>6 DEF CrashWriter
  <2> QED BY <1>1, <2>1, <2>2
<1> QED BY <1>2, <1>3, <1>4, <1>5, <1>6 DEF WriterStep

LEMMA RetentionKeepsGenerations ==
  ASSUME RetentionExclusive, TypeOK, GenerationInv, RetentionStep
  PROVE  GenerationInv'
<1> USE DEF tableVars, fileVars, writerVars, retentionVars
<1>1. (\A w \in Writer : wpc[w] = "idle") /\ UNCHANGED writerVars
  BY DEF GenerationInv, Exclusion, RetentionStep, cleanup_retention, ReadManifestReferences,
         PlanSweep, DryRun, DeleteDays, DeleteManifestRows, UnlinkObject, DeleteObjectRow,
         SweepDone, CrashRetention
<1> USE DEF TypeOK, GenerationInv, InWindow, Exclusion
<1>2. CASE \/ cleanup_retention \/ ReadManifestReferences \/ PlanSweep \/ DryRun
           \/ UnlinkObject \/ DeleteObjectRow \/ SweepDone
  <2>1. UNCHANGED <<manifests, manifestFile, torn>> /\ rpc # "days_deleted" /\ rpc' # "days_deleted"
    BY <1>2 DEF cleanup_retention, ReadManifestReferences, PlanSweep, DryRun, UnlinkObject,
                DeleteObjectRow, SweepDone, ReturnRetention
  <2> QED BY <1>1, <2>1
<1>3. CASE DeleteDays
  BY <1>1, <1>3 DEF DeleteDays
<1>4. CASE DeleteManifestRows
  BY <1>1, <1>4 DEF DeleteManifestRows
<1>5. CASE CrashRetention
  BY <1>1, <1>5 DEF CrashRetention, ReturnRetention
<1> QED BY <1>2, <1>3, <1>4, <1>5 DEF RetentionStep

(* write_manifest keeps file and row on one generation through failed      *)
(* transactions, restores, sweeps and days, for one writer at a time and a *)
(* retention kept apart from it; only a crash between the two separates    *)
(* them, and the next manifest of the day mends that.                      *)
THEOREM GenerationsAgree ==
  ASSUME RetentionExclusive, \A v, w \in Writer : v = w
  PROVE  Spec => []ManifestGenerationsAgree
<1>1. Init => GenerationInv
  BY DEF Init, GenerationInv, Exclusion, InWindow
<1>2. TypeOK /\ GenerationInv /\ [Next]_vars => GenerationInv'
  <2> SUFFICES ASSUME TypeOK, GenerationInv, [Next]_vars
               PROVE  GenerationInv'
    OBVIOUS
  <2>1. CASE NextDay \/ UNCHANGED vars
    <3>1. UNCHANGED <<tableVars, fileVars, writerVars, retentionVars>>
      BY <2>1 DEF NextDay, vars
    <3> QED
      BY <3>1 DEF tableVars, fileVars, writerVars, retentionVars, GenerationInv,
                  Exclusion, InWindow
  <2>2. CASE RetentionStep
    BY <2>2, RetentionKeepsGenerations
  <2>3. ASSUME NEW w \in Writer, WriterStep(w) PROVE GenerationInv'
    BY <2>3, WriterKeepsGenerations
  <2> QED BY <2>1, <2>2, <2>3 DEF Next
<1>3. GenerationInv => ManifestGenerationsAgree
  BY DEF GenerationInv, InWindow, ManifestGenerationsAgree
<1> QED BY <1>1, <1>2, <1>3, StoreTyping, PTL DEF Spec
-----------------------------------------------------------------------------
(***************************************************************************)
(* The end-of-day collection.                                              *)
(***************************************************************************)

(* What a fetch may bring is an answer, and is never "not asked".          *)
LEMMA FetchableTyping ==
  ASSUME NEW s \in EodSource
  PROVE  /\ Fetchable(s) \subseteq Dates \cup {NoAnswer}
         /\ NoObject \notin Fetchable(s)
BY DEF Fetchable, Dates, NoAnswer, NoObject, Today, Yesterday, Older

(* The stored object of a source and the history follow what was fetched.  *)
LEMMA CommitTyping ==
  ASSUME EodTypeOK, NEW s \in EodSource, NEW answer \in Fetchable(s), Commit(s, answer)
  PROVE  /\ last_good' \in [EodSource -> Dates \cup {NoObject}]
         /\ had_today' \subseteq EodSource
         /\ answer \in Dates \cup {NoAnswer}
BY FetchableTyping DEF EodTypeOK, Commit, NoAnswer

(* Recorded attempts are ages, whichever clock reading they carry.         *)
LEMMA AttemptTyping ==
  ASSUME EodTypeOK, NEW answers \in Answers, NEW since \in 0..MaxLag,
         LastAttempt(answers, since)
  PROVE  age' \in [EodSource -> 0..Oldest]
<1>1. since \in 0..Oldest
  BY EodAssumption DEF Oldest
<1> QED
  BY <1>1 DEF EodTypeOK, LastAttempt

LEMMA EodTypeInit == EodInit => EodTypeOK
<1> SUFFICES ASSUME EodInit PROVE EodTypeOK
  OBVIOUS
<1>1. 0 \in 0..MaxLag /\ Oldest \in 0..Oldest
  BY EodAssumption DEF Oldest
<1>2. Nothing \in Answers
  BY DEF Nothing, Answers
<1> QED
  BY <1>1, <1>2 DEF EodInit, EodTypeOK, Dates

LEMMA EodTypeStep == EodTypeOK /\ [EodNext]_eodVars => EodTypeOK'
<1> SUFFICES ASSUME EodTypeOK, [EodNext]_eodVars PROVE EodTypeOK'
  OBVIOUS
<1> USE DEF EodTypeOK, store, loopVars, otherVars
<1>1. Nothing \in Answers
  BY DEF Nothing, Answers
<1>2. CASE ClockTick
  <2>1. \A n \in 0..Oldest : Older1(n) \in 0..Oldest
    BY EodAssumption DEF Older1, Oldest
  <2>2. lag' \in 0..MaxLag
    BY <1>2, EodAssumption DEF ClockTick
  <2> QED
    BY <1>2, <2>1, <2>2 DEF ClockTick
<1>3. ASSUME NEW s \in EodSource, Publish(s) PROVE EodTypeOK'
  BY <1>3 DEF Publish
<1>4. CASE CalmDown
  BY <1>4 DEF CalmDown
<1>5. CASE BeginPass
  BY <1>5, EodAssumption DEF BeginPass, EodSource
<1>6. CASE BeginReconcile
  BY <1>6 DEF BeginReconcile
<1>7. CASE ReconcileLeaseHeld
  BY <1>7 DEF ReconcileLeaseHeld
<1>8. CASE BeginEod
  BY <1>8 DEF BeginEod, DueForEod, EodSource
<1>9. CASE SkipEod
  BY <1>9, EodAssumption DEF SkipEod
<1>10. ASSUME NEW s \in EodSource, Fetch(s) PROVE EodTypeOK'
  <2>1. PICK answer \in Fetchable(s) :
          Commit(s, answer) /\ got' = [got EXCEPT ![s] = answer]
    BY <1>10 DEF Fetch
  <2>2. got' \in Answers
    BY <2>1, CommitTyping DEF Answers
  <2> QED
    BY <1>10, <2>1, <2>2, CommitTyping DEF Fetch
<1>11. CASE EndFetching
  <2>1. age' \in [EodSource -> 0..Oldest]
    BY <1>11, AttemptTyping DEF EndFetching
  <2>2. complete' \subseteq EodSource
    BY <1>11 DEF EndFetching, EodComplete
  <2> QED
    BY <1>1, <1>11, <2>1, <2>2, EodAssumption DEF EndFetching
<1>12. CASE Crash
  BY <1>1, <1>12, EodAssumption DEF Crash
<1>13. CASE LeaseExpires
  BY <1>13 DEF LeaseExpires
<1>14. CASE OtherBegins
  BY <1>14 DEF OtherBegins, DueForEod, EodSource
<1>15. ASSUME NEW s \in EodSource, OtherFetches(s) PROVE EodTypeOK'
  <2>1. PICK answer \in Fetchable(s) :
          Commit(s, answer) /\ other_got' = [other_got EXCEPT ![s] = answer]
    BY <1>15 DEF OtherFetches
  <2>2. other_got' \in Answers
    BY <2>1, CommitTyping DEF Answers
  <2> QED
    BY <1>15, <2>1, <2>2, CommitTyping DEF OtherFetches
<1>16. CASE OtherEnds
  <2>1. age' \in [EodSource -> 0..Oldest]
    BY <1>16, AttemptTyping DEF OtherEnds
  <2>2. complete' \subseteq EodSource
    BY <1>16 DEF OtherEnds, EodComplete
  <2> QED
    BY <1>1, <1>16, <2>1, <2>2 DEF OtherEnds
<1>17. CASE UNCHANGED eodVars
  BY <1>17 DEF eodVars
<1> QED
  BY <1>2, <1>3, <1>4, <1>5, <1>6, <1>7, <1>8, <1>9, <1>10, <1>11, <1>12, <1>13,
     <1>14, <1>15, <1>16, <1>17 DEF EodNext, LoopStep, OtherRun

(* Every variable of the evening collection keeps to its type.             *)
THEOREM EodTyping == EodSpec => []EodTypeOK
<1> QED
  BY EodTypeInit, EodTypeStep, PTL DEF EodSpec

-----------------------------------------------------------------------------
(* Who fetches holds the lease, what was fetched is kept until the         *)
(* attempts are recorded and no longer, and nothing is fetched twice.      *)
OneCollector ==
  /\ Fetching <=> lease = "loop"
  /\ ~Fetching => got = Nothing
  /\ \A s \in batch : got[s] = NoObject
  /\ ~shared => lease # "other"

LEMMA NothingIsUnasked == \A s \in EodSource : Nothing[s] = NoObject
BY DEF Nothing

LEMMA CollectorInit == EodInit => OneCollector
BY DEF EodInit, OneCollector, Fetching

LEMMA CollectorStep ==
  ASSUME EodTypeOK, OneCollector, [EodNext]_eodVars
  PROVE  OneCollector'
<1> USE NothingIsUnasked DEF EodTypeOK, OneCollector, Fetching, store, loopVars, otherVars
<1>1. CASE ClockTick
  BY <1>1 DEF ClockTick
<1>2. ASSUME NEW s \in EodSource, Publish(s) PROVE OneCollector'
  BY <1>2 DEF Publish
<1>3. CASE CalmDown
  BY <1>3 DEF CalmDown
<1>4. CASE BeginPass
  BY <1>4 DEF BeginPass, EodSource
<1>5. CASE BeginReconcile
  BY <1>5 DEF BeginReconcile
<1>6. CASE ReconcileLeaseHeld
  BY <1>6 DEF ReconcileLeaseHeld
<1>7. CASE BeginEod
  BY <1>7 DEF BeginEod, DueForEod, EodSource
<1>8. CASE SkipEod
  BY <1>8 DEF SkipEod
<1>9. ASSUME NEW s \in EodSource, Fetch(s) PROVE OneCollector'
  <2>1. PICK answer : got' = [got EXCEPT ![s] = answer]
    BY <1>9 DEF Fetch
  <2>2. \A x \in batch' : got'[x] = got[x]
    BY <1>9, <2>1 DEF Fetch, Answers
  <2> QED
    BY <1>9, <2>2 DEF Fetch
<1>10. CASE EndFetching
  BY <1>10 DEF EndFetching
<1>11. CASE Crash
  BY <1>11 DEF Crash
<1>12. CASE LeaseExpires
  BY <1>12 DEF LeaseExpires
<1>13. CASE OtherBegins
  BY <1>13 DEF OtherBegins
<1>14. ASSUME NEW s \in EodSource, OtherFetches(s) PROVE OneCollector'
  BY <1>14 DEF OtherFetches
<1>15. CASE OtherEnds
  BY <1>15 DEF OtherEnds
<1>16. CASE UNCHANGED eodVars
  BY <1>16 DEF eodVars
<1> QED
  BY <1>1, <1>2, <1>3, <1>4, <1>5, <1>6, <1>7, <1>8, <1>9, <1>10, <1>11, <1>12,
     <1>13, <1>14, <1>15, <1>16 DEF EodNext, LoopStep, OtherRun

-----------------------------------------------------------------------------
(* What either collector fetched is stored before the attempts are         *)
(* recorded: the object of today that a run has seen was once last-good,   *)
(* and while the loop collects alone it still is.                          *)
FetchedIsStored ==
  \A s \in EodSource :
    /\ got[s] = Today => s \in had_today /\ (shared \/ Current(s))
    /\ other_got[s] = Today => s \in had_today

(* The loop alone never fetches a source whose day is complete: nothing    *)
(* that it commits can replace the object of today.                        *)
DayInv ==
  /\ FetchedIsStored
  /\ CompleteIsStored
  /\ ~shared => batch \cap complete = {}

LEMMA DayInit == EodInit => DayInv
BY NothingIsUnasked
   DEF EodInit, DayInv, FetchedIsStored, CompleteIsStored, NoObject, Today

(* A fetch adds to what was stored, and leaves the other sources alone.    *)
LEMMA CommitStores ==
  ASSUME EodTypeOK, NEW s \in EodSource, NEW answer \in Fetchable(s), Commit(s, answer)
  PROVE  /\ had_today \subseteq had_today'
         /\ answer = Today => s \in had_today' /\ Current(s)'
         /\ \A x \in EodSource \ {s} : Current(x)' = Current(x)
<1>1. \A x \in EodSource \ {s} : last_good'[x] = last_good[x]
  BY DEF EodTypeOK, Commit
<1>2. answer = Today => answer # NoAnswer
  BY DEF Today, NoAnswer
<1> QED
  BY <1>1, <1>2 DEF EodTypeOK, Commit, Current

LEMMA FetchKeepsDay ==
  ASSUME EodTypeOK, OneCollector, DayInv, NEW s \in EodSource, Fetch(s)
  PROVE  DayInv'
<1>1. PICK answer \in Fetchable(s) :
        Commit(s, answer) /\ got' = [got EXCEPT ![s] = answer]
  BY DEF Fetch
<1>2. /\ s \in batch /\ batch' = batch \ {s}
      /\ UNCHANGED <<complete, other_got, shared>>
  BY DEF Fetch, otherVars
<1>3. got'[s] = answer /\ \A x \in EodSource \ {s} : got'[x] = got[x]
  BY <1>1 DEF EodTypeOK, Answers
<1>4. /\ had_today \subseteq had_today'
      /\ answer = Today => s \in had_today' /\ Current(s)'
      /\ \A x \in EodSource \ {s} : Current(x)' = Current(x)
  BY <1>1, CommitStores
<1>5. FetchedIsStored'
  BY <1>2, <1>3, <1>4 DEF DayInv, FetchedIsStored
<1>6. CompleteIsStored'
  <2>1. shared \/ s \notin complete
    BY <1>2 DEF DayInv
  <2> QED
    BY <1>2, <1>4, <2>1 DEF DayInv, CompleteIsStored, EodTypeOK
<1> QED
  BY <1>2, <1>5, <1>6 DEF DayInv

LEMMA OtherFetchKeepsDay ==
  ASSUME EodTypeOK, OneCollector, DayInv, NEW s \in EodSource, OtherFetches(s)
  PROVE  DayInv'
<1>1. PICK answer \in Fetchable(s) :
        Commit(s, answer) /\ other_got' = [other_got EXCEPT ![s] = answer]
  BY DEF OtherFetches
<1>2. shared /\ UNCHANGED <<got, batch, complete, shared>>
  BY DEF OtherFetches, OneCollector, loopVars
<1>3. other_got'[s] = answer /\ \A x \in EodSource \ {s} : other_got'[x] = other_got[x]
  BY <1>1 DEF EodTypeOK, Answers
<1>4. /\ had_today \subseteq had_today'
      /\ answer = Today => s \in had_today'
  BY <1>1, CommitStores
<1> QED
  BY <1>2, <1>3, <1>4 DEF DayInv, FetchedIsStored, CompleteIsStored

LEMMA DayStep ==
  ASSUME EodTypeOK, OneCollector, DayInv, [EodNext]_eodVars
  PROVE  DayInv'
<1> USE NothingIsUnasked
    DEF EodTypeOK, OneCollector, DayInv, FetchedIsStored, CompleteIsStored, Current,
        Fetching, store, loopVars, otherVars
<1> NoObject # Today
  BY DEF NoObject, Today
<1>1. CASE ClockTick
  BY <1>1 DEF ClockTick
<1>2. ASSUME NEW s \in EodSource, Publish(s) PROVE DayInv'
  BY <1>2 DEF Publish
<1>3. CASE CalmDown
  BY <1>3 DEF CalmDown
<1>4. CASE BeginPass
  BY <1>4 DEF BeginPass
<1>5. CASE BeginReconcile
  BY <1>5 DEF BeginReconcile
<1>6. CASE ReconcileLeaseHeld
  BY <1>6 DEF ReconcileLeaseHeld
<1>7. CASE BeginEod
  BY <1>7 DEF BeginEod, DueForEod
<1>8. CASE SkipEod
  BY <1>8 DEF SkipEod
<1>9. ASSUME NEW s \in EodSource, Fetch(s) PROVE DayInv'
  BY <1>9, FetchKeepsDay
<1>10. CASE EndFetching
  BY <1>10 DEF EndFetching, EodComplete
<1>11. CASE Crash
  BY <1>11 DEF Crash
<1>12. CASE LeaseExpires
  BY <1>12 DEF LeaseExpires
<1>13. CASE OtherBegins
  BY <1>13 DEF OtherBegins
<1>14. ASSUME NEW s \in EodSource, OtherFetches(s) PROVE DayInv'
  BY <1>14, OtherFetchKeepsDay
<1>15. CASE OtherEnds
  BY <1>15 DEF OtherEnds, EodComplete
<1>16. CASE UNCHANGED eodVars
  BY <1>16 DEF eodVars
<1> QED
  BY <1>1, <1>2, <1>3, <1>4, <1>5, <1>6, <1>7, <1>8, <1>9, <1>10, <1>11, <1>12,
     <1>13, <1>14, <1>15, <1>16 DEF EodNext, LoopStep, OtherRun

(* The mark of a completed day stands for an object that was stored, and   *)
(* while the loop collects alone for its last good: for any set of         *)
(* sources, any retry interval and any duration of a pass.                 *)
THEOREM CompletionMeansStored == EodSpec => []CompleteIsStored
<1>1. EodInit => EodTypeOK /\ OneCollector /\ DayInv
  BY EodTypeInit, CollectorInit, DayInit
<1>2. EodTypeOK /\ OneCollector /\ DayInv /\ [EodNext]_eodVars
        => (EodTypeOK /\ OneCollector /\ DayInv)'
  BY EodTypeStep, CollectorStep, DayStep
<1>3. DayInv => CompleteIsStored
  BY DEF DayInv
<1> QED
  BY <1>1, <1>2, <1>3, PTL DEF EodSpec

(* While the loop collects alone, a source whose day is complete is not    *)
(* asked for again that day.                                               *)
CompletedIsLeftAlone == ~shared => batch \cap complete = {}

(* No pass of a loop that collects alone is about to ask for a source      *)
(* whose day is complete, so that nothing can replace the object of the    *)
(* day: both ways into a pass leave completed sources out, and the mark    *)
(* comes only after the pass has ended its fetches.                        *)
THEOREM CompletedIsNotAskedAgain == EodSpec => []CompletedIsLeftAlone
<1>1. EodInit => EodTypeOK /\ OneCollector /\ DayInv
  BY EodTypeInit, CollectorInit, DayInit
<1>2. EodTypeOK /\ OneCollector /\ DayInv /\ [EodNext]_eodVars
        => (EodTypeOK /\ OneCollector /\ DayInv)'
  BY EodTypeStep, CollectorStep, DayStep
<1>3. DayInv => CompletedIsLeftAlone
  BY DEF DayInv, CompletedIsLeftAlone
<1> QED
  BY <1>1, <1>2, <1>3, PTL DEF EodSpec

-----------------------------------------------------------------------------
(* While the loop collects alone, what the reconciliation of a pass asked  *)
(* for is cooling down by the time run_eod chooses its sources: the        *)
(* attempt carries the instant the pass began, and no source grows older   *)
(* than the pass does.                                                     *)
AskedIsCooling ==
  ~shared =>
    /\ loop \in {"sleeping", "decided"} => asked = {}
    /\ loop = "reconciling" => \A s \in asked : got[s] # NoObject
    /\ loop = "reconciled" => \A s \in asked : age[s] <= lag
    /\ batch \cap asked = {}

(* A source that is no older than the pass is not due.                     *)
LEMMA YoungIsNotDue ==
  ASSUME EodTypeOK, NEW s \in EodSource, age[s] <= lag
  PROVE  s \notin DueForEod(lag)
<1>1. age[s] \in Int /\ lag \in Int /\ Retry \in Int /\ Retry > 0
  BY EodAssumption DEF EodTypeOK, Oldest
<1>2. age[s] - lag < Retry
  BY <1>1
<1> QED
  BY <1>2 DEF DueForEod, CoolingDown

LEMMA AskedStep ==
  ASSUME EodTypeOK, OneCollector, AskedIsCooling, [EodNext]_eodVars
  PROVE  AskedIsCooling'
<1> SUFFICES ASSUME ~shared, ~shared' PROVE AskedIsCooling'
  <2>1. shared => shared'
    BY DEF EodNext, LoopStep, OtherRun, eodVars, otherVars, ClockTick, Publish, CalmDown,
           BeginPass, BeginReconcile, ReconcileLeaseHeld, BeginEod, SkipEod, Fetch,
           EndFetching, Crash, LeaseExpires, OtherBegins, OtherFetches, OtherEnds
  <2> QED
    BY <2>1 DEF AskedIsCooling
<1> USE NothingIsUnasked
    DEF EodTypeOK, OneCollector, AskedIsCooling, Fetching, store, loopVars, otherVars
<1>1. CASE ClockTick
  <2>1. \A s \in EodSource : age'[s] <= age[s] + 1
    BY <1>1, EodAssumption DEF ClockTick, Older1, Oldest
  <2>2. loop = "reconciled" => lag' = lag + 1
    BY <1>1 DEF ClockTick
  <2>3. loop = "reconciled" => \A s \in asked : age'[s] <= lag'
    <3> SUFFICES ASSUME loop = "reconciled", NEW s \in asked PROVE age'[s] <= lag'
      OBVIOUS
    <3>1. age[s] <= lag /\ age'[s] <= age[s] + 1 /\ lag' = lag + 1
      BY <2>1, <2>2
    <3>2. age[s] \in 0..Oldest /\ age'[s] \in 0..Oldest /\ lag \in 0..MaxLag
      BY EodTypeStep
    <3> QED
      BY <3>1, <3>2, EodAssumption DEF Oldest
  <2> QED
    BY <1>1, <2>3 DEF ClockTick
<1>2. ASSUME NEW s \in EodSource, Publish(s) PROVE AskedIsCooling'
  BY <1>2 DEF Publish
<1>3. CASE CalmDown
  BY <1>3 DEF CalmDown
<1>4. CASE BeginPass
  BY <1>4 DEF BeginPass
<1>5. CASE BeginReconcile
  BY <1>5 DEF BeginReconcile
<1>6. CASE ReconcileLeaseHeld
  BY <1>6 DEF ReconcileLeaseHeld
<1>7. CASE BeginEod
  <2>1. \A s \in asked : s \notin DueForEod(lag)
    BY <1>7, YoungIsNotDue DEF BeginEod
  <2> QED
    BY <1>7, <2>1 DEF BeginEod
<1>8. CASE SkipEod
  BY <1>8 DEF SkipEod
<1>9. ASSUME NEW s \in EodSource, Fetch(s) PROVE AskedIsCooling'
  <2>1. PICK answer \in Fetchable(s) : got' = [got EXCEPT ![s] = answer]
    BY <1>9 DEF Fetch
  <2>2. got'[s] # NoObject /\ \A x \in EodSource \ {s} : got'[x] = got[x]
    BY <2>1, FetchableTyping DEF Answers
  <2> QED
    BY <1>9, <2>2 DEF Fetch
<1>10. CASE EndFetching
  <2>1. CASE loop = "reconciling"
    <3>1. \A s \in asked : age'[s] = lag
      BY <1>10, <2>1 DEF EndFetching, LastAttempt
    <3>2. lag <= lag
      BY EodAssumption
    <3> QED
      BY <1>10, <2>1, <3>1, <3>2 DEF EndFetching
  <2>2. CASE loop # "reconciling"
    BY <1>10, <2>2 DEF EndFetching
  <2> QED
    BY <2>1, <2>2
<1>11. CASE Crash
  BY <1>11 DEF Crash
<1>12. CASE LeaseExpires
  BY <1>12 DEF LeaseExpires
<1>13. CASE OtherBegins
  BY <1>13 DEF OtherBegins
<1>14. ASSUME NEW s \in EodSource, OtherFetches(s) PROVE AskedIsCooling'
  BY <1>14 DEF OtherFetches
<1>15. CASE OtherEnds
  BY <1>15 DEF OtherEnds
<1>16. CASE UNCHANGED eodVars
  BY <1>16 DEF eodVars
<1> QED
  BY <1>1, <1>2, <1>3, <1>4, <1>5, <1>6, <1>7, <1>8, <1>9, <1>10, <1>11, <1>12,
     <1>13, <1>14, <1>15, <1>16 DEF EodNext, LoopStep, OtherRun

(* While the loop collects alone one pass asks the publisher for a source  *)
(* once, whatever the answers are and however long the pass takes.         *)
THEOREM OneQuestionPerPass == EodSpec => []AskedOncePerPass
<1>1. EodInit => EodTypeOK /\ OneCollector /\ AskedIsCooling
  BY EodTypeInit, CollectorInit DEF EodInit, AskedIsCooling
<1>2. EodTypeOK /\ OneCollector /\ AskedIsCooling /\ [EodNext]_eodVars
        => (EodTypeOK /\ OneCollector /\ AskedIsCooling)'
  BY EodTypeStep, CollectorStep, AskedStep
<1>3. AskedIsCooling => AskedOncePerPass
  BY DEF AskedIsCooling, AskedOncePerPass
<1> QED
  BY <1>1, <1>2, <1>3, PTL DEF EodSpec
=============================================================================
