-------------------------- MODULE MarketDataStore --------------------------
(***************************************************************************)
(* The content-addressed market-data store (market_data_store.py): object  *)
(* files on disk, their rows in SQLite, the attempt log, the last-good     *)
(* pointers, the manifests and the retention sweep of the CLI command      *)
(* cleanup.  Files and rows live in two systems without a common           *)
(* transaction, so every step between two commits is an action of its own  *)
(* and any process may die between two of them.                            *)
(*                                                                         *)
(* Writers are collector processes.  Inside one process persisting is      *)
(* synchronous, so one writer persists one object or one manifest at a     *)
(* time.  Retention takes no lease: whether the operator keeps it apart    *)
(* from the collectors is the constant RetentionExclusive.                 *)
(*                                                                         *)
(* A content stands for its SHA-256; a day for a (trading_date, slot)      *)
(* manifest path; SUCCESS_NEW and SUCCESS_UNCHANGED are one success.  The  *)
(* manifests of blocked runs have a path of their own each and name no     *)
(* object, the rows record_attempt writes for failed attempts name none    *)
(* either: both are left out.                                              *)
(***************************************************************************)
EXTENDS Naturals, FiniteSets

CONSTANTS
  Source,             \* source keys of the registry
  Content,            \* normalized payloads, identified by their hash
  Writer,             \* collector processes that share the store
  NoContent,          \* SQL NULL in a content_hash column
  NoManifest,         \* no manifest.json, no manifest row
  MaxDay,             \* bound: the last trading day of a behaviour
  DetailedDays,       \* detailed_trading_days, 5 in the code
  CompletedDays,      \* completed days the CLI hands over, at most 10
  RetentionExclusive, \* no collector runs while retention does
  Crashes             \* processes may die between two steps

Day == 1 .. MaxDay
Reference == Content \cup {NoContent}
Manifest == [Source -> Reference]

ASSUME StoreAssumption ==
  /\ Source # {}
  /\ Content # {}
  /\ NoContent \notin Content
  /\ NoManifest \notin Manifest
  /\ MaxDay \in Nat \ {0}
  /\ DetailedDays \in Nat
  /\ CompletedDays \in Nat
  /\ RetentionExclusive \in BOOLEAN
  /\ Crashes \in BOOLEAN

VARIABLES
  today,         \* the current trading day
  files,         \* contents whose object file exists
  objects,       \* rows of market_data_objects
  attempts,      \* contents that rows of market_data_attempts reference
  latest,        \* market_data_latest: the last-good content of a source
  manifests,     \* newest market_data_manifests row of a day, with its objects
  superseded,    \* contents the rows of earlier runs of that day still name
  manifestFile,  \* manifest.json of a day
  torn,          \* history: days where a crash hit between file and row
  wpc, wjob, wman,  \* per writer: location, object job, manifest job
  rpc, expired, kept, eligible, target  \* the retention sweep

writerVars == <<wpc, wjob, wman>>
retentionVars == <<rpc, expired, kept, eligible, target>>
tableVars == <<objects, attempts, latest, manifests, superseded>>
fileVars == <<files, manifestFile, torn>>
vars == <<today, tableVars, fileVars, writerVars, retentionVars>>

WriterLocation ==
  {"idle", "lookup", "writing", "registering", "installed",
   "manifest_file", "manifest_row"}
RetentionLocation ==
  {"idle", "latest_read", "references_read", "planned", "days_deleted",
   "sweeping", "unlinked"}
Job == [source : Source, content : Content]
ManifestJob == [day : Day, entries : Manifest, previous : Manifest \cup {NoManifest}]

(* Values of local variables no call is using.                             *)
NoJob == CHOOSE j \in Job : TRUE
NoManifestJob == CHOOSE m \in ManifestJob : TRUE
NoTarget == CHOOSE c \in Content : TRUE

(* Contents that rows of market_data_manifest_objects name for the days D. *)
NewestNames(d) ==
  {c \in Content : manifests[d] # NoManifest /\ \E s \in Source : manifests[d][s] = c}
ManifestReferences(D) ==
  {c \in Content : \E d \in D : c \in NewestNames(d) \cup superseded[d]}

LatestReferences == {c \in Content : \E s \in Source : latest[s] = c}

TypeOK ==
  /\ today \in Day
  /\ files \subseteq Content
  /\ objects \subseteq Content
  /\ attempts \subseteq Content
  /\ latest \in [Source -> Reference]
  /\ manifests \in [Day -> Manifest \cup {NoManifest}]
  /\ superseded \in [Day -> SUBSET Content]
  /\ manifestFile \in [Day -> Manifest \cup {NoManifest}]
  /\ torn \subseteq Day
  /\ wpc \in [Writer -> WriterLocation]
  /\ wjob \in [Writer -> Job]
  /\ wman \in [Writer -> ManifestJob]
  /\ rpc \in RetentionLocation
  /\ expired \subseteq Day
  /\ kept \subseteq Content
  /\ eligible \subseteq Content
  /\ target \in Content

Init ==
  /\ today = 1
  /\ files = {} /\ objects = {} /\ attempts = {}
  /\ latest = [s \in Source |-> NoContent]
  /\ manifests = [d \in Day |-> NoManifest]
  /\ superseded = [d \in Day |-> {}]
  /\ manifestFile = [d \in Day |-> NoManifest]
  /\ torn = {}
  /\ wpc = [w \in Writer |-> "idle"]
  /\ wjob = [w \in Writer |-> NoJob]
  /\ wman = [w \in Writer |-> NoManifestJob]
  /\ rpc = "idle"
  /\ expired = {} /\ kept = {} /\ eligible = {}
  /\ target = NoTarget

NextDay ==
  /\ today < MaxDay
  /\ today' = today + 1
  /\ UNCHANGED <<tableVars, fileVars, writerVars, retentionVars>>
-----------------------------------------------------------------------------
(* A collector may start to persist.                                       *)
MayWrite(w) == wpc[w] = "idle" /\ (RetentionExclusive => rpc = "idle")

Goto(w, location) == wpc' = [wpc EXCEPT ![w] = location]

(* The call returns or raises and its local variables are gone.            *)
Return(w) ==
  /\ Goto(w, "idle")
  /\ wjob' = [wjob EXCEPT ![w] = NoJob]
  /\ wman' = [wman EXCEPT ![w] = NoManifestJob]

(* _persist of a SUCCESS_NEW result: commit_success is entered.            *)
BeginCommit(w, s, c) ==
  /\ MayWrite(w)
  /\ Goto(w, "lookup")
  /\ wjob' = [wjob EXCEPT ![w] = [source |-> s, content |-> c]]
  /\ UNCHANGED <<today, tableVars, fileVars, wman, retentionVars>>

(* install_object looks its hash up.  A row whose file is gone raises      *)
(* RuntimeError, which ends the collector run.                             *)
install_object(w) ==
  /\ wpc[w] = "lookup"
  /\ LET c == wjob[w].content IN
       \/ c \notin objects /\ Goto(w, "writing") /\ UNCHANGED <<wjob, wman>>
       \/ c \in objects /\ c \in files /\ Goto(w, "installed") /\ UNCHANGED <<wjob, wman>>
       \/ c \in objects /\ c \notin files /\ Return(w)
  /\ UNCHANGED <<today, tableVars, fileVars, retentionVars>>

(* _atomic_write: temporary file, fsync, os.replace.                       *)
WriteObjectFile(w) ==
  /\ wpc[w] = "writing"
  /\ files' = files \cup {wjob[w].content}
  /\ Goto(w, "registering")
  /\ UNCHANGED <<today, tableVars, manifestFile, torn, wjob, wman, retentionVars>>

(* INSERT OR IGNORE INTO market_data_objects.                              *)
RegisterObject(w) ==
  /\ wpc[w] = "registering"
  /\ objects' = objects \cup {wjob[w].content}
  /\ Goto(w, "installed")
  /\ UNCHANGED <<today, attempts, latest, manifests, superseded, fileVars, wjob, wman,
                 retentionVars>>

(* A plausible bug: the positional parameters of the upsert are swapped.   *)
commit_success_SwappedColumns(w) ==
  /\ wpc[w] = "installed"
  /\ attempts' = attempts \cup {wjob[w].content}
  /\ latest' = [latest EXCEPT ![wjob[w].source] = wjob[w].source]
  /\ Return(w)
  /\ UNCHANGED <<today, objects, manifests, superseded, fileVars, retentionVars>>

(* The transaction of commit_success: one attempt row and the last-good    *)
(* pointer.  Its foreign keys need the object row; without it the insert   *)
(* raises IntegrityError and the run ends.                                 *)
commit_success(w) ==
  /\ wpc[w] = "installed"
  /\ LET j == wjob[w] IN
       \/ /\ j.content \in objects
          /\ attempts' = attempts \cup {j.content}
          /\ latest' = [latest EXCEPT ![j.source] = j.content]
       \/ /\ j.content \notin objects
          /\ UNCHANGED <<attempts, latest>>
  /\ Return(w)
  /\ UNCHANGED <<today, objects, manifests, superseded, fileVars, retentionVars>>

(* _write_manifest reads every last-good pointer.  An entry names the      *)
(* last-good content (success, cached or stale last-good) or, for the      *)
(* other statuses, no content.                                             *)
BeginManifest(w, entries) ==
  /\ MayWrite(w)
  /\ \A s \in Source : entries[s] \in {latest[s], NoContent}
  /\ Goto(w, "manifest_file")
  /\ wman' = [wman EXCEPT ![w] =
       [day |-> today, entries |-> entries, previous |-> NoManifest]]
  /\ UNCHANGED <<today, tableVars, fileVars, wjob, retentionVars>>

(* write_manifest keeps the previous payload and replaces the file.        *)
WriteManifestFile(w) ==
  /\ wpc[w] = "manifest_file"
  /\ LET m == wman[w] IN
       /\ wman' = [wman EXCEPT ![w] =
            [day |-> m.day, entries |-> m.entries, previous |-> manifestFile[m.day]]]
       /\ manifestFile' = [manifestFile EXCEPT ![m.day] = m.entries]
  /\ Goto(w, "manifest_row")
  /\ UNCHANGED <<today, tableVars, files, torn, wjob, retentionVars>>

(* The manifest transaction: upsert the row of its run_id and rewrite its  *)
(* object references (each must be a known object).  A snapshot has the    *)
(* run_id of its slot and replaces the row of an earlier run; the other    *)
(* passes draw a fresh run_id, so the rows of earlier runs stay.           *)
CommitManifest(w) ==
  /\ wpc[w] = "manifest_row"
  /\ LET m == wman[w] IN
       /\ \A s \in Source : m.entries[s] \in objects \cup {NoContent}
       /\ manifests' = [manifests EXCEPT ![m.day] = m.entries]
       /\ \E names \in {{}, NewestNames(m.day)} :
            superseded' = [superseded EXCEPT ![m.day] = @ \cup names]
       /\ torn' = torn \ {m.day}
  /\ Return(w)
  /\ UNCHANGED <<today, objects, attempts, latest, files, manifestFile, retentionVars>>

(* A plausible bug: the except branch re-raises without restoring.         *)
RestoreManifest_Forgotten(w) ==
  /\ wpc[w] = "manifest_row"
  /\ Return(w)
  /\ UNCHANGED <<today, tableVars, files, torn, manifestFile, retentionVars>>

(* The transaction failed (unknown object, locked database): the except    *)
(* branch puts the previous payload back, or removes the file.             *)
RestoreManifest(w) ==
  /\ wpc[w] = "manifest_row"
  /\ manifestFile' = [manifestFile EXCEPT ![wman[w].day] = wman[w].previous]
  /\ Return(w)
  /\ UNCHANGED <<today, tableVars, files, torn, retentionVars>>

(* A collector process dies between two of its steps.                      *)
CrashWriter(w) ==
  /\ Crashes
  /\ wpc[w] # "idle"
  /\ torn' = IF wpc[w] = "manifest_row" THEN torn \cup {wman[w].day} ELSE torn
  /\ Return(w)
  /\ UNCHANGED <<today, tableVars, files, manifestFile, retentionVars>>
-----------------------------------------------------------------------------
(* The expired days: of the completed days the CLI collects before today,  *)
(* all but the last detailed_trading_days.                                 *)
ExpiredDays ==
  {d \in Day : d + CompletedDays >= today /\ d + DetailedDays < today}

(* cleanup_retention returns or raises.                                    *)
ReturnRetention ==
  /\ rpc' = "idle"
  /\ expired' = {} /\ kept' = {} /\ eligible' = {}
  /\ target' = NoTarget

(* A plausible bug: the last-good pointers do not protect their objects.   *)
cleanup_retention_ForgetsLatest ==
  /\ rpc = "idle"
  /\ RetentionExclusive => \A w \in Writer : wpc[w] = "idle"
  /\ expired' = ExpiredDays
  /\ kept' = {}
  /\ rpc' = "latest_read"
  /\ UNCHANGED <<today, tableVars, fileVars, writerVars, eligible, target>>

(* cleanup_retention is called and reads the last-good hashes ...          *)
cleanup_retention ==
  /\ rpc = "idle"
  /\ RetentionExclusive => \A w \in Writer : wpc[w] = "idle"
  /\ expired' = ExpiredDays
  /\ kept' = LatestReferences
  /\ rpc' = "latest_read"
  /\ UNCHANGED <<today, tableVars, fileVars, writerVars, eligible, target>>

(* A plausible bug: only the last-good pointers protect an object.         *)
ReadManifestReferences_Skipped ==
  /\ rpc = "latest_read"
  /\ rpc' = "references_read"
  /\ UNCHANGED <<today, tableVars, fileVars, writerVars, expired, kept, eligible, target>>

(* ... then the hashes of every manifest that is not expired ...           *)
ReadManifestReferences ==
  /\ rpc = "latest_read"
  /\ kept' = kept \cup ManifestReferences(Day \ expired)
  /\ rpc' = "references_read"
  /\ UNCHANGED <<today, tableVars, fileVars, writerVars, expired, eligible, target>>

(* ... then the object table: what nothing keeps is eligible.              *)
PlanSweep ==
  /\ rpc = "references_read"
  /\ eligible' = objects \ kept
  /\ rpc' = "planned"
  /\ UNCHANGED <<today, tableVars, fileVars, writerVars, expired, kept, target>>

(* dry_run, the default: the report is all there is.                       *)
DryRun ==
  /\ rpc = "planned"
  /\ ReturnRetention
  /\ UNCHANGED <<today, tableVars, fileVars, writerVars>>

(* The directories of the expired days are removed.                        *)
DeleteDays ==
  /\ rpc = "planned"
  /\ manifestFile' = [d \in Day |-> IF d \in expired THEN NoManifest ELSE manifestFile[d]]
  /\ rpc' = "days_deleted"
  /\ UNCHANGED <<today, tableVars, files, torn, writerVars, expired, kept, eligible, target>>

(* DELETE FROM market_data_manifests; the references cascade.              *)
DeleteManifestRows ==
  /\ rpc = "days_deleted"
  /\ manifests' = [d \in Day |-> IF d \in expired THEN NoManifest ELSE manifests[d]]
  /\ superseded' = [d \in Day |-> IF d \in expired THEN {} ELSE superseded[d]]
  /\ torn' = torn \ expired
  /\ rpc' = "sweeping"
  /\ UNCHANGED <<today, objects, attempts, latest, files, manifestFile, writerVars,
                 expired, kept, eligible, target>>

(* The next eligible object loses its file ...                             *)
UnlinkObject ==
  /\ rpc = "sweeping"
  /\ \E c \in eligible :
       /\ target' = c
       /\ eligible' = eligible \ {c}
       /\ files' = files \ {c}
  /\ rpc' = "unlinked"
  /\ UNCHANGED <<today, tableVars, manifestFile, torn, writerVars, expired, kept>>

(* Rows that reference an object of market_data_objects.                   *)
Referenced(c) == c \in attempts \/ c \in LatestReferences \/ c \in ManifestReferences(Day)

(* ... and then its row, unless a row still references it: with            *)
(* PRAGMA foreign_keys = ON the DELETE raises IntegrityError and ends the  *)
(* sweep.                                                                  *)
DeleteObjectRow ==
  /\ rpc = "unlinked"
  /\ \/ /\ ~Referenced(target)
        /\ objects' = objects \ {target}
        /\ rpc' = "sweeping"
        /\ UNCHANGED <<expired, kept, eligible, target>>
     \/ /\ Referenced(target)
        /\ ReturnRetention
        /\ UNCHANGED objects
  /\ UNCHANGED <<today, attempts, latest, manifests, superseded, fileVars, writerVars>>

SweepDone ==
  /\ rpc = "sweeping"
  /\ eligible = {}
  /\ ReturnRetention
  /\ UNCHANGED <<today, tableVars, fileVars, writerVars>>

(* The CLI process dies between two steps of the sweep.                    *)
CrashRetention ==
  /\ Crashes
  /\ rpc # "idle"
  /\ torn' = IF rpc = "days_deleted" THEN torn \cup expired ELSE torn
  /\ ReturnRetention
  /\ UNCHANGED <<today, tableVars, files, manifestFile, writerVars>>
-----------------------------------------------------------------------------
WriterStep(w) ==
  \/ \E s \in Source, c \in Content : BeginCommit(w, s, c)
  \/ install_object(w) \/ WriteObjectFile(w) \/ RegisterObject(w) \/ commit_success(w)
  \/ \E entries \in Manifest : BeginManifest(w, entries)
  \/ WriteManifestFile(w) \/ CommitManifest(w) \/ RestoreManifest(w)
  \/ CrashWriter(w)

RetentionStep ==
  \/ cleanup_retention \/ ReadManifestReferences \/ PlanSweep \/ DryRun
  \/ DeleteDays \/ DeleteManifestRows \/ UnlinkObject \/ DeleteObjectRow
  \/ SweepDone \/ CrashRetention

Next == NextDay \/ RetentionStep \/ \E w \in Writer : WriterStep(w)

Spec == Init /\ [][Next]_vars
-----------------------------------------------------------------------------
(* Whatever retention, collectors and crashes do in whatever order, each   *)
(* reference of the attempt log, the last-good pointers and the manifests  *)
(* has its row in market_data_objects.                                     *)
ReferencesHaveRows ==
  attempts \cup LatestReferences \cup ManifestReferences(Day) \subseteq objects

(* The last-good content of every source can be read from disk             *)
(* (test_retention_never_deletes_current_day_or_last_good_object).         *)
LastGoodReadable == LatestReferences \subseteq files

(* So can every content a manifest row names: retention drops the rows of  *)
(* the expired days before it unlinks what only they referenced.           *)
ManifestContentsReadable == ManifestReferences(Day) \subseteq files

(* "Keep the filesystem and SQLite view on the same committed              *)
(* generation": outside the window between file and row, and unless a      *)
(* crash hit that window, the manifest on disk is the newest in SQLite.    *)
ManifestGenerationsAgree ==
  \A d \in Day \ torn :
    \/ manifestFile[d] = manifests[d]
    \/ \E w \in Writer : wpc[w] = "manifest_row" /\ wman[w].day = d
    \/ rpc = "days_deleted" /\ d \in expired
=============================================================================
