# TrendForge: formal models

TrendForge (`src/`) collects official Indian market data on a schedule, stores
it content-addressed, and builds a chain of research stages on it. The Python
code under `src/backend/trendforge_api` is the reference of everything here;
paths below are relative to it unless they start with `src/`.

The models are about **control**: who may collect, what is committed in which
order, what survives a crash, which late answer is refused, what must happen
eventually. Payloads, parsers, prices and scores are left out or stand as model
values.

1. [The system](#1-the-system): inventory of the components
2. [The modules](#2-the-modules) and how they correspond to the code
3. [The runs](#3-the-runs), their bounds, and fairness
4. [The proofs](#4-the-proofs)
5. [What the models showed](#5-what-the-models-showed)
6. [Not modelled, and why](#6-not-modelled-and-why)
7. [The plan](#7-the-plan)

To check a module: `tlc -config MCManualRefresh.cfg MCManualRefresh`; to check
the proofs of one: `tlapm ManualRefresh_proofs.tla`.

## 1. The system

### How the parts interact

One SQLite database and one object directory are shared by every process: the
API server (`main.py`) and the commands of `cli.py`. Within the API server run

* the **foreground loop** (an asyncio task, when `MARKET_DATA_69_AUTOSTART=1`):
  every 15 s it calls `reconcile_research_session`, `tick` and, in the evening,
  `run_eod`;
* the **manual refresh** (`ManualRefreshCoordinator`, an asyncio task of its
  own): `run_all`;
* the **scanner scheduler** (threads), the **live panels** (a task and its
  cache), the request handlers (a thread pool).

Every collection takes the **collector lease**, a row of
`market_data_scheduler_leases`; under it the **collection service** fetches
concurrently and writes to the **store**; then the **cash post-commit bridge**
decides in a worker thread whether the research stages run again. The
**OpenAlgo stream manager** is fed by callbacks of a websocket transport and is
not connected to the rest. The last of the research stages is the **R16
replay**, which the CLI also starts by itself; it takes a worker lease of its
own, 900 seconds long. The **live panels** show the newest manifest, or fetch
their sources themselves when no canonical provider is configured.

    foreground loop --+                                 +-> object files
    manual refresh  --+-> lease -> service -> store ----+-> SQLite rows
    CLI commands    --+              |                  +-> manifests
                                     v                        ^
                              cash bridge                     |
                       (state file, R1..R16)       retention (CLI, no lease)

### The components

| component | state it keeps | operations | what is hard | what makes it correct |
|---|---|---|---|---|
| collector lease | one row: owner, expiry | `acquire_lease`, `release_lease` | processes die holding it; instants handed in are old; nothing renews it | two unexpired holders never collect at once; no late release removes another's row |
| store | object files, four tables, manifest files | `commit_success`, `write_manifest`, `cleanup_retention` | files and rows have no common transaction; crashes between; retention takes no lease | what is referenced has a row and a file; file and row of a manifest are one generation |
| collection service | circuit breaker, semaphores, in-flight coroutines | `run_sources`, `_fetch_limited`, `_persist` | interleaving at awaits, raising siblings, stale circuit answers | no source lost, no partial fan-out counted a success, no run stuck |
| foreground loop, slots | rows of `market_data_scheduler_runs` | `start_foreground`, `tick`, `run_snapshot` | slow passes, refused leases, restarts | each checkpoint is settled exactly once, as missed only after its grace window |
| end-of-day collection | `last_attempt_at`, `eod_complete_date`, last-good | `reconcile_research_session`, `run_eod`, `run_all` | publication at an unknown time, older dated files, two decision points, crash between commit and mark | a completed day had today's object; no double polling; what is published is collected |
| cash post-commit bridge | `cash-pipeline.json`, stage outputs | `process`, `run_existing_cash_pipeline` | two dispatchers and one unlocked file; R3 recovery from shared tables; crash between stages | a skip hides nothing; a published run is one lineage; an unrelated dispatch loses nothing |
| OpenAlgo stream manager | session, subscriptions, queue, last timestamps, blockers | `begin_connect` ... `stop` | late, duplicated, reordered frames; callbacks after stop; full queue | provider time advances; a gap is never forgotten; a stop is final |
| scanner scheduler | `running`, stop event, two locks, config row, run rows | `start`, `stop`, `restore`, `run_once`, `_loop` | a start right after a stop; raising store; process end | status is true; the schedule survives; a stop ends every thread |
| manual refresh coordinator | one task, a status dictionary, the rows of `market_data_manifests` | `start`, `_execute`, `status` | other runs, restarts, manifests stamped in one order and committed in another | the status is true of the newest refresh; what it published is shown |
| live panels | snapshot, failure counts, quarantines, breaker, lock | `get_snapshot`, the loop | calls that wait while a cycle opens the breaker; failing saves | an open breaker stops fetches; the panels come back with the publisher |
| source monitor scheduler | thread, event, lock, last summary | `start`, `stop`, `run_once` | `join` gives up after 2 s | one loop at a time |
| R16 point-in-time store and service | data sets, frozen hypotheses, append-only labels, metrics, a worker lease | `run_incremental` | crashes between dates, overlapping workers, late bars, rejected payloads | a verdict stays; COMPLETE leaves nothing behind; a replay may be repeated |
| selection resolver, S6 to S8 | one persisted run | resolution, gates, transitions | many input combinations | fail-closed, monotone in missing evidence |
| harmonic lifecycles | append-only events per pattern key, one alert per event | `evaluate_harmonic_lifecycle`, `track_detected_harmonic`, the evaluate route | revised bars, a crash between the events and their alerts, the route beside a scan | later bars extend a history; a contradicted history is reported |
| OpenAlgo shadow and replay | none of its own | comparison, replay | -- | determinism |
| guidance, tradability | none | decision tables | -- | a block is never lost |
| scanners, pipe language, hybrid laboratory, options intelligence, engines, parsers, adapters, calendar | none, or caches | numeric or textual functions | -- | their unit tests |
| API routes, relational storage, frontend | tables, one transaction per call | -- | -- | -- |

The hazards of the code, each at its line with the properties that cover it,
are the list `hazards` of `PROJECT.json`.

## 2. The modules

A module has an instance `MC<name>` for TLC (`CollectorLease` is checked inside
`ManualRefresh`, the abstract `SlotLedger` and `LabelLedger` by their refinements) and a
proof module: `<name>_proofs`, or one it shares with a module it works beside.
`Collection_proofs` is about `MarketDataStore` and the `EodCollection` that
fills it, `BackgroundLoops_proofs` about `SnapshotSlots` and `LivePanels`, the
two loops of the API server; `ManualRefresh_proofs` also holds the theorems
about `CollectorLease`. Modules that share one name their formulas apart
(`EodSpec`, `EodTypeOK`, `PanelSpec`, `PanelTypeOK`). Operators keep the names of
the Python functions they translate. Definitions called `Name_Variant` are
plausible bugs: substituting one for `Name` must break the property it belongs
to, which shows that the property is about the code. They are not used
otherwise.

**CollectorLease** (`market_data_scheduler.py` 190-289 and the try/finally of
the five collector runs). `lease` is the row, `pc` where each run is, `instant`
the `at` its caller read earlier: `Enter` reads the clock and `acquire_lease`
may come any time later, because the callers await other work in between. The
expiry is `at + ttl`, as in the code. `release_lease` is the finally clause;
`Crash` is the death of the process, without it.

**ManualRefresh** (`ManualRefreshCoordinator`, `_latest_manifest` of
`market_data_alignment.py`) extends `CollectorLease`: a refresh is one of its
runs, whose `StartRefresh` is an accepted `start` and whose `Settle` is the end
of `_execute`. The other runs are those of the loop and of the CLI. Each run
that collected writes a manifest under the instant it began with
(`WriteManifest`); a missed checkpoint writes one without a lease
(`WriteAudit`). `Restart` ends the API server with its refresh. A status that
is read at any moment is `state`.

**MarketDataStore** (`market_data_store.py`). A content stands for its SHA-256.
`commit_success` is five steps (hash lookup, file, row, transaction, with the
foreign key that may refuse it); `write_manifest` is file, then row, or the
restore in its except branch; `cleanup_retention` is the two reads, the plan,
the directories, the rows, and then file by file `unlink` and `DELETE`. A crash
may come between any two. `RetentionExclusive` says whether the operator keeps
the CLI's cleanup apart from the collectors; the code does not.
`superseded` are references of earlier runs of the same day, whose manifest
rows stay because passes other than snapshots draw a fresh `run_id`.

**MarketDataService** (`market_data_service.py` and `_run_contracts`). Runs,
groups (one fetch reused by several contracts) and requests (fan-outs) each
have a progress; an action is what happens between two awaits. `Admit` is the
global semaphore, `StartFetch`/`CircuitOpen` the domain semaphore followed by
the circuit's answer, the three `Fetch*` what the transport does; `StoreGroup`
is `_normalize` and `_persist` of all members, which has no await;
`StoreRaises` is an exception in it after some members, which ends the run and
leaves the other groups running.

**SnapshotSlots** implements **SlotLedger**. `SnapshotSlots` is the foreground
loop on one trading day: each pass reads the clock once (`instant`) and uses
that reading to the end. `SlotLedger` is the promise of the docstring of
`tick`: each checkpoint is settled at most once, not before its time, and as
`MISSED` only after its grace window. The refinement maps the set of states of
a slot's run rows to one outcome; rows that contradict each other map to no
outcome of the ledger.

**EodCollection** (`reconcile_research_session`, `run_eod`, `_record_health`,
`_attempt_cooling_down`; `run_all` and `run_eod` of another process). Instants
are ages: how long ago a source was attempted, how long ago the pass read the
clock. `Publish` is the exchange, outside the code. `Fetchable` is the
resolver, which falls back from today's address to older ones. `Commit` moves
the last-good pointer; the mark `eod_complete_date` and `last_attempt_at` come
later, in `EndFetching`. `shared` records that another process has collected.
`calm` is an assumption of the liveness property and not of the system: from
the moment it is set nothing crashes and no other process begins a run.

**CashPostCommit** (`selection/cash_post_commit.py`). A dispatcher is a thread
inside `process`. `Collect` is a collector's dispatch under the lease, with its
commit; `Reconcile` is the dispatch of the "already current" branch of
`reconcile_research_session`, which holds no lease. Then follow the read of the
state file, the checks, the fingerprint, the decision (recover R3, skip,
build), the pipeline (stage, R1 bundle, R2 order, the tail), and the write:
a temporary file with one fixed name, then `os.replace`. `SideBySide` says
whether two dispatchers may be inside at once: the code allows it, since only
one of the two callers holds the lease.

**OpenAlgoStream** (`openalgo_stream.py`). One action per method; `ingest` is
split by its branches (late session, unsubscribed, no timestamp, out of order,
full queue, accepted). `log`, `overdue`, `refused` are history.

**ScannerScheduler** (`scanner_scheduler.py`, `app_lifespan`, two functions of
`storage.py`). Loop threads are numbered by the start that made them; `stop` is
the one event they share. `Start` and `Stop` take effect in memory, `SaveConfig`
or `SaveRaises` follows under `_lock`; `RaiseOut` is an exception that escapes
`run_once`. Time is left out: a wait may end at any moment.

**R16Replay** (`selection/r16_service.py`, `r16_store.py`, `r16_pit.py`,
`r16_metrics.py`) implements **LabelLedger**. A worker reads the S8 dates and the
stored bars (`ReadInputs`), visits the dates (`persist_dataset_run`,
`persist_hypotheses`), lists what is frozen, reads the latest labels, appends
those that changed hypothesis by hypothesis (`persist_observations`), and
stores a metric. Days are numbers; a path is the set of days it has; what a
bar's prices do to a hypothesis is whether its day is in `Enters` and in
`Exits`. `Label` and `Latest` are the two computations everything depends on:
`label_hypothesis`, and the query of `list_latest_observations`, which orders
by `label_computed_at` and only then by row. Bars and S8 runs arrive at any
moment, bars also late. The worker lease is left out, since nothing renews it:
`overlaps` counts the workers that began while another was at work.
`LabelLedger` is the promise: what has a verdict was frozen, and as long as one
worker works at a time a verdict is never changed.

**LivePanels** (`live_panels.py`, without a canonical provider). A caller of
`get_snapshot` and the service's own loop each have a call: it asks for the
fresh snapshot, then the breaker, waits for the lock, asks for the fresh
snapshot again, and fetches (`BeginCycle`, `Work`). A cycle counts the failures
of each source, quarantines it, counts the widespread failures and opens the
breaker; `_save` at its end may raise. Pauses and ages are counted down, as the
code compares them with instants read earlier; `calm` as above: the publisher
answers and saving does not raise.

How they compose: `CollectorLease` shows what the lease gives a run;
`ManualRefresh` runs the refreshes on it, and the other modules of the
collector use that result. `SnapshotSlots` and `EodCollection`
see the lease as one word with an owner, `MarketDataService` admits one run
after another, `CashPostCommit` lets one collector be between acquire and
release at a time. `MarketDataStore` does not rely on it: its writers and
retention interleave freely when `RetentionExclusive` is false.

## 3. The runs

| run | instance | checks | bounds |
|---|---|---|---|
| `refresh` | two other runs with time-to-live 2, two refreshes with 3, clock to 4 | ownership up to the expiry, a true status, the manifest that is shown | a run can expire, be replaced and commit after its successor; a second refresh begins after a restart; runs and refreshes are symmetric |
| `store` | one source, two contents, three days, crashes | last-good and manifest contents readable, one manifest generation | one detailed day, two completed days: days expire twice; two contents are what it takes to supersede one and bring it back |
| `store_last_good` | two days, retention not kept apart | `LastGoodReadable`, **violated** | section 5 |
| `stream` | two keys, of each a payload without timestamp, one at timestamp 1 and two at timestamp 2; two sessions, a queue of two | order, sessions, losses | duplicates, equal timestamps, frames of session 1 in session 2, equal timestamps with different contents, a full queue; keys are symmetric |
| `slots` | three slots at 1, 3, 6, grace 1, clock to 10, exceptions and crashes | ledger refinement, every slot settled | a pass that is slow over slot 1 reaches into the window of slot 2 and past it; the third comes after a quiet time |
| `service` | two runs, four groups, five requests, a domain with one slot and one without a cap, global cap 2, threshold 2 | completeness, fan-outs, circuit, termination | a circuit opens, cools down and opens again; the global cap is exhausted by a queue on one domain |
| `eod` | two sources the reconciliation asks for, of which `run_eod` also polls one; retry 2, passes up to 1 long, crashes, another process | the mark and what it stands for, one question per pass, published is collected | a first attempt, a failed one, the cooling down and one more fit in; the publisher is late, serves older files, or is never there |
| `cash` | collector and reconciliation one after the other, three artifacts of which two are current, two builds, crashes | skips are current, one lineage | an artifact changes between two builds; a third is of another day |
| `cash_lost_run` | the two side by side, one artifact, two builds | `UnrelatedKeepsRun`, **violated** | section 5 |
| `scanner` | two starts per life of the process, one request, raising store | status, schedule, rows, ends | the smallest in which a start overtakes the thread of an earlier one |
| `r16` | two workers, four days, S8 on days 2 and 3, a geometry of one bar, a horizon of two sessions, one overlap, one second payload, crashes | ledger refinement, growing paths, completeness, repeatability | a hypothesis can be without geometry, censored, decided and overtaken; the horizon ends before the days do; a bar can be late for each of them |
| `panels` | one caller beside the loop, two sources, breaker after two widespread cycles, pauses 2 and 3 | an open breaker stops fetches, the panels recover | a source is quarantined twice while the breaker opens, closes and opens again; PRE_OPEN and regular cycles alternate |

The bounds only cut counters (`MaxNow`, `MaxClock`, `MaxDay`, `MaxSession`,
`MaxStamp`, `MaxBuilds`, `MaxStarts`, `MaxLag`, `MaxOverlaps`, `LastDay`); ages
in `EodCollection` and `LivePanels` are cut where the code no longer tells them
apart. Deadlock is checked except in `refresh` and `service`, whose finite set
of runs comes to its end. The runs have between some thousand and 3.5 million
distinct states.

### Fairness

Liveness is checked under weak fairness only.

* `slots`: the steps of the loop and of the clock. Every await of the loop
  returns (`httpx` clients have timeouts, the sleep is 15 s). A dead loop is
  never restarted by the code, so there is no fairness of `start_foreground`,
  and `EverySlotSettled` speaks of behaviours in which the loop stays up from
  some point on. The manual refresh has no fairness and may keep the lease.
* `eod`: the loop, the other process, the clock and the expiry of a lease.
  `PublishedIsCollected` speaks of behaviours that are calm from some point on:
  no crash and no new run of another process, with which a source can be
  starved for ever, and a publisher that serves what it has published.
* `panels`: the loop's calls, the steps of a call in progress and the clock.
  `PanelsRecover` speaks of behaviours that are calm from some point on: every
  source answers and saving does not raise.
* `service`: each coroutine and each run. asyncio is first-in first-out and
  every fetch ends. The start of a run is not fair.
* `scanner`: each loop thread. The interpreter switches between threads, a call
  of the store returns or raises, a wait ends. `start`, `stop` and the requests
  are not fair.

### What the properties say

Beside one type invariant per module:

* `ProtectedRunOwnsRow`: up to the expiry it wrote the row of a collecting run
  is its own, whatever entered, expired, crashed or released before, and
  however old the instants are.
* `StatusIsTrue`: RUNNING is said of the newest refresh exactly while it is
  under way, COMPLETED only of one whose manifest is stored, LEASE_HELD only of
  one that collected nothing. `RefreshIsShown`: once a refresh that kept its
  lease is COMPLETED, the panels show no collection that was committed before
  it in its place (its instant is the earlier one, and readers choose by it).
* `LastGoodReadable`, `ManifestContentsReadable`: what last-good pointers and
  manifests name has its row and its file. `ManifestGenerationsAgree`: the
  manifest on disk is the newest of the table, except between the two writes or
  after a crash there.
* `ReturnedRunIsComplete`, `SuccessHasEveryAnswer`: a run that returned has an
  attempt of every source, in both phases; records of a fan-out are a success
  only if every request was answered. `SerialCircuitCoolsDown`: with one slot,
  an open circuit closes only after its cooldown. `EveryRunEnds`.
* `LedgerSpec` of `SnapshotSlots` (refinement): each checkpoint is settled once,
  never early, as missed only after its window. `EverySlotSettled`.
* `CompleteIsStored`: while the loop is the only collector a source marked
  complete has today's object as its last-good; beside another process,
  today's object was at least stored. `AskedOncePerPass`: reconciliation and
  `run_eod` of one pass do not ask twice. `PublishedIsCollected`.
* `SkipsOnlyWhatIsCurrent`: a skipped duplicate points at outputs built from
  the present last-good. `PublishedRunIsOneLineage`: R3 of a published run was
  made from the R1 beside it. `UnrelatedKeepsRun`: an unrelated dispatch
  changes no run.
* `ProviderTimeAdvances`, `ReceiptsFollowSessions`: accepted events of a key
  advance in time, receipts never go back to an earlier session.
  `LossIsNeverHidden`: a reconnect after events, a frame refused for a full
  queue or its order, and any other gap leave the continuity GAP_DETECTED with
  a blocker code that names it, whatever follows.
* `RunningHasLoop`: while `running` is set, the newest thread is alive or was
  killed by an exception. `ScheduleIsPersisted`: the row says what the last
  start or stop asked for, through crashes, shutdowns and restores.
  `RunningRowIsLive`: a row `RUNNING` is a scan under way, except after a
  process end or a finish that raised. `StoppedLoopsEnd`.
* `LedgerSpec` of `R16Replay` (refinement): a verdict stays while workers do not
  overlap, also when bars are late. `LatestPathGrows`: the label that is
  returned never goes back to fewer sessions or loses its verdict while bars
  arrive in order, also when workers overlap. `CompleteIsWhole`: a worker about
  to report COMPLETE leaves no hypothesis of its dates unfrozen and none with a
  label behind the bars it read. `ReplayIsRepeatable`: a replay meets an
  immutable row with other contents only after a late bar, a rejected payload
  or an overlap, never because of a crash.
* `BreakerStopsFetches`: while the breaker is open nothing is asked of the
  publisher, also by calls that passed it before and waited, except after a
  save that raised. `PanelsRecover`: once the publisher answers, every
  source is fetched again, past counts, quarantines and breaker.

## 4. The proofs

The theorems hold for every value of the constants that satisfies the named
assumptions of the modules (finiteness where a cardinality is used, positive
times-to-live and caps, `None` outside the data). All are safety properties.

| theorem | states | argument |
|---|---|---|
| `LeaseTyping`, `RowStaysWithProtectedRun`, `LeaseExclusion` | `TypeOK`, `ProtectedRunOwnsRow`, `ProtectedRunsAreAlone` | `LeaseInv` adds to `ProtectedRunOwnsRow` that no run's instant lies in the future: a run that takes the row over has read an instant not later than now, so the row it replaces had expired. Exclusion follows because one row has one owner |
| `RefreshTyping`, `StatusStaysTrue`, `RefreshStaysShown` | `RefreshTypeOK`, `StatusIsTrue`, `RefreshIsShown` | `StatusInv` adds to `StatusIsTrue` that only one refresh is not settled and that what is settled is over. `ShownInv`: a refresh begins with the present instant and takes the lease in the same instant, so every manifest stored by then is older; while it is protected nobody else holds the row, so no collection is committed before its own |
| `StoreTyping`, `ForeignKeysHold`, `LastGoodSurvivesRetention`, `ManifestsSurviveRetention`, `GenerationsAgree` | `TypeOK`, `ReferencesHaveRows`, `LastGoodReadable`, `ManifestContentsReadable`, `ManifestGenerationsAgree` | the first two without assuming that retention is exclusive: each reference is written by a transaction that requires the row, each row deleted by one that requires no reference. The next two assume `RetentionExclusive`: `ReadInv` says what is kept and what is eligible at each location of the sweep, that eligible objects are disjoint from what is referenced, and what a writer knows of its file. The last also assumes one writer of manifests at a time: `GenerationInv` says what the writer remembers of the manifest it would restore |
| `EodTyping`, `CompletionMeansStored`, `CompletedIsNotAskedAgain`, `OneQuestionPerPass` | `EodTypeOK`, `CompleteIsStored`, `CompletedIsLeftAlone` (no source of a pass is complete while the loop collects alone), `AskedOncePerPass` | `OneCollector`: the loop fetches exactly while it holds the lease, and what it got is forgotten when the attempts are recorded. `DayInv`: today's object that a run has seen was stored before the mark is written, and the loop alone never asks for a completed source, so no older answer can replace that object. `AskedIsCooling`: an attempt carries the instant the pass began and no source ages faster than the pass, so what the reconciliation asked for is not due in `run_eod`. None of the three needs that passes are shorter than the retry interval |
| `LoopTyping`, `LeaseFollowsLoop`, `LoopImplementsLedger` | `TypeOK`, `LeaseMatchesLoop`, `LedgerSpec` | `LoopInv` adds that every slot still to be visited and the one being collected have no row and were reached; then each step that saves a row is one `Settle` of the ledger, all others stutter or let time pass |
| `PanelTyping`, `OpenBreakerStopsFetches` | `PanelTypeOK`, `BreakerStopsFetches` | `Waiting`: who fetches has the lock, nobody waits twice, and who waits has a call. `TripAnswersWaiting`: while the breaker is open and its cycle was saved, nobody fetches, there is a snapshot, and it overtook every call in the queue, so each is answered from it when its turn comes; a later caller is answered before the lock |
| `ServiceTyping`, `RunsAreComplete`, `SuccessesAreWhole`, `SerialCircuitHoldsBack`, `SerialCircuitWaits`, `SemaphoresBound`, `RunsAreNeverStuck` | `TypeOK`, `ReturnedRunIsComplete`, `SuccessHasEveryAnswer`, `SerialCircuitIsQuiet`, `SerialCircuitCoolsDown`, `WithinCaps`, `NoRunIsStuck` | `GroupInv`: groups of a phase not begun are idle, those of a phase that was awaited are stored, a stored group has rows of all its members, a success had all its answers (the requests of a group are started once). For the circuit: at most one request of a serial domain is fetching, and none while it is open. `WithinCaps` is inductive. `NoRunIsStuck` is the safety half of `EveryRunEnds`: `WaitInv` says that a group begun has all its requests begun, and a request holding the global semaphore waits only for its domain, whose slots are held by requests that fetch (`HoldersMove`); so a full semaphore always has somebody who can move, also when requests of a run that raised are still under way |
| `StreamTyping`, `ProviderTimeAlwaysAdvances`, `LateFramesStayOut`, `LossesStayVisible` | `TypeOK`, `ProviderTimeAdvances`, `ReceiptsFollowSessions`, `LossIsNeverHidden` | `StreamInv`: every logged event lies behind the counters and the last timestamp of its key; a live session is the newest; until the first gap all events are of the newest session. `GapInv`: blocker codes that name a loss are withdrawn by nothing |
| `CashTyping`, `RunsAreOneLineage`, `SkippedIsCurrent`, `UnrelatedKeepsRunAlone` | `TypeOK`, `PublishedRunIsOneLineage`, `SkipsOnlyWhatIsCurrent`, `UnrelatedKeepsRun` | `Typed` adds which local variables a location has computed. The lineage invariant extends the property from the file to every place a run is held: temporary file, `previous` and `out` of each dispatcher; the recovery branch compares ids before it adds R3. That theorem holds side by side too, where the run checks one dispatcher after the other. The other two assume `~SideBySide`. `SerialInv`: every run held anywhere with an R1 was built from the content its fingerprint names (`KeptRunsAreFaithful`), and the content a dispatch fingerprinted is still last-good while it builds (`Progress`), as nobody else commits meanwhile; so equal fingerprints mean current outputs. `Retains`: what an unrelated dispatch is about to write is the run the file holds. Its conclusion is what the run `cash_lost_run` refutes for two dispatchers: overlap is the only cause of the loss |
| `ScannerTyping`, `RunningIsTrue`, `ScheduleSurvives`, `RunningRowsAreLive` | `TypeOK`, `RunningHasLoop`, `ScheduleIsPersisted`, `RunningRowIsLive` | `RunningInv` adds that a thread was started and that the event is not set; `ScheduleInv` relates what a command that holds `_lock` will save to the row; `RowInv` says that only the scan that holds `_run_lock` has a row of its own and that it knows which |
| `TypeCorrect`, `ReplayKeepsLedger`, `PathsGrow`, `CompleteLeavesNothing`, `ReplaysRepeat` | `TypeOK`, `LedgerSpec`, `LatestPathGrows`, `CompleteIsWhole`, `ReplayIsRepeatable` | `Typed` adds which variables a location has read; `ListedIsFrozen` that a worker labels only what is frozen; `Alone` that without an overlap a worker's latest labels are those of the table, so that it skips what is decided. `HistoryInv`: the bars that ever were read, by workers and by stored labels, form a chain of prefixes of the stored days while none is late; of two labels of one hypothesis the later one then extends the path of the other (`TwoLabels`). `WholeInv` says at each location of a worker which hypotheses it has frozen, listed and covered with a label, and that no step of another uncovers one. `RepeatInv`: while nothing disturbs the replay, a frozen basis is that of all stored bars, because the bars before a decision were all there, and the dates of a metric are those of its labels, so equal ids have equal contents; this needs a symbol for each S8 date, which `ReplaysRepeat` assumes |

The hypotheses, and where the code stands to them: `RetentionExclusive` and
`~SideBySide` are not given by the code (the CLI's cleanup and the
reconciliation's dispatch take no lease); without them the conclusions are
false, as `store_last_good` and `cash_lost_run` show, so the theorems say what
an operator has to keep apart. One writer of manifests at a time is what the
lease gives as long as no collection outlives it. A symbol for each S8 date is
an assumption on the data: `_s8_contract` (`r16_pit.py:288`) accepts a payload
without rows, whose date counts in `missingS8Rate` of a metric and not in its
id, so a replay after it could meet the immutable row with another payload.
`shared`, `calm`, `unsaved`, `overlaps` and the like are no hypotheses: they are
variables, and the properties that name them say what holds in either case.

**Model-checked only:** the liveness properties (`EverySlotSettled`,
`EveryRunEnds`, `PublishedIsCollected`, `StoppedLoopsEnd`, `PanelsRecover`):
fairness and `ENABLED` are out of the prover's reach. Every other property
of a passing run is stated by a theorem. What a recursive definition computes
for every input would be out of reach too; the models have none.

## 5. What the models showed

Two runs find a disagreement; both are listed as findings.

* `store_last_good`: `cleanup_retention` (`market_data_store.py:814`) reads
  what is referenced once and unlinks later, without a lease. A collector that
  commits the old content again in between (the object row still exists, so no
  file is written) keeps a last-good pointer to a file that is then removed.
  The test `test_retention_never_deletes_current_day_or_last_good_object`
  states the opposite, for a sequential schedule.
* `cash_lost_run`: `process` reads the state file at its start and writes it
  whole at its end. The reconciliation's dispatch has no lease; the run it
  publishes in between is overwritten by an unrelated dispatch with the older
  one, which reports that the "existing cash run was retained".

Behaviour the models contain, that reads differently in a document or a
message, and that no run claims:

* The lease is never renewed, although the row has a `heartbeat_at` column. A
  collection longer than 120 s (900 s in `run_all`) runs beside the next
  collector; "singleton lease" (`market_data_scheduler.py:1341`) holds up to
  the expiry only. Therefore the properties of `CollectorLease` speak of
  protected runs.
* The sweep unlinks a file before it deletes the row. If an attempt row of any
  age references the object, the foreign key refuses the `DELETE`, the sweep
  ends with `IntegrityError`, and the row is left without its file;
  `install_object` of that content raises from then on.
  `src/docs/fable/MD69_REFRESH_OPERATION_REFERENCE.md:451` leaves "deletion to
  the existing retention workflow".
* Lateness of a checkpoint is judged by the instant the pass began. A slot
  reached long after its grace window inside a slow pass is collected and saved
  as `COMPLETED`; "late slots are `MISSED`"
  (`src/docs/fable/MD69_M4_WORK_PACKET_2026-08-05.md:26`) holds for late
  passes. `SlotLedger` therefore bounds `MISSED` from one side only.
* In a domain with more than one slot, the success of a request sent before the
  circuit opened closes it before its cooldown (`record_success`,
  `market_data_service.py:276`). Where one slot serialises the requests this
  cannot happen, which is what is stated and proved.
* When `_persist` raises, `run_sources` returns to its caller while other
  groups run on; they write after the lease was released.
* `commit_success` moves the last-good pointer to whatever was parsed; the test
  of its date comes later and touches only the result. An older dated file can
  replace a newer one, although `exchange_calendar.py:129` says "last-good
  stays until the dated artifact actually parses as today". Through `run_all`
  of another process this can also happen on a day that is already marked
  complete, after which nothing asks for the source again that day.
* The bridge remembers only the last run. A failed attempt between two equal
  dispatches makes the second build again; "Same relevant fingerprint is
  processed once" (`R0_R1_R2_LOCKED_PLAN_2026-08-15.md:626`) holds for
  successive dispatches.
* Scanner: a start right after a stop clears the event the earlier thread has
  not seen yet; two loops then scan in turn until the next stop. If the earlier
  thread has seen it, it writes `running = False` over the new start. If saving
  the configuration raises in `start`, the thread runs and a second `start`
  returns without saving. An exception of `evaluate_nse_calendar` ends the
  thread while `status()` says running.

* Manual refresh: the panels choose the manifest with the greatest
  `generated_at`, which is the instant its run began with
  (`market_data_alignment.py:166`, `market_data_scheduler.py:862`). The manifest
  of a missed or blocked checkpoint is written without a lease; written during a
  refresh with a later instant, it is shown in place of the refresh that
  completes after it, although
  `src/docs/fable/MD69_SAVED_PANEL_OVERLAY_REPAIR_2026-08-06.md:74` says an
  audit manifest cannot hide the most recent populated one. The checkpoint of a
  pass that began before the refresh is committed later and stays hidden.
* Store: with several writers between file and row, the restore of one can undo
  the file of another; `GenerationsAgree` therefore assumes one.
* R16: the id of a metric (`r16_metrics.py:293`) leaves out counts the metric
  contains (rejected and conflicting S8 payloads). When one is rejected after a
  complete replay and no label changes, the next replay raises "immutable" until
  a newer date is labelled; the test
  `test_lineage_incomplete_same_date_does_not_quarantine_valid_s8` of
  `tests/test_r16_pit.py` has no replay before the rejection.
* R16: bars that `ensure_official_raw_history` fills in late change the basis
  of hypotheses that are frozen already; every replay from then on raises until
  a rebuild. Late bars together with two workers can also let a label that is
  not terminal replace one that is: the worker with fewer bars appends it, with
  a date that is not earlier. This is why `CompleteIsWhole` and
  `LatestPathGrows` name these cases.
* Live panels: the instant of a call is read before it waits, so a snapshot
  saved meanwhile may be more than 120 s newer and its data is quarantined as
  from the future; a waiting caller may get a snapshot older than its
  `max_age`; a forced one gets that of the call before it. A PRE_OPEN cycle has
  one source and resets the count of widespread failures. The count of a source
  stays at its limit after its quarantine, so one failure more quarantines it
  again. If saving raises after the breaker was opened, the calls that wait go
  on to fetch while it is open.

## 6. Not modelled, and why

* Parsers, engines, scanners, options, the hybrid laboratory: numeric or
  textual functions without state, over floating-point numbers; unit tests and
  not a model checker are the tool for them. With the routes, queries and
  documents they are by far the largest part of the repository's lines, so the
  share of lines that the models stand for stays small although most of what
  runs concurrently or is persisted in steps is modelled.
* HTTP clients, routes, the frontend: input and output.
* Relational storage of the dashboards: one transaction per call.
* Calendar: a pure function of the date; the models take one trading day.
  `EodCollection` therefore leaves out the phases in which the research date is
  an earlier session.
* Within modelled components: path-safety checks, symbolic links, migrations;
  rows of failed attempts, which name no object; a torn or unreadable state
  file; contents of the companion sources; universe and interval of the scanner.
* Components with protocol behaviour that are not modelled yet are in the plan.

## 7. The plan

Done, in this order: `CollectorLease`, `MarketDataStore`, `OpenAlgoStream`,
`SlotLedger` and `SnapshotSlots`, `MarketDataService`, `EodCollection`,
`CashPostCommit`, `ScannerScheduler`, `LabelLedger` and `R16Replay`,
`ManualRefresh`, `LivePanels`; every safety property of their runs is proved.

Next, most important first:

1. Refinements worth stating: the store as an atomic map from source to
   content, which `commit_success` implements when retention is exclusive; the
   bridge as one register of runs, which it implements for one dispatcher
   (`UnrelatedKeepsRunAlone` is its first step); the lease as a mutual-exclusion
   object with expiry.
2. Two loops (the CLI's `start` beside the API server) in `SnapshotSlots`, with
   `LedgerSpec` as the question: run ids differ, so a slot may be both missed
   and completed.
3. The source monitor scheduler, whose thread pattern is that of the scanner
   with a `join` that gives up.
4. The harmonic lifecycles: `track_detected_harmonic` under the scanner's run
   lock beside the evaluate route, which saves without the comparison. Two
   questions read from the code and not yet checked: the comparison looks only
   at the transitions of the new evaluation, so revised bars whose evaluation is
   a proper prefix of the stored history are reported as `TRACKED`
   (`docs/DECISIONS.md`, D-012, expects `CONFLICT_DATA_REVISION`); and events
   are committed before their alerts, so a crash between the two loses alerts
   that no later scan creates.
5. Selection S6 to S8 as operators with a reference definition over bounded
   inputs; the triple barrier of the hybrid laboratory.
