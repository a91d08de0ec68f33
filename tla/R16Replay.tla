----------------------------- MODULE R16Replay -----------------------------
(***************************************************************************)
(* The R16 point-in-time replay (selection/r16_service.py run_incremental, *)
(* selection/r16_store.py, selection/r16_pit.py): a worker reads the       *)
(* persisted S8 runs and the stored session bars, freezes the hypotheses   *)
(* of each S8 date, labels every hypothesis that is not decided yet and    *)
(* stores a metric of the labels.  Workers are the cash pipeline's R16     *)
(* stage and the commands of the CLI; bars and S8 runs arrive from         *)
(* outside, bars also late.                                                *)
(*                                                                         *)
(* A worker's lease ends 900 seconds after it began and nothing renews it, *)
(* so that another worker may begin at any moment of a long run: the lease *)
(* row is left out, the overlap is counted.  A revision of the data set    *)
(* stands alone (every id contains its hash), so one is modelled; a        *)
(* rebuild is the same run over another.  A day's file has the bars of all *)
(* symbols.  A symbol of an S8 date has one hypothesis with a direction,   *)
(* and all are of one metric cell.  An S8 payload with an incomplete       *)
(* lineage adds to a metric's counts as a conflicting one does, and is     *)
(* left out.                                                               *)
(***************************************************************************)
EXTENDS Naturals, Sequences, FiniteSets

CONSTANTS
  Workers,   \* processes that may be inside run_incremental
  LastDay,   \* trading days are numbered in their order
  SymbolsOf, \* the S8 dates, each with the symbols of its rows
  Window,    \* visible bars a geometry needs, 20 in the code
  Horizon,   \* sessions of a label path, 5, 10 or 20 in the code
  Enters,    \* days whose bar touches an entry zone
  Exits,     \* days whose bar hits a target or a stop once entered
  Twice,     \* bound: the dates that may get a second S8 payload
  MaxOverlaps, \* bound: workers that begin while another is still at work
  None

Day == 1..LastDay
Date == DOMAIN SymbolsOf
Hypothesis == UNION {{d} \X SymbolsOf[d] : d \in Date}

ASSUME DayAssumption ==
  /\ LastDay \in Nat
  /\ Enters \subseteq Day /\ Exits \subseteq Day
ASSUME DateAssumption == Date \subseteq Day
ASSUME BoundAssumption ==
  /\ Window \in Nat \ {0} /\ Horizon \in Nat \ {0}
  /\ Twice \subseteq Date /\ MaxOverlaps \in Nat

Open == {"CENSORED", "NO_FORWARD_SESSION"}
Terminal == {"RESOLVED", "NO_HIT", "NO_ENTRY", "NO_GEOMETRY"}

\* What observation_id hashes: the path, label_computed_at, the status.
Observation == [path: SUBSET Day, at: Day, status: Open \cup Terminal]

\* What run_incremental knows of the S8 history: the dates it selected and the
\* number of payloads it rejected.
Facts == [selected: SUBSET Date, rejections: Nat]

ASSUME NoneAssumption ==
  None \notin Workers /\ None \notin Observation /\ None \notin Facts

VARIABLES
  stored,    \* days whose bars are in cash_raw_session_bars
  valid,     \* persisted S8 payloads of a date, 2 = more
  datasets,  \* dates with a row of pit_dataset_runs
  frozen,    \* hypotheses with a row of pit_hypotheses
  basis,     \* the bars the payload of that row was made from
  labels,    \* pit_observations in the order of rowid, by hypothesis
  metrics,   \* pit_metrics
  pc, facts, bars, dates, listed, todo, prior,  \* a worker's position, what it read
  overlaps,  \* history: workers that began while another was at work
  backfilled \* history: a bar was stored after that of a later day

store == <<datasets, frozen, basis, labels, metrics>>
work == <<pc, facts, bars, dates, listed, todo, prior>>
world == <<stored, valid, backfilled>>
vars == <<world, store, work, overlaps>>

Metric == [dataset: Date, labels: [Hypothesis -> Observation \cup {None}],
           facts: Facts]

Location == {"idle", "begun", "dataset", "hypotheses", "reading",
             "labelling", "measured", "waiting", "raised"}

TypeOK ==
  /\ stored \subseteq Day
  /\ valid \in [Date -> 0..2]
  /\ datasets \subseteq Date
  /\ frozen \subseteq Hypothesis
  /\ basis \in [Hypothesis -> SUBSET Day]
  /\ labels \in [Hypothesis -> Seq(Observation)]
  /\ metrics \subseteq Metric
  /\ pc \in [Workers -> Location]
  /\ facts \in [Workers -> Facts \cup {None}]
  /\ bars \in [Workers -> SUBSET Day]
  /\ dates \in [Workers -> SUBSET Date]
  /\ todo \in [Workers -> SUBSET Hypothesis]
  /\ listed \in [Workers -> SUBSET Hypothesis]
  /\ prior \in [Workers -> [Hypothesis -> Observation \cup {None}]]
  /\ overlaps \in Nat
  /\ backfilled \in BOOLEAN

Unread == [h \in Hypothesis |-> None]

Init ==
  /\ stored = {} /\ valid = [d \in Date |-> 0]
  /\ datasets = {} /\ frozen = {} /\ basis = [h \in Hypothesis |-> {}]
  /\ labels = [h \in Hypothesis |-> <<>>] /\ metrics = {}
  /\ pc = [w \in Workers |-> "idle"]
  /\ facts = [w \in Workers |-> None]
  /\ bars = [w \in Workers |-> {}]
  /\ dates = [w \in Workers |-> {}]
  /\ todo = [w \in Workers |-> {}] /\ listed = [w \in Workers |-> {}]
  /\ prior = [w \in Workers |-> Unread]
  /\ overlaps = 0 /\ backfilled = FALSE

-----------------------------------------------------------------------------
\* What arrives from outside

\* A trading day's file is ingested, possibly after that of a later day
\* (ensure_official_raw_history fills missing days); a bar is immutable.
StoreBars(day) ==
  /\ day \notin stored
  /\ stored' = stored \cup {day}
  /\ backfilled' = (backfilled \/ \E later \in stored : day < later)
  /\ UNCHANGED <<valid, store, work, overlaps>>

\* An S8 run of the date with another run id; the pipeline's A4 stored the bars
\* of the date before.
PersistS8(d) ==
  /\ d \in stored
  /\ valid[d] < IF d \in Twice THEN 2 ELSE 1
  /\ valid' = [valid EXCEPT ![d] = @ + 1]
  /\ UNCHANGED <<stored, backfilled, store, work, overlaps>>

-----------------------------------------------------------------------------
\* Freezing and labelling

Newest(days, n) == {x \in days : Cardinality({y \in days : y > x}) < n}
Oldest(days, n) == {x \in days : Cardinality({y \in days : y < x}) < n}

\* A plausible bug: the bars after the decision are visible to it.
Basis_LooksAhead(h, from) == Newest(from, Window)

\* The bars a hypothesis is frozen from: the newest visible ones.
Basis(h, from) == Newest({x \in from : x < h[1]}, Window)

Ready(h) == Cardinality(basis[h]) = Window

\* label_hypothesis walks the path session by session.  RESOLVED stands for
\* TARGET and STOP, and for the verdicts before an entry (invalidated, a gap
\* beyond the zone), which end the walk on a day in both Enters and Exits.
Status(h, path) ==
  LET entry == {x \in path : x \in Enters}
      exit == {x \in path : x \in Exits /\ \E e \in entry : e <= x}
  IN CASE ~ Ready(h) -> "NO_GEOMETRY"
       [] Ready(h) /\ path = {} -> "NO_FORWARD_SESSION"
       [] Ready(h) /\ path # {} /\ exit # {} -> "RESOLVED"
       [] Ready(h) /\ path # {} /\ exit = {} /\ Cardinality(path) < Horizon -> "CENSORED"
       [] OTHER -> IF entry = {} THEN "NO_ENTRY" ELSE "NO_HIT"

\* A plausible bug: the label is dated when the next day begins.
ComputedAt_Next(h, later) ==
  1 + (IF later = {} THEN h[1] ELSE CHOOSE x \in later : \A y \in later : y <= x)

\* label_computed_at is the day of the last later bar, also of one beyond the
\* horizon, or the decision's own.
ComputedAt(h, later) ==
  IF later = {} THEN h[1] ELSE CHOOSE x \in later : \A y \in later : y <= x

Label(h, from) ==
  LET later == {x \in from : x > h[1]}
      path == Oldest(later, Horizon)
  IN [path |-> path,
      at |-> ComputedAt(h, later),
      status |-> Status(h, path)]

\* A plausible bug: the label that was appended last is the latest.
Latest_ByRow(h) ==
  IF labels[h] = <<>> THEN None ELSE labels[h][Len(labels[h])]

\* list_latest_observations: by label_computed_at, then by rowid.
Latest(h) ==
  IF labels[h] = <<>> THEN None
  ELSE LET rows == DOMAIN labels[h]
           newest == {i \in rows : \A j \in rows : labels[h][j].at <= labels[h][i].at}
       IN labels[h][CHOOSE i \in newest : \A j \in newest : j <= i]

Decided(label) == label # None /\ label.status \in Terminal
-----------------------------------------------------------------------------
\* run_incremental

Goto(w, l) == pc' = [pc EXCEPT ![w] = l]

\* The run needs nothing of what it read any more.
Forget(w) ==
  /\ facts' = [facts EXCEPT ![w] = None]
  /\ bars' = [bars EXCEPT ![w] = {}]
  /\ dates' = [dates EXCEPT ![w] = {}]
  /\ todo' = [todo EXCEPT ![w] = {}]
  /\ listed' = [listed EXCEPT ![w] = {}]
  /\ prior' = [prior EXCEPT ![w] = Unread]

AtWork == {w \in Workers : pc[w] # "idle"}

\* The lease of a worker that is dead or too slow has expired.
acquire_worker_lease(w) ==
  /\ pc[w] = "idle"
  /\ AtWork # {} => overlaps < MaxOverlaps
  /\ Goto(w, "begun")
  /\ overlaps' = IF AtWork = {} THEN overlaps ELSE overlaps + 1
  /\ UNCHANGED <<world, store, facts, bars, dates, todo, listed, prior>>

\* _select_s8_history excludes a date with two valid payloads.  The bars are
\* read a moment later; an S8 run or a bar that comes between is one that
\* comes after both.
ReadInputs(w) ==
  /\ pc[w] = "begun"
  /\ LET conflicts == {d \in Date : valid[d] = 2}
     IN facts' = [facts EXCEPT ![w] =
                    [selected |-> {d \in Date : valid[d] = 1},
                     rejections |-> 2 * Cardinality(conflicts)]]
  /\ bars' = [bars EXCEPT ![w] = stored]
  /\ dates' = [dates EXCEPT ![w] = facts'[w].selected]
  /\ Goto(w, "dataset")
  /\ UNCHANGED <<world, store, todo, listed, prior, overlaps>>

\* The dates are visited in their order.
NextDate(w, d) == d \in dates[w] /\ \A e \in dates[w] : d <= e

\* A plausible bug: a date whose data set exists counts as frozen.
persist_dataset_run_Shortcut(w, d) ==
  /\ pc[w] = "dataset" /\ NextDate(w, d)
  /\ datasets' = datasets \cup {d}
  /\ IF d \in datasets
     THEN dates' = [dates EXCEPT ![w] = @ \ {d}] /\ UNCHANGED pc
     ELSE Goto(w, "hypotheses") /\ UNCHANGED dates
  /\ UNCHANGED <<world, frozen, basis, labels, metrics, facts, bars, todo, listed, prior, overlaps>>

persist_dataset_run(w, d) ==
  /\ pc[w] = "dataset" /\ NextDate(w, d)
  /\ datasets' = datasets \cup {d}
  /\ Goto(w, "hypotheses")
  /\ UNCHANGED <<world, frozen, basis, labels, metrics, facts, bars, dates, todo, listed, prior, overlaps>>

HypothesesOf(d) == {h \in Hypothesis : h[1] = d}

\* One transaction: a stored hypothesis with another payload rolls it back and
\* ends the run.
persist_hypotheses(w, d) ==
  /\ pc[w] = "hypotheses" /\ NextDate(w, d)
  /\ IF \A h \in HypothesesOf(d) \cap frozen : basis[h] = Basis(h, bars[w])
     THEN /\ frozen' = frozen \cup HypothesesOf(d)
          /\ basis' = [h \in Hypothesis |->
                         IF h[1] = d THEN Basis(h, bars[w]) ELSE basis[h]]
          /\ dates' = [dates EXCEPT ![w] = @ \ {d}]
          /\ Goto(w, "dataset")
          /\ UNCHANGED <<facts, bars, todo, listed, prior>>
     ELSE /\ Goto(w, "raised") /\ Forget(w)
          /\ UNCHANGED <<frozen, basis>>
  /\ UNCHANGED <<world, datasets, labels, metrics, overlaps>>

NoDataset(w) ==
  /\ pc[w] = "dataset" /\ facts[w].selected = {}
  /\ Goto(w, "waiting") /\ Forget(w)
  /\ UNCHANGED <<world, store, overlaps>>

list_hypotheses(w) ==
  /\ pc[w] = "dataset" /\ facts[w].selected # {} /\ dates[w] = {}
  /\ listed' = [listed EXCEPT ![w] = frozen]
  /\ todo' = [todo EXCEPT ![w] = listed'[w]]
  /\ Goto(w, "reading")
  /\ UNCHANGED <<world, store, facts, bars, dates, prior, overlaps>>

list_latest_observations(w) ==
  /\ pc[w] = "reading"
  /\ prior' = [prior EXCEPT ![w] =
                [h \in Hypothesis |-> IF h \in listed[w] THEN Latest(h) ELSE None]]
  /\ Goto(w, "labelling")
  /\ UNCHANGED <<world, store, facts, bars, dates, todo, listed, overlaps>>

\* Bars were read for the symbols of the selected dates only.
BarsOf(w, h) ==
  IF \E d \in facts[w].selected : h[2] \in SymbolsOf[d] THEN bars[w] ELSE {}

\* A plausible bug: every label that changed is appended.
Skips_Unchanged(w, h) == prior[w][h] = Label(h, BarsOf(w, h))

Skips(w, h) == Decided(prior[w][h]) \/ prior[w][h] = Label(h, BarsOf(w, h))

\* persist_observations ignores a row it has.
persist_observations(w, h) ==
  /\ pc[w] = "labelling" /\ h \in todo[w]
  /\ LET label == Label(h, BarsOf(w, h))
     IN labels' = IF Skips(w, h) \/ \E i \in DOMAIN labels[h] : labels[h][i] = label
                  THEN labels
                  ELSE [labels EXCEPT ![h] = Append(@, label)]
  /\ todo' = [todo EXCEPT ![w] = @ \ {h}]
  /\ prior' = [prior EXCEPT ![w][h] = None]
  /\ UNCHANGED <<world, datasets, frozen, basis, metrics, pc, facts, bars, dates, listed, overlaps>>

\* build_metrics and persist_metric.  The id of a metric is its data set and
\* its labels; what else it says must then be the same.
persist_metric(w) ==
  /\ pc[w] = "labelling" /\ todo[w] = {}
  /\ LET d == CHOOSE x \in facts[w].selected : \A y \in facts[w].selected : y <= x
         of == [h \in Hypothesis |-> IF h \in listed[w] THEN Latest(h) ELSE None]
         metric == [dataset |-> d, labels |-> of, facts |-> facts[w]]
         same == {m \in metrics : m.dataset = d /\ m.labels = of}
     IN IF same \subseteq {metric}
        THEN /\ metrics' = metrics \cup {metric}
             /\ Goto(w, "measured")
             /\ listed' = [listed EXCEPT ![w] = {}]
             /\ UNCHANGED <<facts, bars, dates, todo, prior>>
        ELSE Goto(w, "raised") /\ Forget(w) /\ UNCHANGED metrics
  /\ UNCHANGED <<world, datasets, frozen, basis, labels, overlaps>>

\* The finally clause, after the checkpoint of a run that did not raise.
release_worker_lease(w) ==
  /\ pc[w] \in {"measured", "waiting", "raised"}
  /\ Goto(w, "idle") /\ Forget(w)
  /\ UNCHANGED <<world, store, overlaps>>

\* Beside another worker a crash is a worker that takes no more steps.
Crash(w) ==
  /\ AtWork = {w}
  /\ Goto(w, "idle") /\ Forget(w)
  /\ UNCHANGED <<world, store, overlaps>>

WorkerStep(w) ==
  \/ acquire_worker_lease(w) \/ ReadInputs(w)
  \/ \E d \in Date : persist_dataset_run(w, d) \/ persist_hypotheses(w, d)
  \/ NoDataset(w) \/ list_hypotheses(w) \/ list_latest_observations(w)
  \/ \E h \in Hypothesis : persist_observations(w, h)
  \/ persist_metric(w) \/ release_worker_lease(w)

Next ==
  \/ \E day \in Day : StoreBars(day)
  \/ \E d \in Date : PersistS8(d)
  \/ \E w \in Workers : WorkerStep(w) \/ Crash(w)

Spec == Init /\ [][Next]_vars
-----------------------------------------------------------------------------
\* The terminal label of a hypothesis, as the ledger sees it.
VerdictOf(h) == IF Decided(Latest(h)) THEN Latest(h) ELSE None

Ledger ==
  INSTANCE LabelLedger WITH Verdict <- Observation,
    verdict <- [h \in Hypothesis |-> VerdictOf(h)], exclusive <- overlaps = 0

\* The replay implements the ledger: what is labelled was frozen, and through
\* crashes, replays and bars that arrive late the first terminal label of a
\* hypothesis stays, as long as no two workers were at work together
\* (TERMINAL_STATUSES in run_incremental).
LedgerSpec == Ledger!Spec

\* As long as the bars arrive in the order of their days, the label that
\* list_latest_observations returns never goes back to fewer sessions and its
\* verdict stays, also when a worker whose lease expired appends labels of the
\* fewer bars it had read.
LatestPathGrows ==
  [][~ backfilled' => \A h \in Hypothesis : Latest(h) # None =>
       /\ Latest(h).path \subseteq Latest(h)'.path
       /\ Decided(Latest(h)) => Latest(h)'.status = Latest(h).status]_vars

\* A worker that is about to report COMPLETE leaves no hypothesis of the dates
\* it selected unfrozen, and none with a label behind the bars it read, whatever
\* crashed before it in the middle of these dates (run_incremental).  If a bar
\* arrived late and two workers were at work together this may fail: the label
\* of the one that read fewer bars can replace a terminal one.
CompleteIsWhole ==
  ~ (backfilled /\ overlaps > 0) =>
    \A w \in Workers : pc[w] = "measured" =>
      \A h \in Hypothesis : h[1] \in facts[w].selected =>
        /\ h \in frozen /\ Latest(h) # None
        /\ Decided(Latest(h)) \/ Latest(h).at >= Label(h, bars[w]).at

\* A replay may be repeated: it meets an immutable row with another payload only
\* if a bar arrived late, an S8 payload was rejected or two workers were at work
\* together; a crash at any point is no reason (persist_hypotheses,
\* persist_metric).
ReplayIsRepeatable ==
  (\E w \in Workers : pc[w] = "raised") =>
    \/ backfilled \/ overlaps > 0
    \/ \E d \in Date : valid[d] = 2
=============================================================================
