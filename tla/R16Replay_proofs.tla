-------------------------- MODULE R16Replay_proofs --------------------------
(***************************************************************************)
(* Proofs about the R16 replay: its typing, that it implements the label   *)
(* ledger, that the latest labels grow, that a complete run leaves nothing *)
(* behind and that a replay may be repeated, for any number of workers,    *)
(* days, dates and symbols.                                                *)
(***************************************************************************)
EXTENDS R16Replay, FiniteSetTheorems, WellFoundedInduction, TLAPS

(* A set of numbers below a bound has a greatest one.                      *)
LEMMA GreatestExists ==
  ASSUME NEW n \in Nat, NEW T \in SUBSET (0..n), T # {}
  PROVE  \E x \in T : \A y \in T : y <= x
<1> DEFINE U == {n - x : x \in T}
<1>1. U \subseteq Nat
  <2>1. \A x \in T : n - x \in Nat
    OBVIOUS
  <2> QED
    BY <2>1
<1>2. U # {}
  OBVIOUS
<1> DEFINE Less == {p \in Nat \X Nat : p[1] < p[2]}
<1>3. PICK u \in U : \A v \in U : <<v, u>> \notin Less
  <2>1. OpToRel(<, Nat) = Less
    BY Zenon DEF OpToRel
  <2>2. IsWellFoundedOn(Less, Nat)
    BY <2>1, NatLessThanWellFounded, Zenon
  <2> HIDE DEF Less
  <2> QED
    BY <1>1, <1>2, <2>2, WFMin
<1>4. ASSUME NEW v \in U PROVE u <= v
  <2>1. u \in Nat /\ v \in Nat /\ <<v, u>> \notin Less
    BY <1>1, <1>3
  <2>2. <<v, u>> \in Nat \X Nat /\ <<v, u>>[1] = v /\ <<v, u>>[2] = u
    BY <2>1
  <2>3. ~ (v < u)
    BY <2>1, <2>2
  <2> QED
    BY <2>1, <2>3
<1>5. PICK x \in T : u = n - x
  BY <1>3
<1>6. ASSUME NEW y \in T PROVE y <= x
  <2>1. n - y \in U
    OBVIOUS
  <2>2. u <= n - y /\ x \in Nat /\ y \in Nat
    BY <1>4, <2>1
  <2> QED
    BY <1>5, <2>2
<1> QED
  BY <1>5, <1>6

(* label_hypothesis returns an observation of the days it was given.       *)
LEMMA LabelTyped ==
  ASSUME NEW h \in Hypothesis, NEW from \in SUBSET Day
  PROVE  Label(h, from) \in Observation
<1> DEFINE later == {x \in from : x > h[1]}
           path == Oldest(later, Horizon)
<1>1. h[1] \in Day
  BY DateAssumption DEF Hypothesis
<1>2. path \in SUBSET Day
  BY DEF Oldest
<1>3. ComputedAt(h, later) \in Day
  <2>1. CASE later = {}
    BY <1>1, <2>1 DEF ComputedAt
  <2>2. CASE later # {}
    <3>1. later \in SUBSET (0..LastDay) /\ LastDay \in Nat
      <4>1. Day \subseteq 0..LastDay /\ LastDay \in Nat
        BY DayAssumption DEF Day
      <4> QED
        BY <4>1
    <3>2. \E x \in later : \A y \in later : y <= x
      BY <2>2, <3>1, GreatestExists
    <3>3. ComputedAt(h, later) = CHOOSE x \in later : \A y \in later : y <= x
      BY <2>2 DEF ComputedAt
    <3> HIDE DEF later
    <3>4. ComputedAt(h, later) \in later
      BY <3>2, <3>3
    <3> QED
      BY <3>4 DEF later
  <2> QED
    BY <2>1, <2>2
<1>4. Status(h, path) \in Open \cup Terminal
  BY DEF Status, Open, Terminal
<1>5. Label(h, from) = [path |-> path, at |-> ComputedAt(h, later), status |-> Status(h, path)]
  BY DEF Label
<1> HIDE DEF path, later
<1> QED
  BY <1>2, <1>3, <1>4, <1>5 DEF Observation

(* list_latest_observations returns a stored label.                        *)
LEMMA LatestTyped ==
  ASSUME labels \in [Hypothesis -> Seq(Observation)], NEW h \in Hypothesis
  PROVE  Latest(h) \in Observation \cup {None}
<1>1. CASE labels[h] = <<>>
  BY <1>1 DEF Latest
<1>2. CASE labels[h] # <<>>
  <2> DEFINE s == labels[h]
             rows == DOMAIN s
             newest == {i \in rows : \A j \in rows : s[j].at <= s[i].at}
             ats == {s[i].at : i \in rows}
  <2>1. /\ s \in Seq(Observation) /\ Len(s) \in Nat
        /\ rows = 1..Len(s) /\ rows # {}
        /\ \A i \in rows : s[i] \in Observation
    <3>1. s \in Seq(Observation) /\ s # <<>>
      BY <1>2
    <3> HIDE DEF s
    <3>2. Len(s) \in Nat /\ DOMAIN s = 1..Len(s) /\ Len(s) # 0
      BY <3>1
    <3>3. \A i \in 1..Len(s) : s[i] \in Observation
      BY <3>1
    <3>4. 1 \in 1..Len(s)
      BY <3>2
    <3> QED
      BY <3>1, <3>2, <3>3, <3>4
  <2>2. \A i \in rows : s[i].at \in Day
    BY <2>1 DEF Observation
  <2>3. ats \in SUBSET (0..LastDay) /\ ats # {} /\ LastDay \in Nat
    BY <2>1, <2>2, DayAssumption DEF Day
  <2> HIDE DEF s, rows
  <2>4. \E a \in ats : \A b \in ats : b <= a
    BY <2>3, GreatestExists
  <2>5. newest # {}
    BY <2>4
  <2>6. newest \in SUBSET (0..Len(s))
    BY <2>1
  <2> HIDE DEF newest
  <2>7. \E i \in newest : \A j \in newest : j <= i
    BY <2>1, <2>5, <2>6, GreatestExists
  <2>8. Latest(h) = s[CHOOSE i \in newest : \A j \in newest : j <= i]
    BY <1>2 DEF Latest, s, rows, newest
  <2>9. (CHOOSE i \in newest : \A j \in newest : j <= i) \in newest
    BY <2>7
  <2>10. newest \subseteq rows
    BY DEF newest
  <2> QED
    BY <2>1, <2>8, <2>9, <2>10
<1> QED
  BY <1>1, <1>2
-----------------------------------------------------------------------------
(* What a worker knows at each place of run_incremental.                   *)
Known ==
  \A w \in Workers :
    /\ pc[w] \in {"dataset", "hypotheses", "reading", "labelling", "measured"}
         => facts[w] \in Facts
    /\ pc[w] \in {"reading", "labelling"} => facts[w].selected # {}

Typed == TypeOK /\ Known

LEMMA InitTyped == Init => Typed
<1> SUFFICES ASSUME Init PROVE Typed
  OBVIOUS
<1>1. Unread \in [Hypothesis -> Observation \cup {None}]
  BY DEF Unread
<1>2. labels \in [Hypothesis -> Seq(Observation)]
  BY DEF Init
<1>3. /\ valid \in [Date -> 0..2] /\ basis \in [Hypothesis -> SUBSET Day]
      /\ pc \in [Workers -> Location] /\ facts \in [Workers -> Facts \cup {None}]
      /\ bars \in [Workers -> SUBSET Day] /\ dates \in [Workers -> SUBSET Date]
  BY DEF Init, Location
<1>4. /\ todo \in [Workers -> SUBSET Hypothesis]
      /\ listed \in [Workers -> SUBSET Hypothesis]
      /\ prior \in [Workers -> [Hypothesis -> Observation \cup {None}]]
  BY <1>1 DEF Init
<1>5. TypeOK
  BY <1>2, <1>3, <1>4 DEF Init, TypeOK
<1>6. Known
  BY DEF Init, Known
<1> QED
  BY <1>5, <1>6 DEF Typed

LEMMA ForgetTyped ==
  ASSUME Typed, NEW w \in Workers, Forget(w)
  PROVE  /\ facts' \in [Workers -> Facts \cup {None}]
         /\ bars' \in [Workers -> SUBSET Day]
         /\ dates' \in [Workers -> SUBSET Date]
         /\ todo' \in [Workers -> SUBSET Hypothesis]
         /\ listed' \in [Workers -> SUBSET Hypothesis]
         /\ prior' \in [Workers -> [Hypothesis -> Observation \cup {None}]]
         /\ \A v \in Workers \ {w} : facts'[v] = facts[v]
BY DEF Forget, Unread, Typed, TypeOK

(* A worker that goes to a place where it needs to know nothing.           *)
LEMMA EndTyped ==
  ASSUME Typed, NEW w \in Workers, Forget(w),
         NEW l \in {"idle", "waiting", "raised"}, Goto(w, l),
         UNCHANGED <<stored, valid, backfilled, datasets, frozen, basis, labels,
                     metrics, overlaps>>
  PROVE  Typed'
<1>1. pc' \in [Workers -> Location] /\ pc'[w] = l
      /\ \A v \in Workers \ {w} : pc'[v] = pc[v]
  BY DEF Typed, TypeOK, Goto, Location
<1>2. TypeOK'
  BY <1>1, ForgetTyped DEF Typed, TypeOK
<1>3. Known'
  BY <1>1, ForgetTyped DEF Typed, Known
<1> QED
  BY <1>2, <1>3 DEF Typed

LEMMA LatestOfTyped ==
  ASSUME TypeOK, NEW H \in SUBSET Hypothesis
  PROVE  [h \in Hypothesis |-> IF h \in H THEN Latest(h) ELSE None]
           \in [Hypothesis -> Observation \cup {None}]
BY LatestTyped DEF TypeOK

LEMMA ConflictsCounted ==
  Cardinality({d \in Date : valid[d] = 2}) \in Nat
<1>1. IsFiniteSet(1..LastDay)
  BY DayAssumption, FS_Interval
<1>2. IsFiniteSet({d \in Date : valid[d] = 2})
  BY <1>1, DateAssumption, FS_Subset DEF Day
<1> QED
  BY <1>2, FS_CardinalityType

LEMMA NewestDate ==
  ASSUME NEW D \in SUBSET Date, D # {}
  PROVE  (CHOOSE x \in D : \A y \in D : y <= x) \in Date
<1>1. D \in SUBSET (0..LastDay) /\ LastDay \in Nat
  <2>1. Day \subseteq 0..LastDay /\ LastDay \in Nat
    BY DayAssumption DEF Day
  <2> QED
    BY <2>1, DateAssumption
<1>2. \E x \in D : \A y \in D : y <= x
  BY <1>1, GreatestExists
<1> QED
  BY <1>2

(* Every step keeps the typing.                                            *)
LEMMA StepTyped == Typed /\ [Next]_vars => Typed'
<1> SUFFICES ASSUME Typed, [Next]_vars PROVE Typed'
  OBVIOUS
<1> USE DEF Typed
<1>1. ASSUME NEW day \in Day, StoreBars(day) PROVE Typed'
  BY <1>1 DEF TypeOK, Known, StoreBars, store, work
<1>2. ASSUME NEW d \in Date, PersistS8(d) PROVE Typed'
  <2>1. valid' \in [Date -> 0..2]
    <3>1. valid[d] \in 0..2 /\ valid[d] < 2
      BY <1>2 DEF TypeOK, PersistS8
    <3>2. valid[d] + 1 \in 0..2
      BY <3>1
    <3> QED
      BY <1>2, <3>2 DEF TypeOK, PersistS8
  <2> QED
    BY <1>2, <2>1 DEF TypeOK, Known, PersistS8, store, work
<1>3. ASSUME NEW w \in Workers, acquire_worker_lease(w) PROVE Typed'
  <2>1. overlaps' \in Nat
    BY <1>3 DEF TypeOK, acquire_worker_lease
  <2> QED
    BY <1>3, <2>1 DEF TypeOK, Known, acquire_worker_lease, Goto, Location, world, store
<1>4. ASSUME NEW w \in Workers, ReadInputs(w) PROVE Typed'
  <2> DEFINE known == [selected |-> {d \in Date : valid[d] = 1},
                       rejections |-> 2 * Cardinality({d \in Date : valid[d] = 2})]
  <2>1. known \in Facts
    BY ConflictsCounted DEF Facts
  <2>2. facts' = [facts EXCEPT ![w] = known]
    BY <1>4 DEF ReadInputs
  <2> HIDE DEF known
  <2>3. facts'[w] = known /\ facts' \in [Workers -> Facts \cup {None}]
        /\ known.selected \in SUBSET Date
    BY <2>1, <2>2 DEF TypeOK, Facts
  <2>4. /\ bars' = [bars EXCEPT ![w] = stored]
        /\ dates' = [dates EXCEPT ![w] = known.selected]
        /\ pc' = [pc EXCEPT ![w] = "dataset"]
        /\ UNCHANGED <<world, store, todo, listed, prior, overlaps>>
    BY <1>4, <2>3 DEF ReadInputs, Goto
  <2> QED
    BY <2>1, <2>2, <2>3, <2>4 DEF TypeOK, Known, Location, world, store
<1>5. ASSUME NEW w \in Workers, NEW d \in Date, persist_dataset_run(w, d) PROVE Typed'
  BY <1>5 DEF TypeOK, Known, persist_dataset_run, Goto, Location, world
<1>6. ASSUME NEW w \in Workers, NEW d \in Date, persist_hypotheses(w, d) PROVE Typed'
  <2>1. CASE /\ frozen' = frozen \cup HypothesesOf(d)
             /\ basis' = [h \in Hypothesis |->
                            IF h[1] = d THEN Basis(h, bars[w]) ELSE basis[h]]
             /\ dates' = [dates EXCEPT ![w] = @ \ {d}]
             /\ Goto(w, "dataset")
             /\ UNCHANGED <<facts, bars, todo, listed, prior>>
    <3>1. HypothesesOf(d) \subseteq Hypothesis
      BY DEF HypothesesOf
    <3>2. \A h \in Hypothesis : Basis(h, bars[w]) \in SUBSET Day
      BY DEF Basis, Newest, TypeOK
    <3>3. basis' \in [Hypothesis -> SUBSET Day]
      BY <2>1, <3>2 DEF TypeOK
    <3>4. UNCHANGED <<stored, valid, backfilled, datasets, labels, metrics, overlaps>>
          /\ pc[w] = "hypotheses"
      BY <1>6 DEF persist_hypotheses, world
    <3> QED
      BY <2>1, <3>1, <3>3, <3>4 DEF TypeOK, Known, Goto, Location
  <2>2. CASE Goto(w, "raised") /\ Forget(w) /\ UNCHANGED <<frozen, basis>>
    BY <1>6, <2>2, EndTyped DEF persist_hypotheses, world
  <2> QED
    BY <1>6, <2>1, <2>2 DEF persist_hypotheses
<1>7. ASSUME NEW w \in Workers, NoDataset(w) PROVE Typed'
  BY <1>7, EndTyped DEF NoDataset, world, store
<1>8. ASSUME NEW w \in Workers, list_hypotheses(w) PROVE Typed'
  BY <1>8 DEF TypeOK, Known, list_hypotheses, Goto, Location, world, store
<1>9. ASSUME NEW w \in Workers, list_latest_observations(w) PROVE Typed'
  <2>1. [h \in Hypothesis |-> IF h \in listed[w] THEN Latest(h) ELSE None]
          \in [Hypothesis -> Observation \cup {None}]
    BY LatestOfTyped DEF TypeOK
  <2> QED
    BY <1>9, <2>1 DEF TypeOK, Known, list_latest_observations, Goto, Location, world, store
<1>10. ASSUME NEW w \in Workers, NEW h \in Hypothesis, persist_observations(w, h)
       PROVE Typed'
  <2>1. BarsOf(w, h) \in SUBSET Day
    BY DEF BarsOf, TypeOK
  <2>2. Label(h, BarsOf(w, h)) \in Observation
    BY <2>1, LabelTyped
  <2>3. labels' \in [Hypothesis -> Seq(Observation)]
    <3>1. Append(labels[h], Label(h, BarsOf(w, h))) \in Seq(Observation)
      BY <2>2 DEF TypeOK
    <3> QED
      BY <1>10, <3>1 DEF TypeOK, persist_observations
  <2>4. prior' \in [Workers -> [Hypothesis -> Observation \cup {None}]]
    BY <1>10 DEF TypeOK, persist_observations
  <2> QED
    BY <1>10, <2>3, <2>4 DEF TypeOK, Known, persist_observations, world
<1>11. ASSUME NEW w \in Workers, persist_metric(w) PROVE Typed'
  <2> DEFINE d == CHOOSE x \in facts[w].selected : \A y \in facts[w].selected : y <= x
             of == [h \in Hypothesis |-> IF h \in listed[w] THEN Latest(h) ELSE None]
             metric == [dataset |-> d, labels |-> of, facts |-> facts[w]]
  <2>1. d \in Date
    BY <1>11, NewestDate DEF persist_metric, Known, Facts
  <2>2. of \in [Hypothesis -> Observation \cup {None}]
    BY LatestOfTyped DEF TypeOK
  <2>3. facts[w] \in Facts
    BY <1>11 DEF persist_metric, Known
  <2> HIDE DEF d, of
  <2>4. metric \in Metric
    BY <2>1, <2>2, <2>3 DEF Metric
  <2> HIDE DEF metric
  <2>5. CASE /\ metrics' = metrics \cup {metric}
             /\ Goto(w, "measured")
             /\ listed' = [listed EXCEPT ![w] = {}]
             /\ UNCHANGED <<facts, bars, dates, todo, prior>>
    BY <1>11, <2>3, <2>4, <2>5
    DEF persist_metric, TypeOK, Known, Goto, Location, world
  <2>6. CASE Goto(w, "raised") /\ Forget(w) /\ UNCHANGED metrics
    BY <1>11, <2>6, EndTyped DEF persist_metric, world
  <2> QED
    BY <1>11, <2>5, <2>6 DEF persist_metric, d, of, metric
<1>12. ASSUME NEW w \in Workers, release_worker_lease(w) PROVE Typed'
  BY <1>12, EndTyped DEF release_worker_lease, world, store
<1>13. ASSUME NEW w \in Workers, Crash(w) PROVE Typed'
  BY <1>13, EndTyped DEF Crash, world, store
<1>14. CASE UNCHANGED vars
  BY <1>14 DEF vars, world, store, work, TypeOK, Known
<1> QED
  BY <1>1, <1>2, <1>3, <1>4, <1>5, <1>6, <1>7, <1>8, <1>9, <1>10, <1>11, <1>12,
     <1>13, <1>14 DEF Next, WorkerStep

(* The state of the replay is well typed, through overlaps and crashes.    *)
THEOREM TypeCorrect == Spec => []TypeOK
<1>1. Spec => []Typed
  BY InitTyped, StepTyped, PTL DEF Spec
<1> QED
  BY <1>1, PTL DEF Typed
-----------------------------------------------------------------------------
(* Without an overlap one worker is at work, and what it has not labelled  *)
(* yet is as it read it.                                                   *)
Alone ==
  /\ \A v, w \in AtWork : v = w
  /\ \A w \in Workers : pc[w] = "labelling" =>
       \A h \in todo[w] : prior[w][h] = Latest(h)

ListedIsFrozen ==
  \A w \in Workers : listed[w] \subseteq frozen /\ todo[w] \subseteq listed[w]

LedgerInv == ListedIsFrozen /\ (overlaps = 0 => Alone)

LEMMA InitLedger == Init => LedgerInv
BY DEF Init, LedgerInv, ListedIsFrozen, Alone, AtWork

(* A label is stored for one hypothesis; the others keep their latest.     *)
LEMMA AppendIsLocal ==
  ASSUME Typed, NEW w \in Workers, NEW h \in Hypothesis, persist_observations(w, h),
         NEW g \in Hypothesis \ {h}
  PROVE  Latest(g)' = Latest(g)
<1>1. labels'[g] = labels[g]
  BY DEF persist_observations, Typed, TypeOK
<1> QED
  BY <1>1 DEF Latest

LEMMA LabelsStay ==
  ASSUME UNCHANGED labels
  PROVE  \A h \in Hypothesis : Latest(h)' = Latest(h) /\ VerdictOf(h)' = VerdictOf(h)
BY DEF Latest, VerdictOf

LEMMA StepLedger == Typed /\ LedgerInv /\ [Next]_vars => LedgerInv'
<1> SUFFICES ASSUME Typed, LedgerInv, [Next]_vars PROVE LedgerInv'
  OBVIOUS
<1> USE DEF LedgerInv
<1>1. ASSUME UNCHANGED <<store, work, overlaps>> PROVE LedgerInv'
  <2>1. UNCHANGED <<frozen, labels, pc, listed, todo, prior, overlaps>>
    BY <1>1 DEF store, work
  <2>2. ListedIsFrozen'
    BY <2>1 DEF ListedIsFrozen
  <2>3. AtWork' = AtWork
    BY <2>1 DEF AtWork
  <2>4. Alone => Alone'
    BY <2>1, <2>3, LabelsStay DEF Alone, Typed, TypeOK
  <2> QED
    BY <2>1, <2>2, <2>4
<1>2. ASSUME NEW w \in Workers, UNCHANGED <<frozen, labels, overlaps>>, Forget(w),
             NEW l \in {"idle", "waiting", "raised"}, Goto(w, l), pc[w] # "idle"
      PROVE LedgerInv'
  <2>1. /\ todo' = [todo EXCEPT ![w] = {}] /\ listed' = [listed EXCEPT ![w] = {}]
        /\ prior' = [prior EXCEPT ![w] = Unread] /\ pc' = [pc EXCEPT ![w] = l]
    BY <1>2 DEF Forget, Goto
  <2>2. ListedIsFrozen'
    BY <1>2, <2>1 DEF ListedIsFrozen, Typed, TypeOK
  <2>3. AtWork' \subseteq AtWork
    BY <1>2, <2>1 DEF AtWork, Typed, TypeOK
  <2>4. overlaps = 0 => Alone'
    BY <1>2, <2>1, <2>3, LabelsStay DEF Alone, Typed, TypeOK
  <2> QED
    BY <1>2, <2>2, <2>4
<1>3. ASSUME NEW w \in Workers, acquire_worker_lease(w) PROVE LedgerInv'
  <2>1. ListedIsFrozen'
    BY <1>3 DEF acquire_worker_lease, ListedIsFrozen, store
  <2>2. ASSUME overlaps' = 0 PROVE Alone'
    <3>1. overlaps = 0 /\ AtWork = {}
      BY <1>3, <2>2 DEF acquire_worker_lease, Typed, TypeOK
    <3>2. pc' = [pc EXCEPT ![w] = "begun"] /\ AtWork' = {w}
      BY <1>3, <3>1 DEF acquire_worker_lease, Goto, AtWork, Typed, TypeOK
    <3> QED
      BY <1>3, <3>2 DEF Alone, AtWork, Typed, TypeOK
  <2> QED
    BY <2>1, <2>2
<1>4. ASSUME NEW w \in Workers, pc[w] # "idle",
             NEW l \in {"dataset", "hypotheses", "reading", "measured"}, Goto(w, l),
             UNCHANGED <<labels, prior, overlaps>>, frozen \subseteq frozen',
             \/ UNCHANGED <<listed, todo>>
             \/ listed' = [listed EXCEPT ![w] = {}] /\ todo[w] = {} /\ todo' = todo
             \/ listed' = [listed EXCEPT ![w] = frozen] /\ todo' = [todo EXCEPT ![w] = frozen]
      PROVE LedgerInv'
  <2>1. ListedIsFrozen'
    BY <1>4 DEF ListedIsFrozen, Typed, TypeOK
  <2>2. AtWork' \subseteq AtWork
    BY <1>4 DEF AtWork, Goto, Typed, TypeOK
  <2>3. \A v \in Workers : pc'[v] = "labelling" =>
          v # w /\ pc[v] = "labelling" /\ todo'[v] = todo[v]
    BY <1>4 DEF Goto, Typed, TypeOK
  <2>4. overlaps = 0 => Alone'
    BY <1>4, <2>2, <2>3, LabelsStay DEF Alone, Typed, TypeOK
  <2> QED
    BY <1>4, <2>1, <2>4
<1>5. ASSUME NEW w \in Workers, ReadInputs(w) PROVE LedgerInv'
  BY <1>4, <1>5 DEF ReadInputs, store
<1>6. ASSUME NEW w \in Workers, NEW d \in Date, persist_dataset_run(w, d) PROVE LedgerInv'
  BY <1>4, <1>6 DEF persist_dataset_run
<1>7. ASSUME NEW w \in Workers, NEW d \in Date, persist_hypotheses(w, d) PROVE LedgerInv'
  <2>1. UNCHANGED <<labels, overlaps>> /\ pc[w] = "hypotheses"
    BY <1>7 DEF persist_hypotheses
  <2>2. CASE Goto(w, "raised") /\ Forget(w) /\ UNCHANGED <<frozen, basis>>
    BY <1>2, <2>1, <2>2
  <2>3. CASE /\ frozen' = frozen \cup HypothesesOf(d) /\ Goto(w, "dataset")
             /\ UNCHANGED <<facts, bars, todo, listed, prior>>
    BY <1>4, <2>1, <2>3
  <2> QED
    BY <1>7, <2>2, <2>3 DEF persist_hypotheses
<1>8. ASSUME NEW w \in Workers, NoDataset(w) PROVE LedgerInv'
  BY <1>2, <1>8 DEF NoDataset, store
<1>9. ASSUME NEW w \in Workers, list_hypotheses(w) PROVE LedgerInv'
  <2>1. listed' = [listed EXCEPT ![w] = frozen] /\ todo' = [todo EXCEPT ![w] = frozen]
    BY <1>9 DEF list_hypotheses, Typed, TypeOK
  <2> QED
    BY <1>4, <1>9, <2>1 DEF list_hypotheses, store
<1>10. ASSUME NEW w \in Workers, list_latest_observations(w) PROVE LedgerInv'
  <2>1. ListedIsFrozen'
    BY <1>10 DEF list_latest_observations, ListedIsFrozen, store
  <2>2. AtWork' = AtWork /\ UNCHANGED <<labels, overlaps>>
    BY <1>10 DEF list_latest_observations, store, AtWork, Goto, Typed, TypeOK
  <2>3. ASSUME overlaps = 0 PROVE Alone'
    <3>1. \A v \in Workers : pc'[v] = "labelling" => v = w
      BY <1>10, <2>2, <2>3 DEF list_latest_observations, Goto, Alone, AtWork, Typed, TypeOK
    <3>2. \A h \in listed[w] : prior'[w][h] = Latest(h)
      BY <1>10 DEF list_latest_observations, Typed, TypeOK
    <3> QED
      <4>1. \A h \in todo[w] : h \in Hypothesis /\ h \in listed[w]
        BY DEF ListedIsFrozen, Typed, TypeOK
      <4>2. todo' = todo
        BY <1>10 DEF list_latest_observations
      <4> QED
        BY <2>2, <2>3, <3>1, <3>2, <4>1, <4>2, LabelsStay DEF Alone
  <2> QED
    BY <2>1, <2>2, <2>3
<1>11. ASSUME NEW w \in Workers, NEW h \in Hypothesis, persist_observations(w, h)
       PROVE LedgerInv'
  <2>1. /\ todo' = [todo EXCEPT ![w] = @ \ {h}]
        /\ prior' = [prior EXCEPT ![w][h] = None]
        /\ UNCHANGED <<frozen, pc, listed, overlaps>> /\ pc[w] = "labelling"
    BY <1>11 DEF persist_observations
  <2>2. ListedIsFrozen'
    BY <2>1 DEF ListedIsFrozen, Typed, TypeOK
  <2>3. ASSUME overlaps = 0 PROVE Alone'
    <3>1. \A v \in Workers : pc[v] = "labelling" => v = w
      BY <2>1, <2>3 DEF Alone, AtWork
    <3>2. \A g \in todo'[w] : g \in Hypothesis \ {h} /\ g \in todo[w]
            /\ prior'[w][g] = prior[w][g] /\ Latest(g)' = Latest(g)
      BY <1>11, <2>1, AppendIsLocal DEF Typed, TypeOK
    <3> QED
      BY <2>1, <2>3, <3>1, <3>2 DEF Alone, AtWork
  <2> QED
    BY <2>1, <2>2, <2>3
<1>12. ASSUME NEW w \in Workers, persist_metric(w) PROVE LedgerInv'
  <2>1. UNCHANGED <<frozen, labels, overlaps>> /\ pc[w] = "labelling" /\ todo[w] = {}
    BY <1>12 DEF persist_metric
  <2>2. CASE /\ Goto(w, "measured") /\ listed' = [listed EXCEPT ![w] = {}]
             /\ UNCHANGED <<facts, bars, dates, todo, prior>>
    BY <1>4, <2>1, <2>2
  <2>3. CASE Goto(w, "raised") /\ Forget(w)
    BY <1>2, <2>1, <2>3
  <2> QED
    BY <1>12, <2>2, <2>3 DEF persist_metric
<1>13. ASSUME NEW w \in Workers, release_worker_lease(w) PROVE LedgerInv'
  BY <1>2, <1>13 DEF release_worker_lease, store
<1>14. ASSUME NEW w \in Workers, Crash(w) PROVE LedgerInv'
  BY <1>2, <1>14 DEF Crash, store, AtWork
<1>15. ASSUME NEW day \in Day, StoreBars(day) PROVE LedgerInv'
  BY <1>1, <1>15 DEF StoreBars
<1>16. ASSUME NEW d \in Date, PersistS8(d) PROVE LedgerInv'
  BY <1>1, <1>16 DEF PersistS8
<1>17. CASE UNCHANGED vars
  BY <1>1, <1>17 DEF vars
<1> QED
  BY <1>3, <1>5, <1>6, <1>7, <1>8, <1>9, <1>10, <1>11, <1>12, <1>13, <1>14, <1>15,
     <1>16, <1>17 DEF Next, WorkerStep

LEMMA InitImplements == Init => Ledger!Init
<1> SUFFICES ASSUME Init PROVE Ledger!Init
  OBVIOUS
<1>1. \A h \in Hypothesis : VerdictOf(h) = None
  BY DEF Init, VerdictOf, Latest, Decided
<1> QED
  BY <1>1 DEF Init, Ledger!Init

LatestStored == \A h \in Hypothesis : Latest(h) \in Observation \cup {None}

LEMMA TypedLatest == Typed => LatestStored
BY LatestTyped DEF Typed, TypeOK, LatestStored

(* Every step of the replay is a step of the ledger or leaves it alone.    *)
LEMMA StepImplements ==
  Typed /\ LatestStored' /\ LedgerInv /\ [Next]_vars
    => [Ledger!Next]_<<frozen, [h \in Hypothesis |-> VerdictOf(h)], overlaps = 0>>
<1> DEFINE verdict == [h \in Hypothesis |-> VerdictOf(h)]
           exclusive == (overlaps = 0)
<1> SUFFICES ASSUME Typed, LatestStored', LedgerInv, [Next]_vars
             PROVE  Ledger!Next \/ UNCHANGED <<frozen, verdict, exclusive>>
  OBVIOUS
<1>1. UNCHANGED labels => verdict' = verdict
  BY LabelsStay
<1>2. ASSUME UNCHANGED <<frozen, labels, overlaps>>
      PROVE UNCHANGED <<frozen, verdict, exclusive>>
  BY <1>1, <1>2
<1>3. ASSUME NEW w \in Workers, acquire_worker_lease(w)
      PROVE Ledger!Next \/ UNCHANGED <<frozen, verdict, exclusive>>
  <2>1. UNCHANGED <<frozen, labels>> /\ overlaps' \in {overlaps, overlaps + 1}
        /\ overlaps \in Nat
    BY <1>3 DEF acquire_worker_lease, store, Typed, TypeOK
  <2>2. exclusive' = exclusive \/ (exclusive /\ ~ exclusive')
    BY <2>1
  <2>3. CASE exclusive' = exclusive
    BY <1>1, <2>1, <2>3
  <2>4. CASE exclusive /\ ~ exclusive'
    <3>1. Ledger!Overlap
      BY <1>1, <2>1, <2>4 DEF Ledger!Overlap
    <3> QED
      BY <3>1 DEF Ledger!Next
  <2> QED
    BY <2>2, <2>3, <2>4
<1>4. ASSUME NEW w \in Workers, NEW d \in Date, persist_hypotheses(w, d)
      PROVE Ledger!Next \/ UNCHANGED <<frozen, verdict, exclusive>>
  <2>1. frozen \subseteq frozen' /\ UNCHANGED <<labels, overlaps>>
    BY <1>4 DEF persist_hypotheses
  <2>2. frozen' \subseteq Hypothesis
    BY <1>4 DEF persist_hypotheses, HypothesesOf, Typed, TypeOK
  <2>3. Ledger!Freeze
    BY <1>1, <2>1, <2>2 DEF Ledger!Freeze
  <2> QED
    BY <2>3 DEF Ledger!Next
<1>5. ASSUME NEW w \in Workers, NEW h \in Hypothesis, persist_observations(w, h)
      PROVE Ledger!Next \/ UNCHANGED <<frozen, verdict, exclusive>>
  <2>1. UNCHANGED <<frozen, overlaps>> /\ h \in todo[w] /\ pc[w] = "labelling"
    BY <1>5 DEF persist_observations
  <2>2. h \in frozen
    BY <2>1 DEF LedgerInv, ListedIsFrozen
  <2>3. \A g \in Hypothesis \ {h} : VerdictOf(g)' = VerdictOf(g)
    BY <1>5, AppendIsLocal DEF VerdictOf
  <2>4. VerdictOf(h)' \in Observation \cup {None}
    BY DEF VerdictOf, LatestStored
  <2>5. verdict' = [verdict EXCEPT ![h] = VerdictOf(h)'] /\ verdict'[h] = VerdictOf(h)'
        /\ verdict[h] = VerdictOf(h)
    BY <2>3
  <2>6. CASE ~ exclusive
    <3>1. Ledger!Settles(h, Observation \cup {None})
      BY <2>1, <2>2, <2>4, <2>5 DEF Ledger!Settles
    <3>2. Ledger!Redecide(h)
      BY <2>6, <3>1 DEF Ledger!Redecide
    <3> QED
      BY <3>2 DEF Ledger!Next
  <2>7. CASE exclusive /\ labels' # labels
    <3>1. prior[w][h] = Latest(h)
      BY <2>1, <2>7 DEF LedgerInv, Alone
    <3>2. ~ Decided(Latest(h))
      BY <1>5, <2>7, <3>1 DEF persist_observations, Skips
    <3>3. VerdictOf(h) = None
      BY <3>2 DEF VerdictOf
    <3>4. CASE VerdictOf(h)' = None
      <4>1. verdict' = verdict
        BY <2>3, <3>3, <3>4
      <4> QED
        BY <2>1, <4>1
    <3>5. CASE VerdictOf(h)' \in Observation
      <4>1. Ledger!Settles(h, Observation)
        BY <2>1, <2>2, <2>5, <3>5 DEF Ledger!Settles
      <4>2. Ledger!Decide(h)
        BY <2>5, <3>3, <4>1 DEF Ledger!Decide
      <4> QED
        BY <4>2 DEF Ledger!Next
    <3> QED
      BY <2>4, <3>4, <3>5
  <2>8. CASE labels' = labels
    BY <1>2, <2>1, <2>8
  <2> QED
    BY <2>6, <2>7, <2>8
<1>6. ASSUME NEW w \in Workers,
             \/ ReadInputs(w) \/ NoDataset(w) \/ list_hypotheses(w)
             \/ list_latest_observations(w) \/ release_worker_lease(w) \/ Crash(w)
      PROVE UNCHANGED <<frozen, verdict, exclusive>>
  BY <1>2, <1>6 DEF ReadInputs, NoDataset, list_hypotheses, list_latest_observations,
    release_worker_lease, Crash, store
<1>7. ASSUME NEW w \in Workers,
             persist_metric(w) \/ \E d \in Date : persist_dataset_run(w, d)
      PROVE UNCHANGED <<frozen, verdict, exclusive>>
  BY <1>2, <1>7 DEF persist_metric, persist_dataset_run
<1>8. ASSUME UNCHANGED vars \/ (\E day \in Day : StoreBars(day))
               \/ (\E d \in Date : PersistS8(d))
      PROVE UNCHANGED <<frozen, verdict, exclusive>>
  BY <1>2, <1>8 DEF StoreBars, PersistS8, vars, store
<1> QED
  BY <1>3, <1>4, <1>5, <1>6, <1>7, <1>8 DEF Next, WorkerStep

(* The replay implements the label ledger: what is labelled was frozen, and *)
(* without an overlap the first terminal label of a hypothesis stays        *)
(* (run_incremental).                                                       *)
THEOREM ReplayKeepsLedger == Spec => LedgerSpec
<1>1. Spec => [](Typed /\ LedgerInv)
  BY InitTyped, StepTyped, InitLedger, StepLedger, PTL DEF Spec
<1> QED
  BY <1>1, TypedLatest, InitImplements, StepImplements, PTL DEF Spec, LedgerSpec, Ledger!Spec
-----------------------------------------------------------------------------
(* What a label says of more bars.                                         *)
LaterOf(h, from) == {x \in from : x > h[1]}
PathOf(h, from) == Oldest(LaterOf(h, from), Horizon)

LEMMA LabelIs ==
  ASSUME NEW h, NEW from
  PROVE  /\ Label(h, from).path = PathOf(h, from)
         /\ Label(h, from).status = Status(h, PathOf(h, from))
         /\ Label(h, from).at = ComputedAt(h, LaterOf(h, from))
BY DEF Label, LaterOf, PathOf

LEMMA DaysCounted ==
  ASSUME NEW S \in SUBSET Day
  PROVE  IsFiniteSet(S) /\ Cardinality(S) \in Nat
<1>1. IsFiniteSet(1..LastDay)
  BY DayAssumption, FS_Interval
<1>2. IsFiniteSet(S)
  BY <1>1, FS_Subset DEF Day
<1> QED
  BY <1>2, FS_CardinalityType

LEMMA SubsetCounted ==
  ASSUME NEW S \in SUBSET Day, NEW T \in SUBSET S
  PROVE  Cardinality(T) <= Cardinality(S)
BY DaysCounted, FS_Subset

LEMMA DaysAreNumbers == Day \subseteq 0..LastDay /\ Day \subseteq Nat /\ LastDay \in Nat
BY DayAssumption DEF Day

(* label_computed_at is not before any of the later bars.                  *)
LEMMA AtIsNewest ==
  ASSUME NEW h \in Hypothesis, NEW from \in SUBSET Day
  PROVE  /\ Label(h, from).at \in Nat /\ h[1] \in Nat
         /\ LaterOf(h, from) = {} => Label(h, from).at = h[1]
         /\ LaterOf(h, from) # {} => Label(h, from).at \in LaterOf(h, from)
         /\ \A x \in LaterOf(h, from) : x <= Label(h, from).at
<1> DEFINE later == LaterOf(h, from)
<1>1. h[1] \in Nat
  BY DateAssumption, DaysAreNumbers DEF Hypothesis
<1>2. later \in SUBSET (0..LastDay)
  BY DaysAreNumbers DEF LaterOf
<1> HIDE DEF later
<1>3. later # {} => \E x \in later : \A y \in later : y <= x
  BY <1>2, DaysAreNumbers, GreatestExists
<1>4. Label(h, from).at = IF later = {} THEN h[1] ELSE CHOOSE x \in later : \A y \in later : y <= x
  BY LabelIs DEF ComputedAt, later
<1>5. later # {} => Label(h, from).at \in later /\ \A y \in later : y <= Label(h, from).at
  BY <1>3, <1>4
<1>6. later \subseteq Nat
  BY <1>2
<1> QED
  BY <1>1, <1>4, <1>5, <1>6 DEF later

Decides(h, from) == Label(h, from).status \in Terminal

LEMMA DecidesWhen ==
  ASSUME NEW h \in Hypothesis, NEW from \in SUBSET Day
  PROVE  Decides(h, from) <=>
           \/ ~ Ready(h)
           \/ /\ PathOf(h, from) # {}
              /\ \/ \E x \in PathOf(h, from) : x \in Exits /\
                      \E e \in PathOf(h, from) : e \in Enters /\ e <= x
                 \/ ~ (Cardinality(PathOf(h, from)) < Horizon)
<1> DEFINE path == PathOf(h, from)
           exit == {x \in path : x \in Exits /\ \E e \in {y \in path : y \in Enters} : e <= x}
<1>1. Label(h, from).status = Status(h, path)
  BY LabelIs
<1>2. exit # {} <=> \E x \in path : x \in Exits /\ \E e \in path : e \in Enters /\ e <= x
  OBVIOUS
<1> HIDE DEF path
<1>3. Status(h, path) \in Terminal <=>
        ~ Ready(h) \/ (path # {} /\ (exit # {} \/ ~ (Cardinality(path) < Horizon)))
  <2> HIDE DEF exit
  <2>1. Status(h, path) =
          CASE ~ Ready(h) -> "NO_GEOMETRY"
            [] Ready(h) /\ path = {} -> "NO_FORWARD_SESSION"
            [] Ready(h) /\ path # {} /\ exit # {} -> "RESOLVED"
            [] Ready(h) /\ path # {} /\ exit = {} /\ Cardinality(path) < Horizon -> "CENSORED"
            [] OTHER -> IF {x \in path : x \in Enters} = {} THEN "NO_ENTRY" ELSE "NO_HIT"
    BY DEF Status, exit
  <2>2. CASE ~ Ready(h)
    BY <2>1, <2>2 DEF Terminal
  <2>3. CASE Ready(h) /\ path = {}
    BY <2>1, <2>3 DEF Terminal
  <2>4. CASE Ready(h) /\ path # {} /\ exit # {}
    BY <2>1, <2>4 DEF Terminal
  <2>5. CASE Ready(h) /\ path # {} /\ exit = {} /\ Cardinality(path) < Horizon
    BY <2>1, <2>5 DEF Terminal
  <2>6. CASE Ready(h) /\ path # {} /\ exit = {} /\ ~ (Cardinality(path) < Horizon)
    <3>1. Status(h, path) \in {"NO_ENTRY", "NO_HIT"}
      BY <2>1, <2>6
    <3> QED
      BY <2>6, <3>1 DEF Terminal
  <2> QED
    BY <2>2, <2>3, <2>4, <2>5, <2>6
<1> QED
  BY <1>1, <1>2, <1>3 DEF Decides, path

(* The bars that were stored before: all their days are older.             *)
Prefix(B, D) == B \subseteq D /\ \A x \in B, y \in D \ B : x < y

(* Bars that arrive in the order of their days leave a path and a verdict  *)
(* as they are, or carry the path on.                                      *)
LEMMA PathGrows ==
  ASSUME NEW h \in Hypothesis, NEW B \in SUBSET Day, NEW D \in SUBSET Day, Prefix(B, D)
  PROVE  /\ PathOf(h, B) \subseteq PathOf(h, D)
         /\ Decides(h, B) => Decides(h, D) /\ Label(h, D).status = Label(h, B).status
<1> DEFINE before == LaterOf(h, B)
           after == LaterOf(h, D)
           P == PathOf(h, B)
           Q == PathOf(h, D)
           Older(S, x) == {y \in S : y < x}
<1>1. /\ before \subseteq after /\ after \subseteq Day /\ after \subseteq Nat
      /\ \A x \in before, y \in after \ before : x < y
  BY DaysAreNumbers DEF LaterOf, Prefix
<1>2. /\ P = {x \in before : Cardinality(Older(before, x)) < Horizon}
      /\ Q = {x \in after : Cardinality(Older(after, x)) < Horizon}
  BY DEF PathOf, Oldest
<1> HIDE DEF before, after, P, Q
<1>3. \A x \in before : Older(before, x) = Older(after, x)
  <2>1. ASSUME NEW x \in before, NEW y \in after, y < x PROVE y \in before
    <3>1. x \in Nat /\ y \in Nat
      BY <1>1
    <3> QED
      BY <1>1, <2>1, <3>1
  <2> QED
    BY <1>1, <2>1
<1>4. P \subseteq Q /\ Q \cap before \subseteq P
  BY <1>1, <1>2, <1>3
<1>5. ASSUME ~ (Cardinality(P) < Horizon) PROVE Q = P
  <2>1. ASSUME NEW x \in Q, x \notin before PROVE FALSE
    <3>1. P \subseteq Older(after, x) /\ Older(after, x) \subseteq Day
      BY <1>1, <1>2, <2>1
    <3>2. Cardinality(P) <= Cardinality(Older(after, x))
      BY <3>1, SubsetCounted
    <3>3. Cardinality(P) \in Nat /\ Cardinality(Older(after, x)) \in Nat
      BY <3>1, DaysCounted
    <3>4. Cardinality(Older(after, x)) < Horizon
      BY <1>2, <2>1
    <3> QED
      BY <1>5, <3>2, <3>3, <3>4, BoundAssumption
  <2> QED
    BY <1>4, <2>1
<1>6. ASSUME Decides(h, B)
      PROVE  Decides(h, D) /\ Label(h, D).status = Label(h, B).status
  <2>1. Label(h, B).status = Status(h, P) /\ Label(h, D).status = Status(h, Q)
    BY LabelIs DEF P, Q
  <2>2. CASE ~ Ready(h)
    <3>1. Status(h, P) = "NO_GEOMETRY" /\ Status(h, Q) = "NO_GEOMETRY"
      BY <2>2 DEF Status
    <3> QED
      BY <2>1, <3>1 DEF Decides, Terminal
  <2>3. CASE Ready(h) /\ ~ (Cardinality(P) < Horizon)
    BY <1>5, <1>6, <2>1, <2>3 DEF Decides
  <2>4. CASE Ready(h) /\ Cardinality(P) < Horizon
    <3>1. PICK x \in P : x \in Exits /\ \E e \in P : e \in Enters /\ e <= x
      BY <1>6, <2>4, DecidesWhen DEF P
    <3>2. Status(h, P) = "RESOLVED"
      BY <2>4, <3>1 DEF Status
    <3>3. Status(h, Q) = "RESOLVED"
      BY <1>4, <2>4, <3>1 DEF Status
    <3> QED
      BY <2>1, <3>2, <3>3 DEF Decides, Terminal
  <2> QED
    BY <2>2, <2>3, <2>4
<1> QED
  BY <1>4, <1>6 DEF P, Q

(* A label that is not older by its date has seen no less.                 *)
LEMMA NotOlderIsSame ==
  ASSUME NEW h \in Hypothesis, NEW B \in SUBSET Day, NEW D \in SUBSET Day, Prefix(B, D),
         Label(h, D).at <= Label(h, B).at
  PROVE  Label(h, D) = Label(h, B)
<1>1. LaterOf(h, B) \subseteq LaterOf(h, D)
  BY DEF LaterOf, Prefix
<1>2. ASSUME NEW y \in LaterOf(h, D), y \notin LaterOf(h, B) PROVE FALSE
  <2>1. y \in D \ B /\ y > h[1] /\ y \in Nat
    BY <1>2, DaysAreNumbers DEF LaterOf
  <2>2. y <= Label(h, D).at
    BY AtIsNewest
  <2>3. Label(h, B).at < y
    <3>1. CASE LaterOf(h, B) = {}
      BY <2>1, <3>1, AtIsNewest
    <3>2. CASE LaterOf(h, B) # {}
      <4>1. Label(h, B).at \in B
        BY <3>2, AtIsNewest DEF LaterOf
      <4> QED
        BY <2>1, <4>1 DEF Prefix
    <3> QED
      BY <3>1, <3>2
  <2> QED
    BY <2>1, <2>2, <2>3, AtIsNewest
<1>3. LaterOf(h, B) = LaterOf(h, D)
  BY <1>1, <1>2
<1> QED
  BY <1>3 DEF Label, LaterOf
-----------------------------------------------------------------------------
(* list_latest_observations returns a stored label with the latest date.   *)
NewestOf(s) ==
  LET rows == DOMAIN s
      newest == {i \in rows : \A j \in rows : s[j].at <= s[i].at}
  IN s[CHOOSE i \in newest : \A j \in newest : j <= i]

LEMMA NewestIsThere ==
  ASSUME NEW s \in Seq(Observation), s # <<>>
  PROVE  \E i \in DOMAIN s : NewestOf(s) = s[i] /\ \A j \in DOMAIN s : s[j].at <= s[i].at
<1> DEFINE rows == DOMAIN s
           newest == {i \in rows : \A j \in rows : s[j].at <= s[i].at}
           ats == {s[i].at : i \in rows}
<1>1. rows \in SUBSET (0..Len(s)) /\ Len(s) \in Nat /\ rows # {}
      /\ \A i \in rows : s[i] \in Observation
  <2>1. Len(s) \in Nat /\ DOMAIN s = 1..Len(s) /\ Len(s) # 0
    OBVIOUS
  <2>2. \A i \in 1..Len(s) : s[i] \in Observation
    OBVIOUS
  <2>3. 1 \in 1..Len(s)
    BY <2>1
  <2> QED
    BY <2>1, <2>2, <2>3
<1>2. ats \in SUBSET (0..LastDay) /\ ats # {}
  BY <1>1, DaysAreNumbers DEF Observation
<1> HIDE DEF rows
<1>3. \E a \in ats : \A b \in ats : b <= a
  BY <1>2, DaysAreNumbers, GreatestExists
<1>4. newest # {} /\ newest \in SUBSET (0..Len(s))
  BY <1>1, <1>3
<1>5. newest \subseteq rows /\ \A i \in newest : \A j \in rows : s[j].at <= s[i].at
  OBVIOUS
<1> HIDE DEF newest
<1>6. \E i \in newest : \A j \in newest : j <= i
  BY <1>1, <1>4, GreatestExists
<1>7. NewestOf(s) = s[CHOOSE i \in newest : \A j \in newest : j <= i]
  BY DEF NewestOf, rows, newest
<1>8. (CHOOSE i \in newest : \A j \in newest : j <= i) \in newest
  BY <1>6
<1> QED
  BY <1>5, <1>7, <1>8 DEF rows

LEMMA LatestIsNewest ==
  ASSUME labels \in [Hypothesis -> Seq(Observation)], NEW h \in Hypothesis
  PROVE  /\ labels[h] = <<>> => Latest(h) = None
         /\ labels[h] # <<>> => \E i \in DOMAIN labels[h] :
              /\ Latest(h) = labels[h][i]
              /\ \A j \in DOMAIN labels[h] : labels[h][j].at <= labels[h][i].at
<1>1. Latest(h) = IF labels[h] = <<>> THEN None ELSE NewestOf(labels[h])
  BY DEF Latest, NewestOf
<1>2. labels[h] \in Seq(Observation)
  OBVIOUS
<1>3. labels[h] # <<>> => \E i \in DOMAIN labels[h] :
        NewestOf(labels[h]) = labels[h][i] /\ \A j \in DOMAIN labels[h] : labels[h][j].at <= labels[h][i].at
  BY <1>2, NewestIsThere
<1> QED
  BY <1>1, <1>3

LEMMA LatestIsNewestNext ==
  ASSUME labels' \in [Hypothesis -> Seq(Observation)], NEW h \in Hypothesis
  PROVE  labels'[h] # <<>> => \E i \in DOMAIN labels'[h] :
           /\ Latest(h)' = labels'[h][i]
           /\ \A j \in DOMAIN labels'[h] : labels'[h][j].at <= labels'[h][i].at
<1>1. labels'[h] # <<>> => Latest(h)' = NewestOf(labels'[h])
  BY DEF Latest, NewestOf
<1>2. labels'[h] \in Seq(Observation)
  OBVIOUS
<1>3. labels'[h] # <<>> => \E i \in DOMAIN labels'[h] :
        /\ NewestOf(labels'[h]) = labels'[h][i]
        /\ \A j \in DOMAIN labels'[h] : labels'[h][j].at <= labels'[h][i].at
  BY <1>2, NewestIsThere
<1> QED
  BY <1>1, <1>3

(* The bars that ever were read, by workers of the present and of labels.  *)
Read(C) ==
  /\ {} \in C
  /\ \A w \in Workers : bars[w] \in C
  /\ \A B \in C : B \subseteq stored /\ (~ backfilled => Prefix(B, stored))
  /\ \A B, D \in C : B \subseteq D \/ D \subseteq B
  /\ \A h \in Hypothesis : \A i \in DOMAIN labels[h] :
       \E B \in C : labels[h][i] = Label(h, B)

HistoryInv ==
  /\ \E C : Read(C)
  /\ \A h \in Hypothesis : labels[h] # <<>> => h \in frozen
  /\ \A w \in Workers, h \in Hypothesis : prior[w][h] # None =>
       \E i \in DOMAIN labels[h] : labels[h][i] = prior[w][h]

LEMMA InitHistory == Init => HistoryInv
<1> SUFFICES ASSUME Init PROVE HistoryInv
  OBVIOUS
<1>1. \A w \in Workers : bars[w] = {}
  BY DEF Init
<1>2. \A h \in Hypothesis : labels[h] = <<>> /\ DOMAIN labels[h] = {}
  BY DEF Init
<1>3. \A w \in Workers, h \in Hypothesis : prior[w][h] = None
  BY DEF Init, Unread
<1>4. stored = {}
  BY DEF Init
<1>5. Read({{}})
  BY <1>1, <1>2, <1>4 DEF Read, Prefix
<1> QED
  BY <1>2, <1>3, <1>5 DEF HistoryInv

(* A frozen hypothesis keeps its geometry, or the run raised.              *)
LEMMA BasisStays ==
  ASSUME Typed, [Next]_vars
  PROVE  frozen \subseteq frozen' /\ \A h \in frozen : basis'[h] = basis[h]
<1>1. ASSUME NEW w \in Workers, NEW d \in Date, persist_hypotheses(w, d)
      PROVE  frozen \subseteq frozen' /\ \A h \in frozen : basis'[h] = basis[h]
  <2>1. CASE UNCHANGED <<frozen, basis>>
    BY <2>1
  <2>2. CASE /\ \A h \in HypothesesOf(d) \cap frozen : basis[h] = Basis(h, bars[w])
             /\ frozen' = frozen \cup HypothesesOf(d)
             /\ basis' = [h \in Hypothesis |->
                            IF h[1] = d THEN Basis(h, bars[w]) ELSE basis[h]]
    BY <2>2 DEF HypothesesOf, Typed, TypeOK
  <2> QED
    BY <1>1, <2>1, <2>2 DEF persist_hypotheses
<1>2. ASSUME UNCHANGED <<frozen, basis>>
      PROVE  frozen \subseteq frozen' /\ \A h \in frozen : basis'[h] = basis[h]
  BY <1>2
<1>3. ASSUME NEW w \in Workers,
             \/ acquire_worker_lease(w) \/ ReadInputs(w) \/ NoDataset(w) \/ list_hypotheses(w)
             \/ list_latest_observations(w) \/ release_worker_lease(w) \/ Crash(w)
      PROVE  UNCHANGED <<frozen, basis>>
  BY <1>3 DEF acquire_worker_lease, ReadInputs, NoDataset, list_hypotheses,
    list_latest_observations, release_worker_lease, Crash, store
<1>4. ASSUME NEW w \in Workers,
             \/ persist_metric(w) \/ \E d \in Date : persist_dataset_run(w, d)
             \/ \E h \in Hypothesis : persist_observations(w, h)
      PROVE  UNCHANGED <<frozen, basis>>
  BY <1>4 DEF persist_metric, persist_dataset_run, persist_observations
<1>5. ASSUME UNCHANGED vars \/ (\E day \in Day : StoreBars(day)) \/ (\E d \in Date : PersistS8(d))
      PROVE  UNCHANGED <<frozen, basis>>
  BY <1>5 DEF StoreBars, PersistS8, vars, store
<1> QED
  BY <1>1, <1>2, <1>3, <1>4, <1>5 DEF Next, WorkerStep

LEMMA LabelStays ==
  ASSUME NEW h, basis'[h] = basis[h], NEW from
  PROVE  Label(h, from)' = Label(h, from)
BY DEF Label, Status, ComputedAt, Ready, Oldest

(* Steps that store no bar and no label: a worker reads all that is stored *)
(* or forgets.                                                             *)
LEMMA HistoryKept ==
  ASSUME Typed, HistoryInv, UNCHANGED <<stored, backfilled, labels>>,
         frozen \subseteq frozen', \A h \in frozen : basis'[h] = basis[h],
         \A w \in Workers : bars'[w] \in {bars[w], {}, stored},
         \A w \in Workers, h \in Hypothesis : prior'[w][h] \in {prior[w][h], None}
  PROVE  HistoryInv'
<1>1. PICK C : Read(C)
  BY DEF HistoryInv
<1> DEFINE D == C \cup {stored}
<1>2. {} \in D /\ \A w \in Workers : bars'[w] \in D
  BY <1>1 DEF Read
<1>3. \A B \in D : B \subseteq stored /\ (~ backfilled => Prefix(B, stored))
  BY <1>1 DEF Read, Prefix
<1>4. \A A, B \in D : A \subseteq B \/ B \subseteq A
  BY <1>1 DEF Read
<1>5. ASSUME NEW h \in Hypothesis, NEW i \in DOMAIN labels'[h]
      PROVE  \E B \in D : labels'[h][i] = Label(h, B)'
  <2>1. PICK B \in C : labels[h][i] = Label(h, B)
    BY <1>1, <1>5 DEF Read
  <2>2. h \in frozen
    <3>1. labels[h] # <<>>
      BY <1>5
    <3> QED
      BY <3>1 DEF HistoryInv
  <2>3. Label(h, B)' = Label(h, B)
    BY <2>2, LabelStays
  <2> QED
    BY <2>1, <2>3
<1>6. Read(D)'
  BY <1>2, <1>3, <1>4, <1>5 DEF Read, Prefix
<1> QED
  BY <1>6 DEF HistoryInv

LEMMA StoreBarsHistory ==
  ASSUME Typed, HistoryInv, NEW day \in Day, StoreBars(day)
  PROVE  HistoryInv'
<1>1. PICK C : Read(C)
  BY DEF HistoryInv
<1>2. UNCHANGED <<frozen, basis, labels, bars, prior>>
  BY DEF StoreBars, store, work
<1>3. stored' = stored \cup {day} /\ (~ backfilled' => ~ backfilled /\ \A x \in stored : x < day)
  <2>1. ASSUME ~ backfilled', NEW x \in stored PROVE x < day
    <3>1. x \in Nat /\ day \in Nat /\ x # day /\ ~ (day < x)
      BY <2>1, DaysAreNumbers DEF StoreBars, Typed, TypeOK
    <3> QED
      BY <3>1
  <2> QED
    BY <2>1 DEF StoreBars
<1>4. \A B \in C : B \subseteq stored' /\ (~ backfilled' => Prefix(B, stored'))
  BY <1>1, <1>3 DEF Read, Prefix
<1>5. \A h \in Hypothesis, B \in C : Label(h, B)' = Label(h, B)
  BY <1>2, LabelStays
<1>6. Read(C)'
  BY <1>1, <1>2, <1>4, <1>5 DEF Read, Prefix
<1> QED
  BY <1>2, <1>6 DEF HistoryInv

LEMMA ListLatestHistory ==
  ASSUME Typed, HistoryInv, NEW w \in Workers, list_latest_observations(w)
  PROVE  HistoryInv'
<1>1. UNCHANGED <<stored, backfilled, frozen, basis, labels, bars>>
  BY DEF list_latest_observations, world, store
<1>2. PICK C : Read(C)
  BY DEF HistoryInv
<1>3. \A h \in Hypothesis, B \in C : Label(h, B)' = Label(h, B)
  BY <1>1, LabelStays
<1>4. Read(C)'
  BY <1>1, <1>2, <1>3 DEF Read, Prefix
<1>5. ASSUME NEW v \in Workers, NEW h \in Hypothesis, prior'[v][h] # None
      PROVE  \E i \in DOMAIN labels[h] : labels[h][i] = prior'[v][h]
  <2>1. CASE v = w
    <3>1. prior'[v][h] = Latest(h)
      BY <1>5, <2>1 DEF list_latest_observations, Typed, TypeOK
    <3> QED
      BY <1>5, <3>1, LatestIsNewest DEF Typed, TypeOK
  <2>2. CASE v # w
    BY <1>5, <2>2 DEF list_latest_observations, HistoryInv, Typed, TypeOK
  <2> QED
    BY <2>1, <2>2
<1> QED
  BY <1>1, <1>4, <1>5 DEF HistoryInv

(* The label a worker computes, and what becomes of the stored ones.       *)
LEMMA Appends ==
  ASSUME Typed, NEW w \in Workers, NEW h \in Hypothesis, persist_observations(w, h)
  PROVE  /\ UNCHANGED <<stored, backfilled, frozen, basis, bars, facts, dates, listed, pc, overlaps>>
         /\ \A g \in Hypothesis \ {h} : labels'[g] = labels[g]
         /\ \A i \in DOMAIN labels[h] : i \in DOMAIN labels'[h] /\ labels'[h][i] = labels[h][i]
         /\ \A i \in DOMAIN labels'[h] :
              i \in DOMAIN labels[h] \/ labels'[h][i] = Label(h, BarsOf(w, h))
         /\ labels' = labels \/ ~ Skips(w, h)
         /\ Skips(w, h) \/ \E i \in DOMAIN labels'[h] : labels'[h][i] = Label(h, BarsOf(w, h))
<1> DEFINE label == Label(h, BarsOf(w, h))
           known == \E i \in DOMAIN labels[h] : labels[h][i] = label
<1>1. UNCHANGED <<stored, backfilled, frozen, basis, bars, facts, dates, listed, pc, overlaps>>
  BY DEF persist_observations, world
<1>2. labels' = IF Skips(w, h) \/ known THEN labels
                ELSE [labels EXCEPT ![h] = Append(labels[h], label)]
  BY DEF persist_observations
<1>3. CASE Skips(w, h) \/ known
  BY <1>1, <1>2, <1>3
<1>4. CASE ~ (Skips(w, h) \/ known)
  <2>1. labels'[h] = Append(labels[h], label) /\ \A g \in Hypothesis \ {h} : labels'[g] = labels[g]
    BY <1>2, <1>4 DEF Typed, TypeOK
  <2>2. labels[h] \in Seq(Observation) /\ Len(labels[h]) \in Nat
        /\ DOMAIN labels[h] = 1..Len(labels[h])
    BY DEF Typed, TypeOK
  <2>3. label \in Observation
    BY LabelTyped DEF BarsOf, Typed, TypeOK
  <2> HIDE DEF label
  <2>4. /\ DOMAIN labels'[h] = 1..Len(labels[h]) + 1
        /\ \A i \in 1..Len(labels[h]) : labels'[h][i] = labels[h][i]
        /\ labels'[h][Len(labels[h]) + 1] = label
    BY <2>1, <2>2, <2>3
  <2> QED
    BY <1>1, <1>4, <2>1, <2>2, <2>4 DEF label
<1> QED
  BY <1>3, <1>4

LEMMA AppendHistory ==
  ASSUME Typed, LedgerInv, HistoryInv, NEW w \in Workers, NEW h \in Hypothesis,
         persist_observations(w, h)
  PROVE  HistoryInv'
<1>1. PICK C : Read(C)
  BY DEF HistoryInv
<1>2. BarsOf(w, h) \in C
  BY <1>1 DEF Read, BarsOf
<1>3. \A g \in Hypothesis, B \in C : Label(g, B)' = Label(g, B)
  BY Appends, LabelStays
<1>4. ASSUME NEW g \in Hypothesis, NEW i \in DOMAIN labels'[g]
      PROVE  \E B \in C : labels'[g][i] = Label(g, B)
  <2>1. CASE g = h /\ i \notin DOMAIN labels[h]
    BY <1>2, <1>4, <2>1, Appends
  <2>2. CASE i \in DOMAIN labels[g]
    BY <1>1, <1>4, <2>2, Appends DEF Read
  <2> QED
    BY <1>4, <2>1, <2>2, Appends
<1>5. Read(C)'
  BY <1>1, <1>3, <1>4, Appends DEF Read, Prefix
<1>6. h \in frozen
  BY DEF persist_observations, LedgerInv, ListedIsFrozen
<1>7. \A g \in Hypothesis : labels'[g] # <<>> => g \in frozen
  BY <1>6, Appends DEF HistoryInv
<1>8. ASSUME NEW v \in Workers, NEW g \in Hypothesis, prior'[v][g] # None
      PROVE  \E i \in DOMAIN labels'[g] : labels'[g][i] = prior'[v][g]
  <2>1. prior'[v][g] = prior[v][g]
    BY <1>8 DEF persist_observations, Typed, TypeOK
  <2>2. PICK i \in DOMAIN labels[g] : labels[g][i] = prior[v][g]
    BY <1>8, <2>1 DEF HistoryInv
  <2> QED
    BY <2>1, <2>2, Appends
<1> QED
  BY <1>5, <1>7, <1>8, Appends DEF HistoryInv

LEMMA StepHistory == Typed /\ LedgerInv /\ HistoryInv /\ [Next]_vars => HistoryInv'
<1> SUFFICES ASSUME Typed, LedgerInv, HistoryInv, [Next]_vars PROVE HistoryInv'
  OBVIOUS
<1>1. ASSUME NEW w \in Workers, Forget(w), UNCHANGED <<stored, backfilled, labels>>
      PROVE  HistoryInv'
  <2>1. \A v \in Workers : bars'[v] \in {bars[v], {}}
    BY <1>1 DEF Forget, Typed, TypeOK
  <2>2. \A v \in Workers, h \in Hypothesis : prior'[v][h] \in {prior[v][h], None}
    BY <1>1 DEF Forget, Unread, Typed, TypeOK
  <2> QED
    BY <1>1, <2>1, <2>2, BasisStays, HistoryKept
<1>2. ASSUME UNCHANGED <<stored, backfilled, labels, bars, prior>> PROVE HistoryInv'
  BY <1>2, BasisStays, HistoryKept
<1>3. ASSUME NEW w \in Workers, ReadInputs(w) PROVE HistoryInv'
  <2>1. UNCHANGED <<stored, backfilled, labels, prior>> /\ \A v \in Workers : bars'[v] \in {bars[v], stored}
    BY <1>3 DEF ReadInputs, world, store, Typed, TypeOK
  <2> QED
    BY <2>1, BasisStays, HistoryKept
<1>4. ASSUME NEW w \in Workers, NEW d \in Date, persist_hypotheses(w, d) PROVE HistoryInv'
  BY <1>1, <1>2, <1>4 DEF persist_hypotheses, world
<1>5. ASSUME NEW w \in Workers, persist_metric(w) PROVE HistoryInv'
  BY <1>1, <1>2, <1>5 DEF persist_metric, world
<1>6. ASSUME NEW w \in Workers, NoDataset(w) \/ release_worker_lease(w) \/ Crash(w) PROVE HistoryInv'
  BY <1>1, <1>6 DEF NoDataset, release_worker_lease, Crash, world, store
<1>7. ASSUME NEW w \in Workers,
             \/ acquire_worker_lease(w) \/ list_hypotheses(w)
             \/ \E d \in Date : persist_dataset_run(w, d)
      PROVE  HistoryInv'
  BY <1>2, <1>7 DEF acquire_worker_lease, list_hypotheses, persist_dataset_run, world, store
<1>8. ASSUME NEW d \in Date, PersistS8(d) PROVE HistoryInv'
  BY <1>2, <1>8 DEF PersistS8, store, work
<1>9. CASE UNCHANGED vars
  BY <1>2, <1>9 DEF vars, world, store, work
<1> QED
  BY <1>3, <1>4, <1>5, <1>6, <1>7, <1>8, <1>9, StoreBarsHistory, ListLatestHistory,
     AppendHistory DEF Next, WorkerStep
-----------------------------------------------------------------------------
(* Two labels of bars that were read while none arrived late.              *)
LEMMA TwoLabels ==
  ASSUME Typed, ~ backfilled, NEW C, Read(C), NEW h \in Hypothesis,
         NEW B \in C, NEW D \in C, Label(h, B).at <= Label(h, D).at
  PROVE  /\ Label(h, B).path \subseteq Label(h, D).path
         /\ Decides(h, B) => Label(h, D).status = Label(h, B).status
<1>1. B \in SUBSET Day /\ D \in SUBSET Day /\ Prefix(B, stored) /\ Prefix(D, stored)
  BY DEF Read, Typed, TypeOK
<1>2. CASE B \subseteq D
  <2>1. Prefix(B, D)
    BY <1>1, <1>2 DEF Prefix
  <2> QED
    BY <1>1, <2>1, PathGrows, LabelIs
<1>3. CASE D \subseteq B
  <2>1. Prefix(D, B)
    BY <1>1, <1>3 DEF Prefix
  <2>2. Label(h, B) = Label(h, D)
    BY <1>1, <2>1, NotOlderIsSame
  <2> QED
    BY <2>2
<1> QED
  BY <1>2, <1>3 DEF Read

(* The latest label after a step is not older than the one before.         *)
LEMMA LatestMovesOn ==
  ASSUME Typed, Typed', NEW w \in Workers, NEW h \in Hypothesis, persist_observations(w, h),
         NEW g \in Hypothesis, Latest(g) # None
  PROVE  /\ Latest(g)' # None /\ Latest(g).at <= Latest(g)'.at
         /\ Latest(g).at \in Nat /\ Latest(g)'.at \in Nat
<1>1. labels[g] # <<>> /\ \E i \in DOMAIN labels[g] : Latest(g) = labels[g][i]
  BY LatestIsNewest DEF Typed, TypeOK
<1>2. PICK i \in DOMAIN labels[g] : Latest(g) = labels[g][i]
  BY <1>1
<1>3. i \in DOMAIN labels'[g] /\ labels'[g][i] = Latest(g)
  BY <1>2, Appends
<1>4. labels'[g] # <<>>
  BY <1>3
<1>5. \E k \in DOMAIN labels'[g] :
        Latest(g)' = labels'[g][k] /\ \A j \in DOMAIN labels'[g] : labels'[g][j].at <= labels'[g][k].at
  BY <1>4, LatestIsNewestNext DEF Typed, TypeOK
<1>6. Latest(g)' \in Observation /\ Latest(g) \in Observation
  BY <1>1, <1>5 DEF Typed, TypeOK
<1> QED
  BY <1>3, <1>5, <1>6, NoneAssumption, DaysAreNumbers DEF Observation

LEMMA LatestWasRead ==
  ASSUME Typed, NEW C, Read(C), NEW h \in Hypothesis, Latest(h) # None
  PROVE  \E B \in C : Latest(h) = Label(h, B)
<1>1. labels[h] # <<>>
  BY DEF Latest
<1>2. \E i \in DOMAIN labels[h] :
        Latest(h) = labels[h][i] /\ \A j \in DOMAIN labels[h] : labels[h][j].at <= labels[h][i].at
  BY <1>1, LatestIsNewest DEF Typed, TypeOK
<1>3. PICK i \in DOMAIN labels[h] : Latest(h) = labels[h][i]
  BY <1>2
<1>4. \E B \in C : labels[h][i] = Label(h, B)
  BY DEF Read
<1> QED
  BY <1>3, <1>4

LEMMA LatestGrows ==
  ASSUME Typed, Typed', HistoryInv, ~ backfilled, NEW w \in Workers, NEW h \in Hypothesis,
         persist_observations(w, h), NEW g \in Hypothesis, Latest(g) # None
  PROVE  /\ Latest(g).path \subseteq Latest(g)'.path
         /\ Decided(Latest(g)) => Latest(g)'.status = Latest(g).status
<1>1. PICK C : Read(C)
  BY DEF HistoryInv
<1>2. CASE g # h
  BY <1>2, AppendIsLocal
<1>3. CASE g = h
  <2>1. PICK B \in C : Latest(h) = Label(h, B)
    BY <1>1, <1>3, LatestWasRead
  <2>2. Latest(h)' # None /\ Latest(h).at <= Latest(h)'.at
    BY <1>3, LatestMovesOn
  <2>3. PICK k \in DOMAIN labels'[h] : Latest(h)' = labels'[h][k]
    <3>1. labels'[h] # <<>>
      BY <2>2 DEF Latest
    <3>2. \E k \in DOMAIN labels'[h] :
            Latest(h)' = labels'[h][k] /\ \A j \in DOMAIN labels'[h] : labels'[h][j].at <= labels'[h][k].at
      BY <3>1, LatestIsNewestNext DEF Typed, TypeOK
    <3> QED
      BY <3>2
  <2>4. \E D \in C : Latest(h)' = Label(h, D)
    <3>1. BarsOf(w, h) \in C
      BY <1>1 DEF Read, BarsOf
    <3> QED
      BY <1>1, <2>3, <3>1, Appends DEF Read
  <2> QED
    BY <1>1, <1>3, <2>1, <2>2, <2>4, TwoLabels DEF Decided, Decides
<1> QED
  BY <1>2, <1>3

ReplayInv == Typed /\ LedgerInv /\ HistoryInv

LEMMA ReplayInvariant == Spec => []ReplayInv
BY InitTyped, StepTyped, InitLedger, StepLedger, InitHistory, StepHistory, PTL DEF Spec, ReplayInv

(* While the bars arrive in the order of their days the label that is      *)
(* returned never loses a session or a verdict, for any number of workers  *)
(* whose leases expired, any horizon and any geometry.                     *)
THEOREM PathsGrow == Spec => LatestPathGrows
<1>1. ReplayInv /\ Typed' /\ [Next]_vars =>
        [~ backfilled' => \A h \in Hypothesis : Latest(h) # None =>
           /\ Latest(h).path \subseteq Latest(h)'.path
           /\ Decided(Latest(h)) => Latest(h)'.status = Latest(h).status]_vars
  <2> SUFFICES ASSUME ReplayInv, Typed', [Next]_vars, ~ backfilled',
                      NEW h \in Hypothesis, Latest(h) # None
               PROVE  /\ Latest(h).path \subseteq Latest(h)'.path
                      /\ Decided(Latest(h)) => Latest(h)'.status = Latest(h).status
    OBVIOUS
  <2>1. CASE UNCHANGED labels
    BY <2>1, LabelsStay
  <2>2. ASSUME NEW w \in Workers, NEW g \in Hypothesis, persist_observations(w, g)
        PROVE  /\ Latest(h).path \subseteq Latest(h)'.path
               /\ Decided(Latest(h)) => Latest(h)'.status = Latest(h).status
    BY <2>2, Appends, LatestGrows DEF ReplayInv
  <2>3. UNCHANGED labels \/ \E w \in Workers, g \in Hypothesis : persist_observations(w, g)
    BY DEF Next, WorkerStep, StoreBars, PersistS8, acquire_worker_lease, ReadInputs,
      persist_dataset_run, persist_hypotheses, NoDataset, list_hypotheses,
      list_latest_observations, persist_metric, release_worker_lease, Crash, vars, store
  <2> QED
    BY <2>1, <2>2, <2>3
<1>2. ReplayInv => Typed
  BY DEF ReplayInv
<1> QED
  BY <1>1, <1>2, ReplayInvariant, PTL DEF Spec, LatestPathGrows
-----------------------------------------------------------------------------
(* What a worker leaves behind at each of its locations.                   *)
Selected(w) == {h \in Hypothesis : h[1] \in facts[w].selected}

Good == ~ (backfilled /\ overlaps > 0)

Covered(w, h) ==
  /\ Latest(h) # None
  /\ Decided(Latest(h)) \/ Latest(h).at >= Label(h, bars[w]).at

WholeAt(w) ==
  /\ pc[w] \in {"dataset", "hypotheses"} =>
       \A h \in Selected(w) : h[1] \in dates[w] \/ h \in frozen
  /\ pc[w] \in {"reading", "labelling"} => Selected(w) \subseteq listed[w]
  /\ pc[w] = "reading" => todo[w] = listed[w]
  /\ pc[w] = "labelling" /\ Good => \A h \in Selected(w) : h \in todo[w] \/ Covered(w, h)
  /\ pc[w] = "measured" => \A h \in Selected(w) : h \in frozen /\ (Good => Covered(w, h))

WholeInv == \A w \in Workers : WholeAt(w)

(* A worker that does nothing itself keeps what it has done.               *)
LEMMA WholeKept ==
  ASSUME NEW w \in Workers, WholeAt(w), Good' => Good, frozen \subseteq frozen',
         UNCHANGED <<pc[w], facts[w], bars[w], dates[w], listed[w], todo[w]>>,
         Good' => \A h \in Hypothesis : Covered(w, h) => Covered(w, h)'
  PROVE  WholeAt(w)'
<1>1. Selected(w)' = Selected(w) /\ Selected(w) \subseteq Hypothesis
  BY DEF Selected
<1>2. pc'[w] = pc[w] /\ dates'[w] = dates[w] /\ listed'[w] = listed[w] /\ todo'[w] = todo[w]
  OBVIOUS
<1> QED
  BY <1>1, <1>2 DEF WholeAt

LEMMA CoveredKept ==
  ASSUME UNCHANGED labels, NEW w \in Workers, UNCHANGED bars[w]
  PROVE  \A h \in Hypothesis : Covered(w, h)' <=> Covered(w, h)
<1>1. SUFFICES ASSUME NEW h \in Hypothesis PROVE Covered(w, h)' <=> Covered(w, h)
  OBVIOUS
<1>2. Latest(h)' = Latest(h) /\ Label(h, bars[w])'.at = Label(h, bars[w]).at
  <2>1. Label(h, bars[w]).at = ComputedAt(h, LaterOf(h, bars[w]))
    BY DEF Label, LaterOf
  <2>2. Label(h, bars[w])'.at = ComputedAt(h, LaterOf(h, bars'[w]))
    BY DEF Label, LaterOf, ComputedAt
  <2> QED
    BY <2>1, <2>2, LabelsStay
<1> QED
  BY <1>2 DEF Covered, Decided

(* A worker at rest owes nothing.                                          *)
LEMMA WholeAtRest ==
  ASSUME NEW w \in Workers, pc[w] \in {"idle", "begun", "waiting", "raised"}
  PROVE  WholeAt(w)
BY DEF WholeAt

(* The histories only grow.                                                *)
LEMMA HistoriesGrow ==
  ASSUME Typed, Typed', [Next]_vars
  PROVE  (backfilled => backfilled') /\ (overlaps > 0 => overlaps' > 0)
<1>1. overlaps \in Nat /\ overlaps' \in Nat
  BY DEF Typed, TypeOK
<1>2. ASSUME NEW w \in Workers, acquire_worker_lease(w)
      PROVE  backfilled' = backfilled /\ overlaps' \in {overlaps, overlaps + 1}
  BY <1>2 DEF acquire_worker_lease, world
<1>3. ASSUME NEW day \in Day, StoreBars(day)
      PROVE  (backfilled => backfilled') /\ overlaps' = overlaps
  BY <1>3 DEF StoreBars
<1>4. ASSUME NEW w \in Workers, WorkerStep(w) \/ Crash(w), ~ acquire_worker_lease(w)
      PROVE  UNCHANGED <<backfilled, overlaps>>
  BY <1>4 DEF WorkerStep, ReadInputs, persist_dataset_run, persist_hypotheses, NoDataset,
    list_hypotheses, list_latest_observations, persist_observations, persist_metric,
    release_worker_lease, Crash, world
<1>5. UNCHANGED vars => UNCHANGED <<backfilled, overlaps>>
  BY DEF vars, world
<1>6. \A d \in Date : PersistS8(d) => UNCHANGED <<backfilled, overlaps>>
  BY DEF PersistS8
<1> QED
  BY <1>1, <1>2, <1>3, <1>4, <1>5, <1>6 DEF Next

LEMMA GoodBefore == Typed /\ Typed' /\ [Next]_vars /\ Good' => Good
BY HistoriesGrow DEF Good

(* A label that is appended for one hypothesis uncovers none.              *)
LEMMA StaysCovered ==
  ASSUME Typed, Typed', LedgerInv, HistoryInv, NEW w \in Workers, NEW h \in Hypothesis,
         persist_observations(w, h), Good',
         NEW v \in Workers, NEW g \in Hypothesis, Covered(v, g)
  PROVE  Covered(v, g)'
<1>1. UNCHANGED <<backfilled, overlaps, bars>>
  BY Appends
<1>2. Label(g, bars[v])'.at = Label(g, bars[v]).at /\ Label(g, bars[v]).at \in Nat
  <2>1. Label(g, bars[v]).at = ComputedAt(g, LaterOf(g, bars[v]))
    BY DEF Label, LaterOf
  <2>2. Label(g, bars[v])'.at = ComputedAt(g, LaterOf(g, bars'[v]))
    BY DEF Label, LaterOf, ComputedAt
  <2>3. Label(g, bars[v]) \in Observation
    BY LabelTyped DEF Typed, TypeOK
  <2> QED
    BY <1>1, <2>1, <2>2, <2>3, DaysAreNumbers DEF Observation
<1>3. /\ Latest(g)' # None /\ Latest(g).at <= Latest(g)'.at
      /\ Latest(g).at \in Nat /\ Latest(g)'.at \in Nat
  BY LatestMovesOn DEF Covered
<1>4. CASE Decided(Latest(g)) /\ ~ backfilled
  <2>1. Latest(g)'.status = Latest(g).status
    BY <1>4, LatestGrows DEF Covered
  <2> QED
    BY <1>3, <1>4, <2>1 DEF Covered, Decided
<1>5. CASE Decided(Latest(g)) /\ overlaps = 0
  <2>1. Latest(g)' = Latest(g)
    <3>1. CASE g # h
      BY <3>1, AppendIsLocal
    <3>2. CASE g = h
      <4>1. prior[w][h] = Latest(h)
        BY <1>5 DEF LedgerInv, Alone, persist_observations
      <4>2. Skips(w, h)
        BY <1>5, <3>2, <4>1 DEF Skips
      <4> QED
        BY <4>2, Appends, LabelsStay
    <3> QED
      BY <3>1, <3>2
  <2> QED
    BY <1>3, <1>5, <2>1 DEF Covered, Decided
<1>6. CASE Latest(g).at >= Label(g, bars[v]).at
  BY <1>2, <1>3, <1>6 DEF Covered
<1>7. ~ backfilled \/ overlaps = 0
  BY <1>1 DEF Good, Typed, TypeOK
<1> QED
  BY <1>4, <1>5, <1>6, <1>7 DEF Covered

(* The worker's own label covers the hypothesis, or what it had read does. *)
LEMMA BecomesCovered ==
  ASSUME Typed, Typed', LedgerInv, HistoryInv, NEW w \in Workers, NEW h \in Selected(w),
         persist_observations(w, h), Good'
  PROVE  Covered(w, h)'
<1>1. h \in Hypothesis /\ pc[w] = "labelling" /\ h \in todo[w]
  BY DEF Selected, persist_observations
<1>2. BarsOf(w, h) = bars[w]
  <2>1. h[2] \in SymbolsOf[h[1]]
    BY <1>1 DEF Hypothesis
  <2> QED
    BY <2>1 DEF BarsOf, Selected
<1> DEFINE label == Label(h, bars[w])
<1>3. label \in Observation /\ label.at \in Nat
  BY <1>1, LabelTyped, DaysAreNumbers DEF Typed, TypeOK, Observation
<1>4. Label(h, bars[w])'.at = label.at
  <2>1. Label(h, bars[w]).at = ComputedAt(h, LaterOf(h, bars[w]))
    BY DEF Label, LaterOf
  <2>2. Label(h, bars[w])'.at = ComputedAt(h, LaterOf(h, bars'[w]))
    BY DEF Label, LaterOf, ComputedAt
  <2> QED
    BY <1>1, <2>1, <2>2, Appends
<1>5. UNCHANGED <<backfilled, overlaps>> /\ (~ backfilled \/ overlaps = 0)
  BY <1>1, Appends DEF Good, Typed, TypeOK
<1> HIDE DEF label
<1>6. CASE \E i \in DOMAIN labels'[h] : labels'[h][i] = label
  <2>1. PICK i \in DOMAIN labels'[h] : labels'[h][i] = label
    BY <1>6
  <2>2. labels' \in [Hypothesis -> Seq(Observation)] /\ labels'[h] # <<>>
    BY <2>1 DEF Typed, TypeOK
  <2>3. \E k \in DOMAIN labels'[h] :
          Latest(h)' = labels'[h][k] /\ \A j \in DOMAIN labels'[h] : labels'[h][j].at <= labels'[h][k].at
    BY <1>1, <2>2, LatestIsNewestNext
  <2>4. Latest(h)' \in Observation /\ label.at <= Latest(h)'.at
    BY <1>1, <2>1, <2>2, <2>3
  <2> QED
    BY <1>3, <1>4, <2>4, NoneAssumption, DaysAreNumbers DEF Covered, Observation, label
<1>7. CASE Skips(w, h)
  <2>1. Latest(h)' = Latest(h)
    BY <1>1, <1>7, Appends, LabelsStay
  <2>2. prior[w][h] # None
    BY <1>3, <1>7, <1>2, NoneAssumption DEF Skips, Decided, label
  <2>3. PICK i \in DOMAIN labels[h] : labels[h][i] = prior[w][h]
    BY <1>1, <2>2 DEF HistoryInv
  <2>4. labels[h] # <<>>
    BY <2>3
  <2>5. \E k \in DOMAIN labels[h] :
          Latest(h) = labels[h][k] /\ \A j \in DOMAIN labels[h] : labels[h][j].at <= labels[h][k].at
    BY <1>1, <2>4, LatestIsNewest DEF Typed, TypeOK
  <2>6. Latest(h) \in Observation /\ prior[w][h] \in Observation /\ prior[w][h].at <= Latest(h).at
    BY <1>1, <2>3, <2>5 DEF Typed, TypeOK
  <2>7. CASE prior[w][h] = label
    BY <1>3, <1>4, <2>1, <2>6, <2>7, NoneAssumption, DaysAreNumbers DEF Covered, Observation, label
  <2>8. CASE Decided(prior[w][h]) /\ overlaps = 0
    <3>1. prior[w][h] = Latest(h)
      BY <1>1, <2>8 DEF LedgerInv, Alone
    <3> QED
      BY <2>1, <2>8, <3>1 DEF Covered, Decided
  <2>9. CASE Decided(prior[w][h]) /\ ~ backfilled
    <3>1. PICK C : Read(C)
      BY DEF HistoryInv
    <3>2. PICK B \in C : prior[w][h] = Label(h, B)
      BY <1>1, <2>3, <3>1 DEF Read
    <3>3. PICK D \in C : Latest(h) = Label(h, D)
      BY <1>1, <2>6, <3>1, LatestWasRead, NoneAssumption
    <3>4. Label(h, D).status = Label(h, B).status
      BY <1>1, <2>6, <2>9, <3>1, <3>2, <3>3, TwoLabels DEF Decided, Decides
    <3> QED
      BY <2>1, <2>6, <2>9, <3>2, <3>3, <3>4, NoneAssumption DEF Covered, Decided
  <2> QED
    BY <1>2, <1>5, <1>7, <2>7, <2>8, <2>9 DEF Skips, label
<1> QED
  BY <1>1, <1>2, <1>6, <1>7, Appends DEF label

LEMMA AppendWhole ==
  ASSUME Typed, Typed', LedgerInv, HistoryInv, WholeInv, Good' => Good,
         NEW w \in Workers, NEW h \in Hypothesis, persist_observations(w, h)
  PROVE  WholeInv'
<1>1. UNCHANGED <<frozen, bars, facts, dates, listed, pc>>
  BY Appends
<1>2. todo' = [todo EXCEPT ![w] = todo[w] \ {h}] /\ pc[w] = "labelling"
  BY DEF persist_observations
<1>3. ASSUME NEW v \in Workers PROVE WholeAt(v)'
  <2>1. WholeAt(v) /\ Selected(v)' = Selected(v)
    BY <1>1 DEF WholeInv, Selected
  <2>2. Good' => \A g \in Hypothesis : Covered(v, g) => Covered(v, g)'
    BY StaysCovered
  <2>3. CASE v # w
    <3>1. todo'[v] = todo[v]
      BY <1>2, <2>3 DEF Typed, TypeOK
    <3> QED
      BY <1>1, <2>1, <2>2, <3>1, WholeKept
  <2>4. CASE v = w
    <3>1. todo'[w] = todo[w] \ {h} /\ pc'[w] = "labelling"
      BY <1>1, <1>2 DEF Typed, TypeOK
    <3>2. Good' /\ h \in Selected(w) => Covered(w, h)'
      BY BecomesCovered
    <3>3. Selected(w) \subseteq Hypothesis
      BY DEF Selected
    <3>4. Selected(w)' \subseteq listed'[w]
      BY <1>1, <1>2, <2>1, <2>4 DEF WholeAt
    <3>5. ASSUME Good', NEW g \in Selected(w)' PROVE g \in todo'[w] \/ Covered(w, g)'
      BY <1>2, <2>1, <2>2, <2>4, <3>1, <3>2, <3>3, <3>5 DEF WholeAt
    <3> QED
      BY <2>4, <3>1, <3>4, <3>5 DEF WholeAt
  <2> QED
    BY <2>3, <2>4
<1> QED
  BY <1>3 DEF WholeInv

(* Every step of the other kinds leaves the labels as they are.            *)
LEMMA StepWhole ==
  Typed /\ Typed' /\ LedgerInv /\ HistoryInv /\ WholeInv /\ [Next]_vars => WholeInv'
<1> SUFFICES ASSUME Typed, Typed', LedgerInv, HistoryInv, WholeInv, [Next]_vars PROVE WholeInv'
  OBVIOUS
<1>1. (Good' => Good) /\ frozen \subseteq frozen'
  BY GoodBefore, BasisStays
<1>2. ASSUME NEW w \in Workers, UNCHANGED labels,
             UNCHANGED <<pc[w], facts[w], bars[w], dates[w], listed[w], todo[w]>>
      PROVE  WholeAt(w)'
  BY <1>1, <1>2, CoveredKept, WholeKept DEF WholeInv
<1>3. ASSUME NEW w \in Workers, NEW v \in Workers \ {w}, WorkerStep(w) \/ Crash(w),
             ~ (\E h \in Hypothesis : persist_observations(w, h))
      PROVE  WholeAt(v)'
  <2>1. UNCHANGED <<pc[v], facts[v], bars[v], dates[v], listed[v], todo[v]>> /\ UNCHANGED labels
    BY <1>3 DEF WorkerStep, acquire_worker_lease, ReadInputs, persist_dataset_run, persist_hypotheses,
      NoDataset, list_hypotheses, list_latest_observations, persist_metric, release_worker_lease,
      Crash, Goto, Forget, store, Typed, TypeOK
  <2> QED
    BY <1>2, <2>1
<1>4. ASSUME NEW w \in Workers, pc'[w] \in {"idle", "begun", "waiting", "raised"} PROVE WholeAt(w)'
  BY <1>4 DEF WholeAt
<1>5. ASSUME NEW w \in Workers, ReadInputs(w) PROVE WholeAt(w)'
  <2>1. pc'[w] = "dataset" /\ dates'[w] = facts'[w].selected
    BY <1>5 DEF ReadInputs, Goto, Typed, TypeOK
  <2> QED
    BY <2>1 DEF WholeAt, Selected
<1>6. ASSUME NEW w \in Workers, NEW d \in Date, persist_dataset_run(w, d) PROVE WholeAt(w)'
  <2>1. /\ pc[w] = "dataset" /\ pc'[w] = "hypotheses"
        /\ UNCHANGED <<frozen, facts, dates>>
    BY <1>6 DEF persist_dataset_run, Goto, Typed, TypeOK
  <2> QED
    BY <2>1 DEF WholeInv, WholeAt, Selected
<1>7. ASSUME NEW w \in Workers, NEW d \in Date, persist_hypotheses(w, d) PROVE WholeAt(w)'
  <2>1. CASE pc'[w] = "raised"
    BY <1>4, <2>1
  <2>2. CASE pc'[w] # "raised"
    <3>1. /\ pc[w] = "hypotheses" /\ pc'[w] = "dataset" /\ UNCHANGED facts
          /\ frozen' = frozen \cup HypothesesOf(d) /\ dates'[w] = dates[w] \ {d}
      BY <1>7, <2>2 DEF persist_hypotheses, Goto, Typed, TypeOK
    <3> QED
      BY <3>1 DEF WholeInv, WholeAt, Selected, HypothesesOf
  <2> QED
    BY <2>1, <2>2
<1>8. ASSUME NEW w \in Workers, list_hypotheses(w) PROVE WholeAt(w)'
  <2>1. /\ pc[w] = "dataset" /\ dates[w] = {} /\ pc'[w] = "reading"
        /\ listed'[w] = frozen /\ todo'[w] = frozen /\ UNCHANGED facts
    BY <1>8 DEF list_hypotheses, Goto, Typed, TypeOK
  <2> QED
    BY <2>1 DEF WholeInv, WholeAt, Selected
<1>9. ASSUME NEW w \in Workers, list_latest_observations(w) PROVE WholeAt(w)'
  <2>1. /\ pc[w] = "reading" /\ pc'[w] = "labelling" /\ UNCHANGED <<listed, todo, facts>>
    BY <1>9 DEF list_latest_observations, Goto, Typed, TypeOK
  <2> QED
    BY <2>1 DEF WholeInv, WholeAt, Selected
<1>10. ASSUME NEW w \in Workers, persist_metric(w) PROVE WholeAt(w)'
  <2>1. CASE pc'[w] = "raised"
    BY <1>4, <2>1
  <2>2. CASE pc'[w] # "raised"
    <3>1. /\ pc[w] = "labelling" /\ todo[w] = {} /\ pc'[w] = "measured"
          /\ UNCHANGED <<facts, bars, frozen, labels>>
      BY <1>10, <2>2 DEF persist_metric, Goto, Typed, TypeOK
    <3>2. Selected(w)' = Selected(w) /\ Selected(w) \subseteq Hypothesis
      BY <3>1 DEF Selected
    <3>3. Selected(w) \subseteq frozen
      BY <3>1 DEF WholeInv, WholeAt, LedgerInv, ListedIsFrozen
    <3>4. Good' => \A h \in Selected(w) : Covered(w, h)'
      BY <1>1, <3>1, <3>2, CoveredKept DEF WholeInv, WholeAt
    <3> QED
      BY <3>1, <3>2, <3>3, <3>4 DEF WholeAt
  <2> QED
    BY <2>1, <2>2
<1>11. ASSUME NEW w \in Workers,
              acquire_worker_lease(w) \/ NoDataset(w) \/ release_worker_lease(w) \/ Crash(w)
       PROVE  WholeAt(w)'
  <2>1. pc'[w] \in {"idle", "begun", "waiting"}
    BY <1>11 DEF acquire_worker_lease, NoDataset, release_worker_lease, Crash, Goto, Typed, TypeOK
  <2> QED
    BY <1>4, <2>1
<1>12. ASSUME NEW w \in Workers, WorkerStep(w) \/ Crash(w),
              ~ (\E h \in Hypothesis : persist_observations(w, h))
       PROVE  WholeInv'
  <2>1. WholeAt(w)'
    BY <1>5, <1>6, <1>7, <1>8, <1>9, <1>10, <1>11, <1>12 DEF WorkerStep
  <2> QED
    BY <1>3, <1>12, <2>1 DEF WholeInv
<1>13. ASSUME UNCHANGED <<labels, pc, facts, bars, dates, listed, todo>> PROVE WholeInv'
  BY <1>2, <1>13 DEF WholeInv
<1>14. (\E day \in Day : StoreBars(day)) \/ (\E d \in Date : PersistS8(d)) \/ UNCHANGED vars
         => UNCHANGED <<labels, pc, facts, bars, dates, listed, todo>>
  BY DEF StoreBars, PersistS8, vars, store, work
<1> QED
  BY <1>1, <1>12, <1>13, <1>14, AppendWhole DEF Next

(* Whatever crashed before it, a worker about to report COMPLETE has       *)
(* frozen every hypothesis of the dates it selected and left none with a   *)
(* label behind the bars it read, for any dates, symbols, windows, horizons *)
(* and workers.                                                            *)
THEOREM CompleteLeavesNothing == Spec => []CompleteIsWhole
<1>1. Init => WholeInv
  BY DEF Init, WholeInv, WholeAt
<1>2. WholeInv => CompleteIsWhole
  BY DEF WholeInv, WholeAt, CompleteIsWhole, Covered, Selected, Good
<1>3. ReplayInv => Typed /\ LedgerInv /\ HistoryInv
  BY DEF ReplayInv
<1> QED
  BY <1>1, <1>2, <1>3, StepWhole, ReplayInvariant, PTL DEF Spec
-----------------------------------------------------------------------------
Clean == \A d \in Date : valid[d] # 2

Undisturbed == Clean /\ overlaps = 0

(* What a worker read is still so, and covers what is frozen.              *)
ReadAt(w) ==
  /\ dates[w] \subseteq bars[w]
  /\ facts[w] # None => pc[w] \notin {"idle", "begun"} /\ dates[w] \subseteq facts[w].selected
  /\ Undisturbed /\ facts[w] # None =>
       /\ facts[w].rejections = 0
       /\ \A d \in facts[w].selected : valid[d] = 1
       /\ \A h \in frozen : h[1] \in facts[w].selected

FrozenInv ==
  /\ ~ backfilled => \A h \in frozen : h[1] \in stored /\ basis[h] = Basis(h, stored)
  /\ Undisturbed => \A h \in frozen : valid[h[1]] = 1

\* The dates of a metric are those of its labels.
MetricInv ==
  Undisturbed => \A m \in metrics :
    /\ m.facts.rejections = 0
    /\ m.facts.selected = {h[1] : h \in {g \in Hypothesis : m.labels[g] # None}}

RepeatInv ==
  /\ \A d \in Date : valid[d] # 0 => d \in stored
  /\ \A w \in Workers : ReadAt(w)
  /\ FrozenInv /\ MetricInv /\ ReplayIsRepeatable

LEMMA InitRepeat == Init => RepeatInv
BY NoneAssumption DEF Init, RepeatInv, ReadAt, FrozenInv, MetricInv, ReplayIsRepeatable

(* A basis is made of the bars before the day, which are all stored.       *)
LEMMA SameBasis ==
  ASSUME NEW B, NEW D, Prefix(B, D), D \subseteq Day, NEW h \in Hypothesis, h[1] \in B
  PROVE  Basis(h, B) = Basis(h, D)
<1>1. h[1] \in Nat /\ \A y \in D : y \in Nat
  <2>1. h[1] \in Date
    BY DEF Hypothesis
  <2> QED
    BY <2>1, DateAssumption, DaysAreNumbers
<1>2. ASSUME NEW x \in D, x < h[1] PROVE x \in B
  <2>1. x \notin B => h[1] < x
    BY DEF Prefix
  <2> QED
    BY <1>1, <1>2, <2>1 DEF Prefix
<1>3. {x \in B : x < h[1]} = {x \in D : x < h[1]}
  BY <1>2 DEF Prefix
<1> QED
  BY <1>3 DEF Basis

(* What disturbs the replay is never undone.                               *)
LEMMA Disturbs ==
  ASSUME Typed, Typed', [Next]_vars
  PROVE  /\ Undisturbed' => Undisturbed
         /\ backfilled => backfilled'
         /\ \A d \in Date : valid[d] = 2 => valid'[d] = 2
         /\ \A d \in Date : valid[d] = 1 => valid'[d] # 0
<1>1. (\E d \in Date : valid[d] = 2) \/ Clean
  BY DEF Clean
<1>2. (backfilled => backfilled') /\ (overlaps > 0 => overlaps' > 0)
  BY HistoriesGrow
<1>3. \A d \in Date : (valid[d] = 2 => valid'[d] = 2) /\ (valid[d] = 1 => valid'[d] # 0)
  <2>1. ASSUME NEW d \in Date, PersistS8(d), NEW e \in Date
        PROVE  (valid[e] = 2 => valid'[e] = 2) /\ (valid[e] = 1 => valid'[e] # 0)
    <3>1. valid[d] \in 0..2 /\ valid[d] < 2
      BY <2>1 DEF PersistS8, Typed, TypeOK
    <3>2. valid' = [valid EXCEPT ![d] = valid[d] + 1] /\ valid \in [Date -> 0..2]
      BY <2>1 DEF PersistS8, Typed, TypeOK
    <3> QED
      BY <3>1, <3>2
  <2>2. ASSUME NEW w \in Workers, WorkerStep(w) \/ Crash(w) PROVE UNCHANGED valid
    BY <2>2 DEF WorkerStep, acquire_worker_lease, ReadInputs, persist_dataset_run, persist_hypotheses,
      NoDataset, list_hypotheses, list_latest_observations, persist_observations, persist_metric,
      release_worker_lease, Crash, world
  <2>3. (\E day \in Day : StoreBars(day)) \/ UNCHANGED vars => UNCHANGED valid
    BY DEF StoreBars, vars, world
  <2> QED
    BY <2>1, <2>2, <2>3 DEF Next
<1>4. overlaps \in Nat /\ overlaps' \in Nat
  BY DEF Typed, TypeOK
<1> QED
  BY <1>2, <1>3, <1>4 DEF Undisturbed, Clean

LEMMA ReadKept ==
  ASSUME Typed, Typed', [Next]_vars, NEW w \in Workers, ReadAt(w),
         UNCHANGED <<facts[w], dates[w], bars[w]>>, frozen' = frozen,
         pc'[w] \in {"idle", "begun"} => pc[w] \in {"idle", "begun"}
  PROVE  ReadAt(w)'
<1>1. (Undisturbed' => Undisturbed /\ Clean') /\ \A d \in Date : valid[d] = 1 => valid'[d] # 0
  BY Disturbs DEF Undisturbed
<1>2. facts[w] # None => facts[w].selected \subseteq Date
  BY DEF Typed, TypeOK, Facts
<1>3. \A d \in Date : valid'[d] \in 0..2
  BY DEF Typed, TypeOK
<1>4. facts'[w] = facts[w] /\ dates'[w] = dates[w] /\ bars'[w] = bars[w]
  OBVIOUS
<1>5. Undisturbed' /\ facts[w] # None => \A d \in facts[w].selected : valid'[d] = 1
  BY <1>1, <1>2, <1>3 DEF ReadAt, Clean
<1> QED
  BY <1>1, <1>4, <1>5 DEF ReadAt

LEMMA ReadForgotten ==
  ASSUME NEW w \in Workers, facts'[w] = None, dates'[w] = {}
  PROVE  ReadAt(w)'
BY DEF ReadAt

(* Who has raised stays excused.                                           *)
LEMMA RaisedExcused ==
  ASSUME Typed, Typed', [Next]_vars, ReplayIsRepeatable,
         \A w \in Workers : pc'[w] = "raised" =>
           pc[w] = "raised" \/ backfilled' \/ ~ Undisturbed'
  PROVE  ReplayIsRepeatable'
<1>1. overlaps \in Nat /\ overlaps' \in Nat
  BY DEF Typed, TypeOK
<1> QED
  BY <1>1, Disturbs DEF ReplayIsRepeatable, Undisturbed, Clean

LEMMA FrozenKept ==
  ASSUME Typed, Typed', [Next]_vars, FrozenInv, UNCHANGED <<stored, frozen, basis>>
  PROVE  FrozenInv'
<1>1. (Undisturbed' => Undisturbed /\ Clean') /\ (backfilled => backfilled')
      /\ \A d \in Date : valid[d] = 1 => valid'[d] # 0
  BY Disturbs DEF Undisturbed
<1>2. \A h \in frozen : h[1] \in Date /\ valid'[h[1]] \in 0..2
  BY DEF Typed, TypeOK, Hypothesis
<1> QED
  BY <1>1, <1>2 DEF FrozenInv, Clean, Basis, Newest

LEMMA MetricKept ==
  ASSUME Typed, Typed', [Next]_vars, MetricInv, UNCHANGED metrics
  PROVE  MetricInv'
BY Disturbs DEF MetricInv

(* The day of a bar is not before those that are stored.                   *)
LEMMA StoreBarsRepeat ==
  ASSUME Typed, Typed', RepeatInv, [Next]_vars, NEW day \in Day, StoreBars(day)
  PROVE  RepeatInv'
<1>1. UNCHANGED <<valid, frozen, basis, metrics, pc, facts, bars, dates>> /\ stored' = stored \cup {day}
  BY DEF StoreBars, store, work
<1>2. \A w \in Workers : ReadAt(w)'
  BY <1>1, ReadKept DEF RepeatInv
<1>3. MetricInv' /\ ReplayIsRepeatable'
  BY <1>1, MetricKept, RaisedExcused DEF RepeatInv
<1>4. ~ backfilled' => Prefix(stored, stored') /\ ~ backfilled
  <2>1. ASSUME ~ backfilled', NEW x \in stored PROVE x < day
    <3>1. x \in Nat /\ day \in Nat /\ x # day /\ ~ (day < x)
      BY <2>1, DaysAreNumbers DEF StoreBars, Typed, TypeOK
    <3> QED
      BY <3>1
  <2> QED
    BY <1>1, <2>1 DEF Prefix, StoreBars
<1>5. ASSUME ~ backfilled', NEW h \in frozen PROVE h[1] \in stored' /\ basis'[h] = Basis(h, stored')
  <2>1. h \in Hypothesis /\ h[1] \in stored /\ basis[h] = Basis(h, stored)
    BY <1>4, <1>5 DEF RepeatInv, FrozenInv, Typed, TypeOK
  <2>2. stored' \subseteq Day
    BY DEF Typed, TypeOK
  <2>3. Basis(h, stored) = Basis(h, stored')
    BY <1>4, <1>5, <2>1, <2>2, SameBasis
  <2> QED
    BY <1>1, <2>1, <2>3
<1>6. FrozenInv'
  <2>1. Undisturbed' => \A h \in frozen : valid'[h[1]] = 1
    BY <1>1, Disturbs DEF RepeatInv, FrozenInv
  <2> QED
    BY <1>1, <1>5, <2>1 DEF FrozenInv, Basis, Newest
<1> QED
  BY <1>1, <1>2, <1>3, <1>6 DEF RepeatInv

LEMMA PersistRepeat ==
  ASSUME Typed, Typed', RepeatInv, [Next]_vars, NEW d \in Date, PersistS8(d)
  PROVE  RepeatInv'
<1>1. /\ UNCHANGED <<stored, frozen, basis, metrics, pc, facts, bars, dates>>
      /\ d \in stored /\ valid' = [valid EXCEPT ![d] = valid[d] + 1]
  BY DEF PersistS8, store, work
<1>2. \A w \in Workers : ReadAt(w)'
  BY <1>1, ReadKept DEF RepeatInv
<1>3. MetricInv' /\ ReplayIsRepeatable' /\ FrozenInv'
  BY <1>1, MetricKept, RaisedExcused, FrozenKept DEF RepeatInv
<1>4. \A e \in Date : valid'[e] # 0 => e \in stored'
  BY <1>1 DEF RepeatInv, Typed, TypeOK
<1> QED
  BY <1>2, <1>3, <1>4 DEF RepeatInv

LEMMA ReadInputsRepeat ==
  ASSUME Typed, Typed', RepeatInv, [Next]_vars, NEW w \in Workers, ReadInputs(w)
  PROVE  RepeatInv'
<1> DEFINE conflicts == {d \in Date : valid[d] = 2}
           chosen == {d \in Date : valid[d] = 1}
<1>1. /\ UNCHANGED <<stored, valid, frozen, basis, metrics, overlaps>>
      /\ pc'[w] = "dataset" /\ bars'[w] = stored /\ dates'[w] = chosen
      /\ facts'[w] = [selected |-> chosen, rejections |-> 2 * Cardinality(conflicts)]
      /\ \A v \in Workers \ {w} : UNCHANGED <<pc[v], facts[v], bars[v], dates[v]>>
  BY DEF ReadInputs, Goto, world, store, Typed, TypeOK
<1>2. Undisturbed' => 2 * Cardinality(conflicts) = 0
  <2>1. Clean' => conflicts = {}
    BY <1>1 DEF Clean
  <2> QED
    BY <2>1, FS_EmptySet DEF Undisturbed
<1>3. ReadAt(w)'
  <2>1. dates'[w] \subseteq bars'[w]
    BY <1>1 DEF RepeatInv
  <2>2. Undisturbed' => \A h \in frozen : h[1] \in chosen
    <3>1. Undisturbed' => Undisturbed
      BY Disturbs
    <3>2. \A h \in frozen : h[1] \in Date
      BY DEF Typed, TypeOK, Hypothesis
    <3> QED
      BY <3>1, <3>2 DEF RepeatInv, FrozenInv
  <2>3. /\ facts'[w].selected = chosen /\ frozen' = frozen
        /\ facts'[w].rejections = 2 * Cardinality(conflicts)
        /\ pc'[w] = "dataset" /\ dates'[w] = chosen
    BY <1>1
  <2>4. \A d \in chosen : valid'[d] = 1
    BY <1>1
  <2> HIDE DEF chosen, conflicts
  <2> QED
    BY <1>2, <2>1, <2>2, <2>3, <2>4 DEF ReadAt
<1>4. \A v \in Workers : ReadAt(v)'
  BY <1>1, <1>3, ReadKept DEF RepeatInv
<1>5. \A v \in Workers : pc'[v] = "raised" => pc[v] = "raised"
  BY <1>1
<1> QED
  BY <1>1, <1>4, <1>5, MetricKept, RaisedExcused, FrozenKept DEF RepeatInv

(* What a worker freezes was frozen from the same bars before, if at all.  *)
LEMMA HypothesesRepeat ==
  ASSUME Typed, Typed', LedgerInv, HistoryInv, RepeatInv, [Next]_vars,
         NEW w \in Workers, NEW d \in Date, persist_hypotheses(w, d)
  PROVE  RepeatInv'
<1>1. /\ UNCHANGED <<stored, valid, backfilled, metrics, overlaps>>
      /\ pc[w] = "hypotheses" /\ d \in dates[w]
      /\ \A v \in Workers \ {w} : UNCHANGED <<pc[v], facts[v], bars[v], dates[v]>>
  BY DEF persist_hypotheses, NextDate, Goto, Forget, world, Typed, TypeOK
<1>2. d \in bars[w] /\ d \in facts[w].selected /\ facts[w] # None
  <2>1. facts[w] # None
    BY <1>1, NoneAssumption DEF Typed, Known
  <2> QED
    BY <1>1, <2>1 DEF RepeatInv, ReadAt
<1>3. ~ backfilled => \A h \in HypothesesOf(d) :
        h[1] = d /\ d \in stored /\ Basis(h, bars[w]) = Basis(h, stored)
  <2>1. PICK C : Read(C)
    BY DEF HistoryInv
  <2>2. ~ backfilled => Prefix(bars[w], stored)
    BY <2>1 DEF Read
  <2>3. \A h \in HypothesesOf(d) : h \in Hypothesis /\ h[1] = d
    BY DEF HypothesesOf
  <2>4. stored \subseteq Day
    BY DEF Typed, TypeOK
  <2>5. ASSUME ~ backfilled, NEW h \in HypothesesOf(d) PROVE Basis(h, bars[w]) = Basis(h, stored)
    BY <1>2, <2>2, <2>3, <2>4, <2>5, SameBasis
  <2> QED
    BY <1>2, <2>2, <2>3, <2>5 DEF Prefix
<1>4. Undisturbed => \A v \in Workers \ {w} : facts[v] = None
  BY <1>1 DEF LedgerInv, Alone, AtWork, Undisturbed, RepeatInv, ReadAt
<1>5. Undisturbed' <=> Undisturbed
  BY <1>1 DEF Undisturbed, Clean
<1>6. CASE \A h \in HypothesesOf(d) \cap frozen : basis[h] = Basis(h, bars[w])
  <2>1. /\ frozen' = frozen \cup HypothesesOf(d)
        /\ basis' = [h \in Hypothesis |-> IF h[1] = d THEN Basis(h, bars[w]) ELSE basis[h]]
        /\ dates'[w] = dates[w] \ {d} /\ UNCHANGED <<facts, bars>> /\ pc'[w] = "dataset"
    BY <1>6 DEF persist_hypotheses, Goto, Typed, TypeOK
  <2>2. FrozenInv'
    <3>1. ASSUME ~ backfilled, NEW h \in frozen'
          PROVE  h[1] \in stored /\ basis'[h] = Basis(h, stored)
      <4>1. h \in Hypothesis
        BY <2>1 DEF HypothesesOf, Typed, TypeOK
      <4>2. CASE h[1] = d
        BY <1>3, <2>1, <3>1, <4>1, <4>2 DEF HypothesesOf
      <4>3. CASE h[1] # d
        BY <2>1, <3>1, <4>1, <4>3 DEF HypothesesOf, RepeatInv, FrozenInv
      <4> QED
        BY <4>2, <4>3
    <3>2. Undisturbed => \A h \in frozen' : valid[h[1]] = 1
      BY <1>2, <2>1 DEF HypothesesOf, RepeatInv, FrozenInv, ReadAt
    <3> QED
      BY <1>1, <1>5, <3>1, <3>2 DEF FrozenInv, Basis, Newest
  <2>3. ReadAt(w)'
    BY <1>1, <1>2, <1>5, <2>1 DEF RepeatInv, ReadAt, HypothesesOf
  <2>4. ASSUME NEW v \in Workers \ {w} PROVE ReadAt(v)'
    BY <1>1, <1>4, <1>5, <2>4 DEF RepeatInv, ReadAt
  <2>5. \A v \in Workers : pc'[v] = "raised" => pc[v] = "raised"
    BY <1>1, <2>1
  <2> QED
    BY <1>1, <2>2, <2>3, <2>4, <2>5, MetricKept, RaisedExcused DEF RepeatInv
<1>7. CASE ~ (\A h \in HypothesesOf(d) \cap frozen : basis[h] = Basis(h, bars[w]))
  <2>1. UNCHANGED <<frozen, basis>> /\ Forget(w)
    BY <1>7 DEF persist_hypotheses
  <2>2. facts'[w] = None /\ dates'[w] = {}
    BY <2>1 DEF Forget, Typed, TypeOK
  <2>3. backfilled
    BY <1>3, <1>7 DEF RepeatInv, FrozenInv
  <2>4. \A v \in Workers : ReadAt(v)'
    BY <1>1, <2>1, <2>2, ReadKept, ReadForgotten DEF RepeatInv
  <2> QED
    BY <1>1, <2>1, <2>3, <2>4, MetricKept, RaisedExcused, FrozenKept DEF RepeatInv
<1> QED
  BY <1>6, <1>7

(* Two metrics of the same labels are of the same dates.                   *)
LEMMA MetricRepeat ==
  ASSUME \A d \in Date : SymbolsOf[d] # {},
         Typed, Typed', LedgerInv, HistoryInv, WholeInv, RepeatInv, [Next]_vars,
         NEW w \in Workers, persist_metric(w)
  PROVE  RepeatInv'
<1> DEFINE D == facts[w].selected
           d == CHOOSE x \in D : \A y \in D : y <= x
           of == [h \in Hypothesis |-> IF h \in listed[w] THEN Latest(h) ELSE None]
           metric == [dataset |-> d, labels |-> of, facts |-> facts[w]]
           same == {m \in metrics : m.dataset = d /\ m.labels = of}
<1>1. /\ UNCHANGED <<stored, valid, backfilled, frozen, basis, overlaps>>
      /\ pc[w] = "labelling" /\ todo[w] = {}
      /\ \A v \in Workers \ {w} : UNCHANGED <<pc[v], facts[v], bars[v], dates[v]>>
  BY DEF persist_metric, Goto, Forget, world, Typed, TypeOK
<1>2. /\ facts[w] \in Facts /\ facts[w] # None /\ D \subseteq Date
  BY <1>1, NoneAssumption DEF Typed, Known, Facts
<1>3. Undisturbed' <=> Undisturbed
  BY <1>1 DEF Undisturbed, Clean
<1>4. Undisturbed => D = {h[1] : h \in {g \in Hypothesis : of[g] # None}}
  <2> SUFFICES ASSUME Undisturbed PROVE D = {h[1] : h \in {g \in Hypothesis : of[g] # None}}
    OBVIOUS
  <2>1. ASSUME NEW g \in Hypothesis, of[g] # None PROVE g[1] \in D
    <3>1. g \in frozen
      BY <2>1 DEF LedgerInv, ListedIsFrozen
    <3> QED
      BY <1>2, <3>1 DEF RepeatInv, ReadAt
  <2>2. ASSUME NEW e \in D PROVE \E g \in Hypothesis : g[1] = e /\ of[g] # None
    <3>1. PICK x : x \in SymbolsOf[e]
      BY <1>2
    <3> DEFINE g == <<e, x>>
    <3>2. g \in Hypothesis /\ g[1] = e
      BY <1>2, <3>1 DEF Hypothesis
    <3> HIDE DEF g
    <3>3. g \in Selected(w)
      BY <3>2 DEF Selected
    <3>4. g \in listed[w] /\ Latest(g) # None
      BY <1>1, <3>3 DEF WholeInv, WholeAt, Covered, Good, Undisturbed
    <3> QED
      BY <3>2, <3>4
  <2> HIDE DEF of, D
  <2> QED
    BY <2>1, <2>2
<1>5. Undisturbed => facts[w].rejections = 0
  BY <1>2 DEF RepeatInv, ReadAt
<1> HIDE DEF of, d
<1>6. Undisturbed => same \subseteq {metric}
  <2> SUFFICES ASSUME Undisturbed, NEW m \in same PROVE m = metric
    OBVIOUS
  <2>1. m \in Metric /\ m.dataset = d /\ m.labels = of
    BY DEF Typed, TypeOK
  <2>2. m.facts.rejections = 0 /\ m.facts.selected = D
    BY <1>4, <2>1 DEF RepeatInv, MetricInv
  <2>3. m.facts = facts[w]
    <3>1. m.facts \in Facts
      BY <2>1 DEF Metric
    <3> QED
      BY <1>2, <1>5, <2>2, <3>1 DEF Facts
  <2> QED
    BY <2>1, <2>3 DEF Metric
<1>7. CASE same \subseteq {metric}
  <2>1. /\ metrics' = metrics \cup {metric} /\ pc'[w] = "measured"
        /\ UNCHANGED <<facts, bars, dates>>
    BY <1>7 DEF persist_metric, Goto, Typed, TypeOK, d, of
  <2>2. \A v \in Workers : ReadAt(v)'
    BY <1>1, <2>1, ReadKept DEF RepeatInv
  <2>3. MetricInv'
    <3>1. metric.facts = facts[w] /\ metric.labels = of
      OBVIOUS
    <3> HIDE DEF metric, D
    <3> QED
      BY <1>3, <1>4, <1>5, <2>1, <3>1 DEF RepeatInv, MetricInv, D
  <2>4. \A v \in Workers : pc'[v] = "raised" => pc[v] = "raised"
    BY <1>1, <2>1
  <2> QED
    BY <1>1, <2>2, <2>3, <2>4, RaisedExcused, FrozenKept DEF RepeatInv
<1>8. CASE ~ (same \subseteq {metric})
  <2>1. UNCHANGED metrics /\ Forget(w)
    BY <1>8 DEF persist_metric, d, of
  <2>2. facts'[w] = None /\ dates'[w] = {}
    BY <2>1 DEF Forget, Typed, TypeOK
  <2>3. ~ Undisturbed'
    BY <1>3, <1>6, <1>8
  <2>4. \A v \in Workers : ReadAt(v)'
    BY <1>1, <2>2, ReadKept, ReadForgotten DEF RepeatInv
  <2> QED
    BY <1>1, <2>1, <2>3, <2>4, MetricKept, RaisedExcused, FrozenKept DEF RepeatInv
<1> QED
  BY <1>7, <1>8

LEMMA StepRepeat ==
  ASSUME \A d \in Date : SymbolsOf[d] # {}
  PROVE  Typed /\ Typed' /\ LedgerInv /\ HistoryInv /\ WholeInv /\ RepeatInv /\ [Next]_vars
           => RepeatInv'
<1> SUFFICES ASSUME Typed, Typed', LedgerInv, HistoryInv, WholeInv, RepeatInv, [Next]_vars
             PROVE  RepeatInv'
  OBVIOUS
<1>1. ASSUME UNCHANGED <<stored, valid, frozen, basis, metrics>>,
             \A v \in Workers : pc'[v] = "raised" => pc[v] = "raised",
             \A v \in Workers : ReadAt(v)'
      PROVE  RepeatInv'
  BY <1>1, MetricKept, RaisedExcused, FrozenKept DEF RepeatInv
<1>2. ASSUME UNCHANGED <<stored, valid, frozen, basis, metrics>>, NEW w \in Workers,
             pc'[w] # "raised", \A v \in Workers \ {w} : pc'[v] = pc[v],
             UNCHANGED <<facts, bars, dates>>,
             pc'[w] \in {"idle", "begun"} => pc[w] \in {"idle", "begun"}
      PROVE  RepeatInv'
  <2>1. \A v \in Workers : ReadAt(v)'
    BY <1>2, ReadKept DEF RepeatInv
  <2> QED
    BY <1>1, <1>2, <2>1
<1>3. ASSUME UNCHANGED <<stored, valid, frozen, basis, metrics>>, NEW w \in Workers, Forget(w),
             pc'[w] # "raised", \A v \in Workers \ {w} : pc'[v] = pc[v]
      PROVE  RepeatInv'
  <2>1. /\ facts'[w] = None /\ dates'[w] = {}
        /\ \A v \in Workers \ {w} : UNCHANGED <<facts[v], bars[v], dates[v]>>
    BY <1>3 DEF Forget, Typed, TypeOK
  <2>2. \A v \in Workers : ReadAt(v)'
    BY <1>3, <2>1, ReadKept, ReadForgotten DEF RepeatInv
  <2> QED
    BY <1>1, <1>3, <2>2
<1>4. ASSUME NEW w \in Workers, acquire_worker_lease(w) PROVE RepeatInv'
  <2>1. /\ UNCHANGED <<stored, valid, frozen, basis, metrics, facts, bars, dates>>
        /\ pc[w] = "idle" /\ pc'[w] = "begun" /\ \A v \in Workers \ {w} : pc'[v] = pc[v]
    BY <1>4 DEF acquire_worker_lease, Goto, world, store, Typed, TypeOK
  <2> QED
    BY <1>2, <2>1
<1>5. ASSUME NEW w \in Workers, NEW d \in Date, persist_dataset_run(w, d) PROVE RepeatInv'
  <2>1. /\ UNCHANGED <<stored, valid, frozen, basis, metrics, facts, bars, dates>>
        /\ pc'[w] = "hypotheses" /\ \A v \in Workers \ {w} : pc'[v] = pc[v]
    BY <1>5 DEF persist_dataset_run, Goto, world, Typed, TypeOK
  <2> QED
    BY <1>2, <2>1
<1>6. ASSUME NEW w \in Workers, list_hypotheses(w) \/ list_latest_observations(w) PROVE RepeatInv'
  <2>1. /\ UNCHANGED <<stored, valid, frozen, basis, metrics, facts, bars, dates>>
        /\ pc'[w] \in {"reading", "labelling"} /\ \A v \in Workers \ {w} : pc'[v] = pc[v]
    BY <1>6 DEF list_hypotheses, list_latest_observations, Goto, world, store, Typed, TypeOK
  <2> QED
    BY <1>2, <2>1
<1>7. ASSUME NEW w \in Workers, NEW h \in Hypothesis, persist_observations(w, h) PROVE RepeatInv'
  <2>1. /\ UNCHANGED <<stored, valid, frozen, basis, metrics, facts, bars, dates, pc>>
        /\ pc[w] = "labelling"
    BY <1>7 DEF persist_observations, world
  <2> QED
    BY <1>2, <2>1
<1>8. ASSUME NEW w \in Workers, NoDataset(w) \/ release_worker_lease(w) \/ Crash(w) PROVE RepeatInv'
  <2>1. /\ UNCHANGED <<stored, valid, frozen, basis, metrics>> /\ Forget(w)
        /\ pc'[w] \in {"waiting", "idle"} /\ \A v \in Workers \ {w} : pc'[v] = pc[v]
    BY <1>8 DEF NoDataset, release_worker_lease, Crash, Goto, world, store, Typed, TypeOK
  <2> QED
    BY <1>3, <2>1
<1>9. CASE UNCHANGED vars
  <2>1. UNCHANGED <<stored, valid, frozen, basis, metrics, facts, bars, dates, pc>>
    BY <1>9 DEF vars, world, store, work
  <2>2. \A v \in Workers : ReadAt(v)'
    BY <2>1, ReadKept DEF RepeatInv
  <2> QED
    BY <1>1, <2>1, <2>2
<1>10. ASSUME NEW w \in Workers, NEW d \in Date, persist_hypotheses(w, d) PROVE RepeatInv'
  BY <1>10, HypothesesRepeat
<1>11. ASSUME NEW w \in Workers, persist_metric(w) PROVE RepeatInv'
  BY <1>11, MetricRepeat
<1> QED
  BY <1>4, <1>5, <1>6, <1>7, <1>8, <1>9, <1>10, <1>11, StoreBarsRepeat, PersistRepeat,
     ReadInputsRepeat DEF Next, WorkerStep

(* A replay may be begun again after a crash at any point: as long as bars *)
(* arrive in order, no S8 payload is rejected and workers do not overlap,  *)
(* no immutable row is met with another payload, for any dates, each with  *)
(* at least one symbol, any windows and horizons.                          *)
THEOREM ReplaysRepeat ==
  ASSUME \A d \in Date : SymbolsOf[d] # {}
  PROVE  Spec => []ReplayIsRepeatable
<1>1. Init => WholeInv /\ RepeatInv
  BY InitRepeat DEF Init, WholeInv, WholeAt
<1>2. RepeatInv => ReplayIsRepeatable
  BY DEF RepeatInv
<1>3. ReplayInv => Typed /\ LedgerInv /\ HistoryInv
  BY DEF ReplayInv
<1>4. Typed /\ Typed' /\ LedgerInv /\ HistoryInv /\ WholeInv /\ RepeatInv /\ [Next]_vars => RepeatInv'
  BY StepRepeat
<1> QED
  BY <1>1, <1>2, <1>3, <1>4, StepWhole, ReplayInvariant, PTL DEF Spec
=============================================================================
