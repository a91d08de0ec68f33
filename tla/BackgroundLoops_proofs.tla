----------------------- MODULE BackgroundLoops_proofs -----------------------
(***************************************************************************)
(* Proofs about the two loops that run in the background of the API.       *)
(*                                                                         *)
(* The foreground loop of the scheduler: its typing, the match of lease    *)
(* and loop, and that it implements the slot ledger, for every set of      *)
(* slots, expected times and grace window.                                 *)
(*                                                                         *)
(* The live panels, whose loop competes with requests for one lock: their  *)
(* typing, and that an open breaker stops the fetches, for any number of   *)
(* callers and sources and any thresholds and pauses.                      *)
(***************************************************************************)
EXTENDS SnapshotSlots, LivePanels, TLAPS

(* What the loop knows between its steps: slots it has still to visit, and *)
(* the one it collects, were reached at the instant of the pass and have   *)
(* no row yet; nobody else writes rows; no slot ever has two.              *)
ToVisit(s) == runs[s] = {} /\ At[s] <= instant

Pending ==
  /\ instant <= now
  /\ \A s \in todo : ToVisit(s)
  /\ current # 0 => ToVisit(current) /\ current \notin todo
  /\ loop = "collecting" <=> current # 0
  /\ \A s \in Slot : runs[s] \in {{}, {"COMPLETED"}, {"MISSED"}}

LoopInv == TypeOK /\ LeaseMatchesLoop /\ Pending

LEMMA InitEstablishesLoopInv == Init => LoopInv
  BY SlotAssumption DEF Init, LoopInv, TypeOK, LeaseMatchesLoop, Pending, ToVisit

(* The steps that leave the rows alone.                                    *)
LEMMA QuietStepKeepsLoopInv ==
  ASSUME LoopInv,
         \/ ClockTick \/ start_foreground \/ Wake \/ BeginTick \/ BeginEod \/ EndPass
         \/ (\E s \in Slot : SlotLeaseHeld(s) \/ BeginSlot(s))
         \/ Crash \/ ManualBegin \/ LeaseFreed
  PROVE  LoopInv'
<1> USE SlotAssumption DEF LoopInv, TypeOK, LeaseMatchesLoop, Pending, ToVisit, vars,
        passVars, ReleaseOwn, NextSlot, Late
<1>1. CASE ClockTick
  BY <1>1 DEF ClockTick
<1>2. CASE start_foreground
  BY <1>2 DEF start_foreground
<1>3. CASE Wake
  BY <1>3 DEF Wake
<1>4. CASE BeginTick
  BY <1>4 DEF BeginTick, _finalized_slots
<1>5. CASE BeginEod \/ EndPass
  BY <1>5 DEF BeginEod, EndPass
<1>6. CASE \E s \in Slot : SlotLeaseHeld(s) \/ BeginSlot(s)
  <2>1. PICK s \in Slot : SlotLeaseHeld(s) \/ BeginSlot(s)
    BY <1>6
  <2>2. CASE SlotLeaseHeld(s)
    BY <2>2 DEF SlotLeaseHeld
  <2>3. CASE BeginSlot(s)
    BY <2>3 DEF BeginSlot
  <2> QED BY <2>1, <2>2, <2>3
<1>7. CASE Crash
  BY <1>7 DEF Crash, Stopped
<1>8. CASE ManualBegin \/ LeaseFreed
  BY <1>8 DEF ManualBegin, LeaseFreed
<1> HIDE DEF LoopInv, TypeOK, LeaseMatchesLoop, Pending, ToVisit, vars, passVars,
         ReleaseOwn, NextSlot, Late
<1> QED BY <1>1, <1>2, <1>3, <1>4, <1>5, <1>6, <1>7, <1>8

(* The steps that save the row of a slot.                                  *)
LEMMA SavingStepKeepsLoopInv ==
  ASSUME LoopInv,
         (\E s \in Slot : SlotMissed(s)) \/ SlotCompleted \/ PassRaises
  PROVE  LoopInv'
<1> USE SlotAssumption DEF LoopInv, TypeOK, LeaseMatchesLoop, Pending, ToVisit, vars,
        passVars, ReleaseOwn, NextSlot, Late
<1>1. CASE \E s \in Slot : SlotMissed(s)
  <2>1. PICK s \in Slot : SlotMissed(s)
    BY <1>1
  <2>2. /\ s \in todo /\ runs[s] = {}
        /\ runs' = [runs EXCEPT ![s] = {"MISSED"}]
    BY <2>1 DEF SlotMissed
  <2> QED BY <2>1, <2>2 DEF SlotMissed
<1>2. CASE SlotCompleted
  <2>1. /\ current \in Slot /\ runs[current] = {} /\ current \notin todo
        /\ runs' = [runs EXCEPT ![current] = {"COMPLETED"}]
    BY <1>2 DEF SlotCompleted
  <2> QED BY <1>2, <2>1 DEF SlotCompleted
<1>3. CASE PassRaises
  <2>1. CASE loop = "collecting"
    <3>1. /\ current \in Slot /\ runs[current] = {}
          /\ runs' \in {runs, [runs EXCEPT ![current] = {"COMPLETED"}]}
      BY <1>3, <2>1 DEF PassRaises
    <3> QED BY <1>3, <2>1, <3>1 DEF PassRaises, Stopped
  <2>2. CASE loop # "collecting"
    BY <1>3, <2>2 DEF PassRaises, Stopped
  <2> QED BY <2>1, <2>2
<1> HIDE DEF LoopInv, TypeOK, LeaseMatchesLoop, Pending, ToVisit, vars, passVars,
         ReleaseOwn, NextSlot, Late
<1> QED BY <1>1, <1>2, <1>3

LEMMA NextKeepsLoopInv == LoopInv /\ [Next]_vars => LoopInv'
<1> SUFFICES ASSUME LoopInv, [Next]_vars PROVE LoopInv'
  OBVIOUS
<1>1. CASE UNCHANGED vars
  BY <1>1 DEF LoopInv, TypeOK, LeaseMatchesLoop, Pending, ToVisit, vars, passVars
<1>2. CASE Next
  BY <1>2, QuietStepKeepsLoopInv, SavingStepKeepsLoopInv DEF Next, LoopStep, SlotStep
<1> QED BY <1>1, <1>2

LEMMA SpecKeepsLoopInv == Spec => []LoopInv
  BY InitEstablishesLoopInv, NextKeepsLoopInv, PTL DEF Spec

(* Type correctness of the foreground loop.                                *)
THEOREM LoopTyping == Spec => []TypeOK
<1>1. LoopInv => TypeOK
  BY DEF LoopInv
<1> QED BY <1>1, SpecKeepsLoopInv, PTL

(* The loop never keeps the lease row past the work it took it for.        *)
THEOREM LeaseFollowsLoop == Spec => []LeaseMatchesLoop
<1>1. LoopInv => LeaseMatchesLoop
  BY DEF LoopInv
<1> QED BY <1>1, SpecKeepsLoopInv, PTL
-----------------------------------------------------------------------------
LEMMA InitImplementsLedger == Init => Ledger!Init
  BY SlotAssumption DEF Init, Ledger!Init, Outcome

(* What saving one verdict for a pending slot does to the ledger's view.   *)
LEMMA SavedRowSettles ==
  ASSUME TypeOK, NEW s \in Slot, NEW verdict \in {"COMPLETED", "MISSED"},
         runs[s] = {}, runs' = [runs EXCEPT ![s] = {verdict}]
  PROVE  /\ [t \in Slot |-> Outcome(t)][s] = "PENDING"
         /\ [t \in Slot |-> Outcome(t)]'
              = [[t \in Slot |-> Outcome(t)] EXCEPT ![s] = verdict]
  BY DEF TypeOK, Outcome

(* Every step of the loop is a step of the ledger, or none.                *)
LEMMA StepImplementsLedger ==
  ASSUME LoopInv, [Next]_vars
  PROVE  [Ledger!Next]_<<now, [s \in Slot |-> Outcome(s)]>>
<1> DEFINE view == [s \in Slot |-> Outcome(s)]
<1> USE SlotAssumption
<1>1. ASSUME now' = now, runs' = runs
      PROVE  UNCHANGED <<now, view>>
  BY <1>1 DEF Outcome
<1>2. CASE UNCHANGED vars
  BY <1>1, <1>2 DEF vars
<1>3. CASE ClockTick
  <2>1. now' \in Nat /\ now' > now /\ view' = view
    BY <1>3 DEF ClockTick, LoopInv, TypeOK, Outcome
  <2> QED BY <2>1 DEF Ledger!Next, Ledger!TimePasses
<1>4. CASE \E s \in Slot : SlotMissed(s)
  <2>1. PICK s \in Slot : SlotMissed(s)
    BY <1>4
  <2>2. /\ runs[s] = {} /\ runs' = [runs EXCEPT ![s] = {"MISSED"}]
        /\ now' = now /\ now > At[s] + Grace /\ now >= At[s]
    <3>1. s \in todo /\ ToVisit(s) /\ instant <= now
      BY <2>1 DEF SlotMissed, NextSlot, LoopInv, Pending
    <3>2. instant \in Nat /\ now \in Nat /\ At[s] \in Nat /\ Grace \in Nat
      BY DEF LoopInv, TypeOK
    <3>3. instant - At[s] > Grace
      BY <2>1 DEF SlotMissed, Late
    <3>4. runs[s] = {}
      BY <3>1 DEF ToVisit
    <3>5. runs' = [runs EXCEPT ![s] = {"MISSED"}] /\ now' = now
      BY <2>1, <3>4 DEF SlotMissed
    <3> QED BY <3>1, <3>2, <3>3, <3>4, <3>5
  <2>3. view[s] = "PENDING" /\ view' = [view EXCEPT ![s] = "MISSED"]
    BY <2>2, SavedRowSettles DEF LoopInv
  <2>4. Ledger!Settle(s, "MISSED")
    BY <2>2, <2>3 DEF Ledger!Settle
  <2> QED BY <2>4 DEF Ledger!Next
<1>5. ASSUME current \in Slot, ToVisit(current), now' = now,
             runs' = [runs EXCEPT ![current] = {"COMPLETED"}]
      PROVE  Ledger!Next
  <2>1. now >= At[current]
    BY <1>5 DEF LoopInv, Pending, ToVisit, TypeOK
  <2>2. view[current] = "PENDING" /\ view' = [view EXCEPT ![current] = "COMPLETED"]
    BY <1>5, SavedRowSettles DEF LoopInv, ToVisit
  <2>3. Ledger!Settle(current, "COMPLETED")
    BY <1>5, <2>1, <2>2 DEF Ledger!Settle
  <2> QED BY <1>5, <2>3 DEF Ledger!Next
<1>6. CASE SlotCompleted
  <2>1. /\ current \in Slot /\ ToVisit(current) /\ now' = now
        /\ runs' = [runs EXCEPT ![current] = {"COMPLETED"}]
    BY <1>6 DEF SlotCompleted, LoopInv, LeaseMatchesLoop, Pending, ToVisit, TypeOK
  <2> QED BY <2>1, <1>5
<1>7. CASE PassRaises
  <2>1. now' = now /\ (runs' = runs \/ loop = "collecting")
    BY <1>7 DEF PassRaises, Stopped
  <2>2. CASE loop = "collecting" /\ runs' # runs
    <3>1. /\ current \in Slot /\ ToVisit(current)
          /\ runs' = [runs EXCEPT ![current] = {"COMPLETED"}]
      BY <1>7, <2>2 DEF PassRaises, LoopInv, LeaseMatchesLoop, Pending, ToVisit, TypeOK
    <3> QED BY <2>1, <3>1, <1>5
  <2> QED BY <2>1, <2>2, <1>1
<1>8. CASE \/ start_foreground \/ Wake \/ BeginTick \/ BeginEod \/ EndPass
           \/ (\E s \in Slot : SlotLeaseHeld(s) \/ BeginSlot(s))
           \/ Crash \/ ManualBegin \/ LeaseFreed
  <2>1. now' = now /\ runs' = runs
    BY <1>8 DEF start_foreground, Wake, BeginTick, BeginEod, EndPass, SlotLeaseHeld,
       BeginSlot, Crash, Stopped, ManualBegin, LeaseFreed
  <2> QED BY <2>1, <1>1
<1> HIDE DEF view
<1> QED BY <1>2, <1>3, <1>4, <1>6, <1>7, <1>8 DEF Next, LoopStep, SlotStep, view

(* The loop implements the ledger: whatever restarts, exceptions, refused  *)
(* leases and slow passes do, a slot is settled once, not before its time, *)
(* and is given up only when its grace window is over.                     *)
THEOREM LoopImplementsLedger == Spec => LedgerSpec
  BY InitImplementsLedger, SpecKeepsLoopInv, StepImplementsLedger, PTL
     DEF Spec, LedgerSpec, Ledger!Spec

-----------------------------------------------------------------------------
(***************************************************************************)
(* The live panels: the queue of the lock.                                 *)
(***************************************************************************)

LEMMA AppendedQueue ==
  ASSUME NEW S, NEW w \in Seq(S), NEW q \in S
  PROVE  /\ Append(w, q) \in Seq(S) /\ Append(w, q) # <<>>
         /\ ToSet(Append(w, q)) = ToSet(w) \cup {q}
         /\ IsInjective(w) /\ q \notin ToSet(w) => IsInjective(Append(w, q))
<1>1. /\ Len(Append(w, q)) = Len(w) + 1 /\ Len(w) \in Nat
      /\ Append(w, q)[Len(w) + 1] = q
      /\ \A i \in 1..Len(w) : Append(w, q)[i] = w[i]
      /\ DOMAIN w = 1..Len(w) /\ DOMAIN Append(w, q) = 1..Len(w) + 1
  OBVIOUS
<1>2. 1..Len(w) + 1 = 1..Len(w) \cup {Len(w) + 1}
  BY <1>1
<1> QED
  BY <1>1, <1>2 DEF ToSet, IsInjective

LEMMA ShortenedQueue ==
  ASSUME NEW S, NEW w \in Seq(S), w # <<>>
  PROVE  /\ Head(w) \in ToSet(w) /\ Tail(w) \in Seq(S)
         /\ ToSet(Tail(w)) \subseteq ToSet(w)
         /\ IsInjective(w) => IsInjective(Tail(w)) /\ Head(w) \notin ToSet(Tail(w))
<1>1. /\ Len(w) \in Nat \ {0} /\ DOMAIN w = 1..Len(w)
      /\ Head(w) = w[1] /\ Tail(w) \in Seq(S)
      /\ DOMAIN Tail(w) = 1..Len(w) - 1
      /\ \A i \in 1..Len(w) - 1 : Tail(w)[i] = w[i + 1]
  OBVIOUS
<1>2. 1 \in 1..Len(w) /\ \A i \in 1..Len(w) - 1 : i + 1 \in 1..Len(w) /\ i + 1 # 1
  BY <1>1
<1>3. Head(w) \in ToSet(w) /\ ToSet(Tail(w)) \subseteq ToSet(w)
  BY <1>1, <1>2 DEF ToSet
<1>4. ASSUME IsInjective(w) PROVE IsInjective(Tail(w)) /\ Head(w) \notin ToSet(Tail(w))
  <2>1. Head(w) \notin ToSet(Tail(w))
    BY <1>1, <1>2, <1>4 DEF ToSet, IsInjective
  <2>2. ASSUME NEW i \in 1..Len(w) - 1, NEW j \in 1..Len(w) - 1, Tail(w)[i] = Tail(w)[j]
        PROVE  i = j
    <3>1. i + 1 = j + 1
      BY <1>1, <1>2, <1>4, <2>2 DEF IsInjective
    <3> QED
      BY <3>1
  <2> QED
    BY <1>1, <2>1, <2>2 DEF IsInjective
<1> QED
  BY <1>1, <1>3, <1>4

LEMMA MaxOfTwo ==
  ASSUME NEW a \in Nat, NEW b \in Nat
  PROVE  Max({a, b}) \in Nat /\ Max({a, b}) >= a /\ Max({a, b}) >= b
<1>1. \E m \in {a, b} : \A n \in {a, b} : m >= n
  OBVIOUS
<1> QED
  BY <1>1 DEF Max

LEMMA MinOfTwo ==
  ASSUME NEW a \in Nat, NEW b \in Nat
  PROVE  Min({a, b}) \in Nat /\ Min({a, b}) <= a /\ Min({a, b}) <= b
<1>1. \E m \in {a, b} : \A n \in {a, b} : m =< n
  OBVIOUS
<1> QED
  BY <1>1 DEF Min

-----------------------------------------------------------------------------
(* The typing of the live panels.                                          *)

LEMMA PanelConstants ==
  /\ Widespread \in Nat \ {0} /\ TripAfter \in Nat \ {0} /\ RestAfter \in Nat \ {0}
  /\ FirstPause \in Nat \ {0} /\ LaterPause \in Nat \ {0} /\ Rest \in Nat \ {0}
  /\ MaxAge \in Nat /\ MaxLag \in Nat
BY PanelAssumption

LEMMA PauseBounds ==
  /\ Max({FirstPause, LaterPause}) \in Nat
  /\ FirstPause \in Nat /\ FirstPause <= Max({FirstPause, LaterPause})
  /\ LaterPause \in Nat /\ LaterPause <= Max({FirstPause, LaterPause})
BY PanelConstants, MaxOfTwo

LEMMA PanelTypeInit == PanelInit => PanelTypeOK
<1> SUFFICES ASSUME PanelInit PROVE PanelTypeOK
  OBVIOUS
<1>1. /\ 0 \in 0..TripAfter - 1 /\ 0 \in 0..RestAfter /\ 0 \in 0..MaxLag
      /\ -MaxLag \in -MaxLag..Rest
      /\ -MaxLag \in -MaxLag..Max({FirstPause, LaterPause})
  BY PanelConstants, PauseBounds
<1>2. /\ failures \in [Source -> 0..RestAfter]
      /\ quarantine \in [Source -> -MaxLag..Rest]
      /\ call \in [Client -> Call \cup {None}]
      /\ lag \in [Client -> 0..MaxLag]
  BY <1>1 DEF PanelInit
<1>3. queue \in Seq(Client) /\ session \in Session
  BY DEF PanelInit, Session
<1> QED
  BY <1>1, <1>2, <1>3 DEF PanelInit, PanelTypeOK

(* Time that is left only shrinks, down to the bound.                      *)
LEMMA SoonerTyping ==
  ASSUME NEW most \in Nat, NEW left \in -MaxLag..most
  PROVE  Sooner(left) \in -MaxLag..most /\ Sooner(left) <= left
BY PanelConstants DEF Sooner

LEMMA TickTyping == PanelTypeOK /\ Tick => PanelTypeOK'
<1> SUFFICES ASSUME PanelTypeOK, Tick PROVE PanelTypeOK'
  OBVIOUS
<1> USE DEF PanelTypeOK
<1>1. latest' \in Snapshot \cup {None}
  <2>1. CASE latest = None \/ latest.age > MaxAge + MaxLag
    BY <2>1 DEF Tick
  <2>2. CASE ~(latest = None \/ latest.age > MaxAge + MaxLag)
    <3>1. latest \in Snapshot /\ latest.age + 1 \in 0..MaxAge + MaxLag + 1
      BY <2>2, PanelConstants DEF Snapshot
    <3>2. latest' = [latest EXCEPT !.age = latest.age + 1]
      BY <2>2 DEF Tick
    <3> QED
      BY <3>1, <3>2 DEF Snapshot
  <2> QED
    BY <2>1, <2>2
<1>2. breaker' \in -MaxLag..Max({FirstPause, LaterPause})
  BY SoonerTyping, PauseBounds DEF Tick
<1>3. quarantine' \in [Source -> -MaxLag..Rest]
  <2>1. \A s \in Source : Sooner(quarantine[s]) \in -MaxLag..Rest
    BY SoonerTyping, PanelConstants
  <2> QED
    BY <2>1 DEF Tick
<1>4. lag' \in [Client -> 0..MaxLag]
  BY PanelConstants DEF Tick
<1>5. unsaved' \in BOOLEAN
  BY DEF Tick
<1> QED
  BY <1>1, <1>2, <1>3, <1>4, <1>5 DEF Tick, day

LEMMA LeaveTyping ==
  ASSUME PanelTypeOK, NEW q \in Client, Leave(q), queue # <<>>
  PROVE  /\ queue' \in Seq(Client)
         /\ lag' \in [Client -> 0..MaxLag]
         /\ asked' \in (SUBSET Source) \cup {None}
<1>1. 0 \in 0..MaxLag
  BY PanelConstants
<1> QED
  BY <1>1, ShortenedQueue DEF PanelTypeOK, Leave

(* A cycle that opens the breaker ends the count of failed ones.           *)
LEMMA FailedCyclesTyping ==
  ASSUME PanelTypeOK, NEW broken
  PROVE  FailedCycles(broken) \in 0..TripAfter - 1
BY PanelConstants DEF PanelTypeOK, FailedCycles, Trips

LEMMA SafetyTyping ==
  ASSUME PanelTypeOK, NEW q \in Client, NEW good, NEW broken, UpdateSafety(q, good, broken)
  PROVE  /\ failed' \in 0..TripAfter - 1
         /\ tripped' \in BOOLEAN
         /\ breaker' \in -MaxLag..Max({FirstPause, LaterPause})
         /\ failures' \in [Source -> 0..RestAfter]
         /\ quarantine' \in [Source -> -MaxLag..Rest]
<1> USE PanelConstants DEF PanelTypeOK
<1>1. failed' \in 0..TripAfter - 1
  BY FailedCyclesTyping DEF UpdateSafety
<1>2. tripped' \in BOOLEAN
  BY DEF UpdateSafety, Trips, WidespreadFailure
<1>3. lag[q] \in 0..MaxLag
  OBVIOUS
<1>4. breaker' \in -MaxLag..Max({FirstPause, LaterPause})
  <2> DEFINE pause == IF tripped THEN LaterPause ELSE FirstPause
  <2>1. pause \in Nat /\ pause <= Max({FirstPause, LaterPause})
    BY PauseBounds
  <2>2. pause - lag[q] \in -MaxLag..Max({FirstPause, LaterPause})
    BY <1>3, <2>1, PauseBounds
  <2>3. breaker' = IF ~ Trips(broken) THEN breaker ELSE pause - lag[q]
    BY DEF UpdateSafety
  <2> QED
    BY <2>2, <2>3
<1>5. failures' \in [Source -> 0..RestAfter]
  <2>1. \A s \in Source : Min({failures[s] + 1, RestAfter}) \in 0..RestAfter
    <3> TAKE s \in Source
    <3>1. failures[s] + 1 \in Nat /\ RestAfter \in Nat
      OBVIOUS
    <3>2. /\ Min({failures[s] + 1, RestAfter}) \in Nat
          /\ Min({failures[s] + 1, RestAfter}) <= RestAfter
      BY <3>1, MinOfTwo
    <3> QED
      BY <3>1, <3>2
  <2>2. 0 \in 0..RestAfter
    OBVIOUS
  <2> DEFINE f(s) == CASE s \in good -> 0
                       [] s \in Failing(good) -> Min({failures[s] + 1, RestAfter})
                       [] OTHER -> failures[s]
  <2>3. \A s \in Source : f(s) \in 0..RestAfter
    BY <2>1, <2>2 DEF Failing
  <2>4. failures' = [s \in Source |-> f(s)]
    BY DEF UpdateSafety
  <2> HIDE DEF f
  <2> QED
    BY <2>3, <2>4
<1>6. quarantine' \in [Source -> -MaxLag..Rest]
  <2> DEFINE f(s) == CASE s \in good -> -MaxLag
                       [] s \in Failing(good) /\ failures[s] + 1 >= RestAfter -> Rest - lag[q]
                       [] OTHER -> quarantine[s]
  <2>1. -MaxLag \in -MaxLag..Rest /\ Rest - lag[q] \in -MaxLag..Rest
    BY <1>3
  <2>2. \A s \in Source : f(s) \in -MaxLag..Rest
    BY <2>1 DEF Failing
  <2>3. quarantine' = [s \in Source |-> f(s)]
    BY DEF UpdateSafety
  <2> HIDE DEF f
  <2> QED
    BY <2>2, <2>3
<1> QED
  BY <1>1, <1>2, <1>4, <1>5, <1>6

LEMMA FinishTyping ==
  ASSUME PanelTypeOK, NEW q \in Client, Finish(q), queue # <<>>
  PROVE  PanelTypeOK'
<1> USE DEF PanelTypeOK
<1>1. PICK good \in SUBSET asked, saved \in BOOLEAN, whole \in BOOLEAN :
       \E broken \in SUBSET (asked \ good) :
         /\ UpdateSafety(q, good, broken)
         /\ latest' = IF saved THEN [age |-> lag[q], whole |-> whole] ELSE latest
         /\ call' = [c \in Client |->
              IF c = q \/ call[c] = None THEN None
              ELSE [call[c] EXCEPT !.overtaken = @ \/ saved]]
         /\ unsaved' = IF Trips(broken) THEN ~ saved ELSE unsaved
  BY DEF Finish
<1>2. PICK broken \in SUBSET (asked \ good) :
         /\ UpdateSafety(q, good, broken)
         /\ latest' = IF saved THEN [age |-> lag[q], whole |-> whole] ELSE latest
         /\ call' = [c \in Client |->
              IF c = q \/ call[c] = None THEN None
              ELSE [call[c] EXCEPT !.overtaken = @ \/ saved]]
         /\ unsaved' = IF Trips(broken) THEN ~ saved ELSE unsaved
  BY <1>1
<1>3. lag[q] \in 0..MaxAge + MaxLag + 1
  BY PanelConstants
<1>4. latest' \in Snapshot \cup {None}
  BY <1>2, <1>3 DEF Snapshot
<1>5. call' \in [Client -> Call \cup {None}]
  <2>1. \A c \in Client : call[c] # None =>
          [call[c] EXCEPT !.overtaken = @ \/ saved] \in Call
    BY DEF Call
  <2> QED
    BY <1>2, <2>1
<1>6. unsaved' \in BOOLEAN
  BY <1>2
<1> QED
  BY <1>2, <1>4, <1>5, <1>6, SafetyTyping, LeaveTyping DEF Finish, day

(* The calls of the queue: each waits once, and for as long as it does the *)
(* service knows what it was asked for.                                    *)
Waiting ==
  /\ asked # None => queue # <<>>
  /\ IsInjective(queue)
  /\ \A q \in ToSet(queue) : call[q] # None

(* The snapshot of the cycle that opened the breaker answers every call    *)
(* that still waits.                                                       *)
TripAnswersWaiting ==
  CircuitOpen /\ ~unsaved =>
    /\ latest # None /\ asked = None
    /\ \A q \in ToSet(queue) : call[q].overtaken

PanelInv == PanelTypeOK /\ Waiting /\ TripAnswersWaiting

LEMMA PanelInvInit == PanelInit => PanelInv
<1> SUFFICES ASSUME PanelInit PROVE PanelInv
  OBVIOUS
<1>1. ToSet(<<>>) = {} /\ IsInjective(<<>>)
  BY DEF ToSet, IsInjective
<1>2. ~CircuitOpen
  BY PanelConstants DEF PanelInit, CircuitOpen
<1> QED
  BY <1>1, <1>2, PanelTypeInit DEF PanelInit, PanelInv, Waiting, TripAnswersWaiting

LEMMA TickKeepsPanels == PanelInv /\ Tick => PanelInv'
<1> SUFFICES ASSUME PanelInv, Tick PROVE PanelInv'
  OBVIOUS
<1>1. PanelTypeOK'
  BY TickTyping DEF PanelInv
<1>2. Waiting'
  BY DEF PanelInv, Waiting, Tick
<1>3. latest # None => latest' # None
  <2>1. CASE latest.age > MaxAge + MaxLag
    BY <2>1 DEF Tick
  <2>2. CASE latest # None /\ ~(latest.age > MaxAge + MaxLag)
    <3>1. latest \in Snapshot /\ latest' = [latest EXCEPT !.age = latest.age + 1]
      BY <2>2 DEF Tick, PanelInv, PanelTypeOK
    <3>2. latest' \in Snapshot
      BY <2>2, <3>1, PanelConstants DEF Snapshot
    <3> QED
      BY <3>2, NoneAssumption
  <2> QED
    BY <2>1, <2>2
<1>4. breaker' <= breaker /\ breaker \in Int /\ breaker' \in Int
  BY <1>1, SoonerTyping, PauseBounds, PanelConstants DEF PanelInv, PanelTypeOK, Tick
<1>5. CircuitOpen' /\ ~unsaved' => CircuitOpen /\ ~unsaved
  <2>1. breaker' > 0 => breaker > 0
    BY <1>4
  <2>2. unsaved' = (unsaved /\ breaker' > 0)
    BY DEF Tick
  <2> QED
    BY <2>1, <2>2 DEF CircuitOpen
<1>6. TripAnswersWaiting'
  BY <1>3, <1>5 DEF PanelInv, TripAnswersWaiting, Tick
<1> QED
  BY <1>1, <1>2, <1>6 DEF PanelInv

LEMMA EnterKeepsPanels ==
  ASSUME PanelInv, NEW q \in Client, NEW refresh \in BOOLEAN, NEW force \in BOOLEAN,
         Enter(q, refresh, force)
  PROVE  PanelInv'
<1> USE DEF PanelInv, safety, day
<1> DEFINE new == [refresh |-> refresh, force |-> force,
                   session |-> session, overtaken |-> FALSE]
<1>1. new \in Call
  BY DEF PanelTypeOK, Call
<1>2. queue' = Append(queue, q) /\ call' = [call EXCEPT ![q] = new]
  BY DEF Enter
<1> HIDE DEF new
<1>3. queue \in Seq(Client) /\ call \in [Client -> Call \cup {None}]
  BY DEF PanelTypeOK
<1>4. queue' \in Seq(Client) /\ call' \in [Client -> Call \cup {None}]
  BY <1>1, <1>2, <1>3, AppendedQueue
<1>5. PanelTypeOK'
  BY <1>4 DEF PanelTypeOK, Enter
<1>6. call'[q] = new /\ \A c \in Client \ {q} : call'[c] = call[c]
  BY <1>2, <1>3
<1>7. new # None
  BY <1>1, NoneAssumption
<1>8. ToSet(queue) \subseteq Client
  BY <1>3 DEF ToSet
<1>9. Waiting'
  <2>1. q \notin ToSet(queue) /\ asked' = asked /\ Waiting
    BY DEF Enter
  <2>2. queue' # <<>> /\ ToSet(queue') = ToSet(queue) \cup {q} /\ IsInjective(queue')
    BY <1>2, <1>3, <2>1, AppendedQueue DEF Waiting
  <2> QED
    BY <1>6, <1>7, <1>8, <2>1, <2>2 DEF Waiting
<1>10. TripAnswersWaiting'
  BY DEF Enter, CircuitOpen, TripAnswersWaiting
<1> QED
  BY <1>5, <1>9, <1>10

LEMMA AnswerKeepsPanels ==
  ASSUME PanelInv, NEW q \in Client, Answer(q)
  PROVE  PanelInv'
<1> USE DEF PanelInv, safety, day
<1>1. /\ queue # <<>> /\ q = Head(queue) /\ queue \in Seq(Client)
      /\ queue' = Tail(queue) /\ asked' = None
      /\ call' = [call EXCEPT ![q] = None] /\ call \in [Client -> Call \cup {None}]
      /\ UNCHANGED <<latest, breaker, unsaved>>
  BY DEF Answer, Holds, Leave, PanelTypeOK
<1>2. PanelTypeOK'
  BY <1>1, LeaveTyping DEF PanelTypeOK, Answer
<1>3. /\ IsInjective(queue') /\ q \notin ToSet(queue')
      /\ ToSet(queue') \subseteq ToSet(queue)
  BY <1>1, ShortenedQueue DEF Waiting
<1>4. \A c \in ToSet(queue') : call'[c] = call[c]
  BY <1>1, <1>3 DEF ToSet
<1>5. Waiting'
  BY <1>1, <1>3, <1>4 DEF Waiting
<1>6. TripAnswersWaiting'
  BY <1>1, <1>3, <1>4 DEF TripAnswersWaiting, CircuitOpen
<1> QED
  BY <1>2, <1>5, <1>6

(* Who holds the lock while the breaker is open and the snapshot is stored *)
(* is answered from it.                                                    *)
LEMMA FetchKeepsPanels ==
  ASSUME PanelInv, NEW q \in Client, Fetch(q)
  PROVE  PanelInv'
<1> USE DEF PanelInv, safety, day
<1>1. queue # <<>> /\ q = Head(queue) /\ ~Answered(q)
  BY DEF Fetch, Holds
<1>2. q \in ToSet(queue)
  BY <1>1, ShortenedQueue DEF PanelTypeOK
<1>3. ~(CircuitOpen /\ ~unsaved)
  BY <1>1, <1>2 DEF TripAnswersWaiting, Answered
<1>4. PanelTypeOK'
  <2>1. Allowed(q) \subseteq Source
    BY PanelAssumption DEF Allowed
  <2> QED
    BY <2>1 DEF Fetch, PanelTypeOK
<1>5. Waiting'
  BY <1>1 DEF Waiting, Fetch
<1>6. TripAnswersWaiting'
  BY <1>3 DEF TripAnswersWaiting, CircuitOpen, Fetch
<1> QED
  BY <1>4, <1>5, <1>6

(* A cycle that opens the breaker and is stored overtakes every call that  *)
(* waits.                                                                  *)
LEMMA FinishKeepsPanels ==
  ASSUME PanelInv, NEW q \in Client, Finish(q)
  PROVE  PanelInv'
<1> USE DEF PanelInv
<1>1. /\ asked # None /\ queue # <<>> /\ q = Head(queue) /\ queue \in Seq(Client)
      /\ queue' = Tail(queue) /\ asked' = None /\ call \in [Client -> Call \cup {None}]
  BY DEF Finish, Leave, Waiting, PanelTypeOK
<1>2. PICK saved \in BOOLEAN, whole \in BOOLEAN :
       \E good \in SUBSET asked : \E broken \in SUBSET (asked \ good) :
         /\ UpdateSafety(q, good, broken)
         /\ latest' = IF saved THEN [age |-> lag[q], whole |-> whole] ELSE latest
         /\ call' = [c \in Client |->
              IF c = q \/ call[c] = None THEN None
              ELSE [call[c] EXCEPT !.overtaken = @ \/ saved]]
         /\ unsaved' = IF Trips(broken) THEN ~ saved ELSE unsaved
  BY DEF Finish
<1>3. PICK broken : \E good \in SUBSET asked :
         /\ UpdateSafety(q, good, broken)
         /\ latest' = IF saved THEN [age |-> lag[q], whole |-> whole] ELSE latest
         /\ call' = [c \in Client |->
              IF c = q \/ call[c] = None THEN None
              ELSE [call[c] EXCEPT !.overtaken = @ \/ saved]]
         /\ unsaved' = IF Trips(broken) THEN ~ saved ELSE unsaved
  BY <1>2
<1>4. PanelTypeOK'
  BY <1>1, FinishTyping
<1>5. /\ IsInjective(queue') /\ q \notin ToSet(queue')
      /\ ToSet(queue') \subseteq ToSet(queue)
  BY <1>1, ShortenedQueue DEF Waiting
<1>6. \A c \in ToSet(queue') : c \in Client /\ c # q /\ call[c] \in Call
  BY <1>1, <1>5 DEF Waiting, ToSet
<1>7. \A c \in ToSet(queue') : call'[c] \in Call /\ (saved => call'[c].overtaken)
  <2> SUFFICES ASSUME NEW c \in ToSet(queue')
               PROVE  call'[c] \in Call /\ (saved => call'[c].overtaken)
    OBVIOUS
  <2>1. call[c] \in Call /\ call[c] # None /\ c \in Client /\ c # q
    BY <1>6, NoneAssumption
  <2>2. call'[c] = [call[c] EXCEPT !.overtaken = @ \/ saved]
    BY <1>3, <2>1
  <2> QED
    BY <2>1, <2>2 DEF Call
<1>8. Waiting'
  BY <1>1, <1>5, <1>7, NoneAssumption DEF Waiting
<1>9. TripAnswersWaiting'
  <2>1. ~(CircuitOpen /\ ~unsaved)
    BY <1>1 DEF TripAnswersWaiting
  <2>2. CASE ~Trips(broken)
    <3>1. breaker' = breaker /\ unsaved' = unsaved
      BY <1>3, <2>2 DEF UpdateSafety
    <3> QED
      BY <2>1, <3>1 DEF TripAnswersWaiting, CircuitOpen
  <2>3. CASE Trips(broken) /\ saved
    <3>1. latest' = [age |-> lag[q], whole |-> whole]
      BY <1>3, <2>3
    <3>2. latest' \in Snapshot
      BY <3>1, PanelConstants DEF PanelTypeOK, Snapshot
    <3>3. latest' # None
      BY <3>2, NoneAssumption
    <3> QED
      BY <1>1, <1>7, <2>3, <3>3 DEF TripAnswersWaiting
  <2>4. CASE Trips(broken) /\ ~saved
    BY <1>3, <2>4 DEF TripAnswersWaiting
  <2> QED
    BY <2>2, <2>3, <2>4
<1> QED
  BY <1>4, <1>8, <1>9

LEMMA PanelInvStep == PanelInv /\ [PanelNext]_panelVars => PanelInv'
<1> SUFFICES ASSUME PanelInv, [PanelNext]_panelVars PROVE PanelInv'
  OBVIOUS
<1> USE DEF PanelInv, safety, calls, day
<1>1. CASE Tick
  BY <1>1, TickKeepsPanels
<1>2. CASE NextSession
  BY <1>2 DEF NextSession, PanelTypeOK, Session, Waiting, TripAnswersWaiting, CircuitOpen
<1>3. CASE CalmDown
  BY <1>3 DEF CalmDown, PanelTypeOK, Waiting, TripAnswersWaiting, CircuitOpen
<1>4. CASE Stop
  BY <1>4 DEF Stop, PanelTypeOK, Waiting, TripAnswersWaiting, CircuitOpen
<1>5. CASE LoopCalls
  BY <1>5, EnterKeepsPanels DEF LoopCalls, Client
<1>6. ASSUME NEW q \in Callers, Request(q) PROVE PanelInv'
  BY <1>6, EnterKeepsPanels DEF Request, Client
<1>7. ASSUME NEW q \in Client, Work(q) PROVE PanelInv'
  BY <1>7, AnswerKeepsPanels, FetchKeepsPanels, FinishKeepsPanels DEF Work
<1>8. CASE UNCHANGED panelVars
  BY <1>8 DEF panelVars, PanelTypeOK, Waiting, TripAnswersWaiting, CircuitOpen
<1> QED
  BY <1>1, <1>2, <1>3, <1>4, <1>5, <1>6, <1>7, <1>8 DEF PanelNext

LEMMA PanelsKeepInv == PanelSpec => []PanelInv
BY PanelInvInit, PanelInvStep, PTL DEF PanelSpec

(* Every variable of the live panels keeps to its type; the pauses of      *)
(* breaker and sources never exceed what the configuration says.           *)
THEOREM PanelTyping == PanelSpec => []PanelTypeOK
BY PanelsKeepInv, PTL DEF PanelInv

(* For any number of callers and sources and any thresholds and pauses:    *)
(* while the breaker is open nothing is asked of the publisher, unless the *)
(* snapshot of the cycle that opened it could not be saved.                *)
THEOREM OpenBreakerStopsFetches == PanelSpec => []BreakerStopsFetches
<1>1. PanelInv => BreakerStopsFetches
  BY DEF PanelInv, TripAnswersWaiting, BreakerStopsFetches
<1> QED
  BY <1>1, PanelsKeepInv, PTL
=============================================================================
