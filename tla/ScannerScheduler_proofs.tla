----------------------- MODULE ScannerScheduler_proofs -----------------------
(***************************************************************************)
(* Proofs about the scanner's scheduler for any set of requests and any    *)
(* number of starts.  One step of each proof per group of actions; the     *)
(* steps of run_once are the same for loop threads and requests.           *)
(***************************************************************************)
EXTENDS ScannerScheduler, TLAPS

LEMMA ScannersApart ==
  /\ Loops \subseteq Scanners /\ Requests \subseteq Scanners
  /\ Requests \cap Loops = {} /\ None \notin Scanners
BY ScannerAssumption DEF Scanners

Place == {"idle", "top", "waiting", "leaving", "dead"} \cup Scanning

(* A thread moves to a place that it may be in.                            *)
LEMMA GotoKeepsPlaces ==
  ASSUME TypeOK, NEW a \in Scanners, NEW l \in Place, Goto(a, l),
         a \in Requests => l \in {"idle"} \cup Scanning
  PROVE  pc' \in [Scanners -> Place] /\ \A r \in Requests : pc'[r] \in {"idle"} \cup Scanning
BY ScannersApart DEF TypeOK, Goto, Place

LEMMA LaunchKeepsPlaces ==
  ASSUME TypeOK, started < MaxStarts, LaunchLoop
  PROVE  /\ started' \in 0..MaxStarts
         /\ pc' \in [Scanners -> Place]
         /\ \A r \in Requests : pc'[r] \in {"idle"} \cup Scanning
<1>1. started + 1 \in Loops /\ started' \in 0..MaxStarts
  BY ScannerAssumption DEF TypeOK, LaunchLoop, Loops
<1>2. Goto(started + 1, "top")
  BY DEF LaunchLoop, Goto
<1>3. "top" \in Place /\ started + 1 \in Scanners \ Requests
  BY <1>1, ScannersApart DEF Place
<1> QED BY <1>1, <1>2, <1>3, GotoKeepsPlaces

LEMMA ScanKeepsTypes ==
  ASSUME TypeOK, NEW a \in Scanners, ScanStep(a)
  PROVE  TypeOK'
<1> USE DEF TypeOK, control, config, Place
<1>1. CASE SkipRunning(a) \/ EnterScan(a) \/ ReturnScan(a)
  <2>1. PICK l \in Place : Goto(a, l) /\ (a \in Requests => l \in {"idle"} \cup Scanning)
    BY <1>1, ScannersApart DEF SkipRunning, EnterScan, ReturnScan, After, Scanning
  <2> QED BY <1>1, <2>1, GotoKeepsPlaces DEF SkipRunning, EnterScan, ReturnScan
<1>2. CASE create_scanner_run(a) \/ FailEarly(a) \/ finish_scanner_run(a)
  <2>1. PICK l \in Scanning : Goto(a, l)
    BY <1>2 DEF create_scanner_run, FailEarly, finish_scanner_run, Scanning
  <2>2. pc' \in [Scanners -> Place] /\ \A r \in Requests : pc'[r] \in {"idle"} \cup Scanning
    BY <2>1, GotoKeepsPlaces
  <2>3. row' \in [Scanners -> {"none", "RUNNING", "finished"}] /\ abandoned' \subseteq Scanners
    BY <1>2 DEF create_scanner_run, FailEarly, finish_scanner_run
  <2>4. UNCHANGED <<process, running, stop, started, command, enabled, asked, unsaved, runLock, killed>>
    BY <1>2 DEF create_scanner_run, FailEarly, finish_scanner_run
  <2> QED BY <2>2, <2>3, <2>4
<1>3. CASE RaiseOut(a)
  <2>1. PICK l \in Place : Goto(a, l) /\ (a \in Requests => l \in {"idle"} \cup Scanning)
    BY <1>3, ScannersApart DEF RaiseOut
  <2>2. killed' \subseteq Loops /\ abandoned' \subseteq Scanners /\ runLock' \in Scanners \cup {None}
    BY <1>3 DEF RaiseOut
  <2>3. UNCHANGED <<process, running, stop, started, command, enabled, asked, unsaved, row>>
    BY <1>3 DEF RaiseOut
  <2>4. pc' \in [Scanners -> Place] /\ \A r \in Requests : pc'[r] \in {"idle"} \cup Scanning
    BY <2>1, GotoKeepsPlaces
  <2> QED BY <2>2, <2>3, <2>4
<1> QED BY <1>1, <1>2, <1>3 DEF ScanStep

LEMMA TypingInductive == TypeOK /\ [Next]_vars => TypeOK'
<1> SUFFICES ASSUME TypeOK, [Next]_vars PROVE TypeOK'
  OBVIOUS
<1> USE DEF TypeOK, threads, control, config, Place
<1>1. CASE UNCHANGED vars
  BY <1>1 DEF vars
<1>2. CASE ApiStep
  <2>1. CASE Start
    BY <2>1, LaunchKeepsPlaces DEF Start, LaunchLoop
  <2>2. CASE StartAlready \/ Stop \/ SaveConfig \/ SaveRaises
    BY <2>2 DEF StartAlready, Stop, SaveConfig, SaveRaises
  <2> QED BY <1>2, <2>1, <2>2 DEF ApiStep
<1>3. CASE LifeStep
  <2>1. CASE Startup /\ enabled
    <3>1. LaunchLoop
      BY <2>1 DEF Startup
    <3>2. /\ process' = "up" /\ stop' = FALSE /\ running' = TRUE /\ command' = "restoring"
          /\ UNCHANGED <<enabled, asked, unsaved, runLock, row, killed, abandoned>>
      BY <2>1, <3>1 DEF Startup, LaunchLoop
    <3>3. started < MaxStarts
      BY <2>1, ScannerAssumption DEF Startup
    <3> QED BY <3>1, <3>2, <3>3, LaunchKeepsPlaces
  <2>2. CASE Startup /\ ~enabled
    BY <2>2 DEF Startup
  <2>3. CASE SaveRestored \/ Shutdown
    BY <2>3 DEF SaveRestored, Shutdown
  <2>4. CASE Exit
    <3>1. pc' \in [Scanners -> Place] /\ \A r \in Requests : pc'[r] \in {"idle"} \cup Scanning
      BY <2>4, ScannersApart DEF Exit
    <3>2. started' \in 0..MaxStarts /\ runLock' = None /\ process' = "down" /\ command' = "none"
      BY <2>4, ScannerAssumption DEF Exit
    <3>3. killed' \subseteq Loops /\ abandoned' \subseteq Scanners
      BY <2>4 DEF Exit
    <3>4. /\ started' = 0 /\ running' = FALSE /\ stop' = FALSE
          /\ UNCHANGED <<row, enabled, asked, unsaved>>
      BY <2>4 DEF Exit
    <3> QED BY <3>1, <3>2, <3>3, <3>4
  <2> QED BY <1>3, <2>1, <2>2, <2>3, <2>4 DEF LifeStep
<1>4. ASSUME NEW a \in Scanners, ScanStep(a) PROVE TypeOK'
  BY <1>4, ScanKeepsTypes
<1>5. ASSUME NEW r \in Requests, RequestScan(r) PROVE TypeOK'
  BY <1>5, ScannersApart, GotoKeepsPlaces DEF RequestScan, Scanning
<1>6. ASSUME NEW l \in Loops, LoopStep(l) PROVE TypeOK'
  <2>1. PICK p \in Place : Goto(l, p)
    BY <1>6 DEF LoopStep, CheckStop, CalendarBlocks, EndWait, LeaveLoop, After, Scanning
  <2>2. /\ running' \in BOOLEAN
        /\ UNCHANGED <<process, stop, started, runLock, row, killed, abandoned>>
        /\ UNCHANGED <<command, enabled, asked, unsaved>>
    BY <1>6 DEF LoopStep, CheckStop, CalendarBlocks, EndWait, LeaveLoop
  <2> QED BY <2>1, <2>2, ScannersApart, GotoKeepsPlaces
<1> QED BY <1>1, <1>2, <1>3, <1>4, <1>5, <1>6, ScannersApart DEF Next

(* Every variable of the scheduler keeps its type.                         *)
THEOREM ScannerTyping == Spec => []TypeOK
<1>1. Init => TypeOK
  <2> SUFFICES ASSUME Init PROVE TypeOK
    OBVIOUS
  <2>1. pc \in [Scanners -> Place] /\ \A r \in Requests : pc[r] \in {"idle"} \cup Scanning
    BY ScannersApart DEF Init, Place
  <2>2. started \in 0..MaxStarts /\ started = 0 /\ runLock = None
    BY ScannerAssumption DEF Init
  <2> QED BY <2>1, <2>2 DEF Init, TypeOK, Place
<1> QED BY <1>1, TypingInductive, PTL DEF Spec
-----------------------------------------------------------------------------
(* What keeps self.running true of the newest thread: the event is clear   *)
(* whenever running is set, so that thread cannot have seen it.            *)
RunningInv ==
  running => started \in Loops /\ ~stop /\ (Alive(started) \/ started \in killed)

LEMMA RunningInductive == TypeOK /\ RunningInv /\ [Next]_vars => RunningInv'
<1> SUFFICES ASSUME TypeOK, RunningInv, [Next]_vars PROVE RunningInv'
  OBVIOUS
<1> USE DEF RunningInv, Alive, threads, control, config
<1>1. ASSUME started < MaxStarts, LaunchLoop PROVE RunningInv'
  <2>1. started' \in Loops /\ started' \in Scanners
    BY <1>1, ScannerAssumption, ScannersApart DEF LaunchLoop, TypeOK, Loops
  <2>2. pc'[started'] = "top" /\ ~stop'
    BY <1>1, <2>1 DEF LaunchLoop, TypeOK
  <2> QED BY <2>1, <2>2
<1>2. CASE UNCHANGED vars
  BY <1>2 DEF vars
<1>3. CASE ApiStep
  <2>1. CASE Start
    BY <1>1, <2>1 DEF Start
  <2>2. CASE Stop
    BY <2>2 DEF Stop
  <2>3. CASE StartAlready \/ SaveConfig \/ SaveRaises
    <3>1. UNCHANGED <<running, stop, started, pc, killed>>
      BY <2>3 DEF StartAlready, SaveConfig, SaveRaises
    <3> QED BY <3>1
  <2> QED BY <1>3, <2>1, <2>2, <2>3 DEF ApiStep
<1>4. CASE LifeStep
  <2>1. CASE Startup /\ enabled
    <3>1. started < MaxStarts
      BY <2>1, ScannerAssumption DEF Startup, TypeOK
    <3> QED BY <1>1, <2>1, <3>1 DEF Startup
  <2>2. CASE (Startup /\ ~enabled) \/ SaveRestored
    <3>1. UNCHANGED <<running, stop, started, pc, killed>>
      BY <2>2 DEF Startup, SaveRestored
    <3> QED BY <3>1
  <2>3. CASE Shutdown \/ Exit
    BY <2>3 DEF Shutdown, Exit
  <2> QED BY <1>4, <2>1, <2>2, <2>3 DEF LifeStep
<1>5. ASSUME NEW a \in Scanners, ScanStep(a) PROVE RunningInv'
  <2>1. UNCHANGED control
    BY <1>5 DEF ScanStep, SkipRunning, EnterScan, create_scanner_run, FailEarly,
                finish_scanner_run, ReturnScan, RaiseOut
  <2>2. PICK l \in Place : Goto(a, l)
    BY <1>5, ScannersApart DEF ScanStep, SkipRunning, EnterScan, create_scanner_run, FailEarly,
       finish_scanner_run, ReturnScan, RaiseOut, After, Place, Scanning
  <2>3. CASE a # started \/ ~running
    <3>1. a # started => pc'[started] = pc[started]
      BY <2>2 DEF Goto, TypeOK
    <3>2. killed \subseteq killed'
      BY <1>5 DEF ScanStep, SkipRunning, EnterScan, create_scanner_run, FailEarly,
                  finish_scanner_run, ReturnScan, RaiseOut
    <3>3. running' = running /\ stop' = stop /\ started' = started
      BY <2>1
    <3>4. CASE ~running
      BY <3>3, <3>4
    <3>5. CASE a # started
      <4>1. pc'[started'] = pc[started]
        BY <3>1, <3>3, <3>5
      <4> QED BY <3>2, <3>3, <4>1
    <3> QED BY <2>3, <3>4, <3>5
  <2>4. CASE a = started /\ running /\ RaiseOut(a)
    BY <2>1, <2>4 DEF RaiseOut
  <2>5. CASE a = started /\ running /\ ~RaiseOut(a)
    <3>1. pc'[a] \notin {"idle", "leaving", "dead"}
      BY <1>5, <2>5 DEF ScanStep, SkipRunning, EnterScan, create_scanner_run, FailEarly,
         finish_scanner_run, ReturnScan, After, Goto, TypeOK
    <3>2. running' = running /\ stop' = stop /\ started' = started
      BY <2>1
    <3> QED BY <2>5, <3>1, <3>2
  <2> QED BY <2>3, <2>4, <2>5
<1>6. ASSUME NEW r \in Requests, RequestScan(r) PROVE RunningInv'
  <2>1. running => r # started
    BY ScannersApart
  <2> QED BY <1>6, <2>1 DEF RequestScan, Goto, TypeOK
<1>7. ASSUME NEW l \in Loops, LoopStep(l) PROVE RunningInv'
  <2>1. CASE LeaveLoop(l)
    BY <2>1 DEF LeaveLoop
  <2>2. CASE CheckStop(l) \/ CalendarBlocks(l) \/ EndWait(l)
    <3>1. /\ UNCHANGED <<running, stop, started, killed>>
          /\ running => pc'[l] \notin {"idle", "leaving", "dead"}
          /\ \A k \in Loops \ {l} : pc'[k] = pc[k]
      BY <2>2, ScannersApart DEF CheckStop, CalendarBlocks, EndWait, After, Goto, TypeOK
    <3> QED BY <3>1
  <2> QED BY <1>7, <2>1, <2>2 DEF LoopStep
<1> QED BY <1>2, <1>3, <1>4, <1>5, <1>6, <1>7, ScannersApart DEF Next

(* While self.running is set the loop thread of the last start goes on,    *)
(* unless an exception escaped run_once.                                   *)
THEOREM RunningIsTrue == Spec => []RunningHasLoop
<1>1. Init => RunningInv
  BY DEF Init, RunningInv
<1>2. RunningInv => RunningHasLoop
  BY DEF RunningInv, RunningHasLoop
<1> QED BY <1>1, <1>2, RunningInductive, ScannerTyping, PTL DEF Spec
-----------------------------------------------------------------------------
(* Between two commands a running scheduler is an enabled one, unless a    *)
(* save raised; a stop that is still to be saved has ended running.        *)
ScheduleInv ==
  /\ ScheduleIsPersisted
  /\ running /\ command = "none" /\ ~unsaved => enabled
  /\ command = "restoring" => enabled
  /\ command = "stopping" => ~running

LEMMA ScheduleInductive == TypeOK /\ ScheduleInv /\ [Next]_vars => ScheduleInv'
<1> SUFFICES ASSUME TypeOK, ScheduleInv, [Next]_vars PROVE ScheduleInv'
  OBVIOUS
<1> USE DEF ScheduleInv, ScheduleIsPersisted, threads, control, config
<1>1. CASE UNCHANGED vars
  BY <1>1 DEF vars
<1>2. CASE ApiStep
  BY <1>2 DEF ApiStep, Start, LaunchLoop, StartAlready, Stop, SaveConfig, SaveRaises, TypeOK
<1>3. CASE LifeStep
  BY <1>3 DEF LifeStep, Startup, LaunchLoop, SaveRestored, Shutdown, Exit, TypeOK
<1>4. ASSUME NEW a \in Scanners, ScanStep(a) PROVE ScheduleInv'
  BY <1>4 DEF ScanStep, SkipRunning, EnterScan, create_scanner_run, FailEarly,
              finish_scanner_run, ReturnScan, RaiseOut
<1>5. ASSUME NEW r \in Requests, RequestScan(r) PROVE ScheduleInv'
  BY <1>5 DEF RequestScan
<1>6. ASSUME NEW l \in Loops, LoopStep(l) PROVE ScheduleInv'
  BY <1>6 DEF LoopStep, CheckStop, CalendarBlocks, EndWait, LeaveLoop
<1> QED BY <1>1, <1>2, <1>3, <1>4, <1>5, <1>6, ScannersApart DEF Next

(* The configuration row says what the last start or stop asked for,       *)
(* through crashes, shutdowns and restores, unless its save raised.        *)
THEOREM ScheduleSurvives == Spec => []ScheduleIsPersisted
<1>1. Init => ScheduleInv
  BY DEF Init, ScheduleInv, ScheduleIsPersisted
<1>2. ScheduleInv => ScheduleIsPersisted
  BY DEF ScheduleInv
<1> QED BY <1>1, <1>2, ScheduleInductive, ScannerTyping, PTL DEF Spec
-----------------------------------------------------------------------------
(* Whoever is inside _run_once holds the run lock, an unfinished row that  *)
(* nobody left behind is that of a thread about to finish it, and a start  *)
(* gets a thread that was never used.                                      *)
RowInv ==
  /\ \A a \in Scanners : pc[a] \in {"scanning", "recording", "returning"} => runLock = a
  /\ \A a \in Scanners : row[a] = "RUNNING" => pc[a] = "recording" \/ a \in abandoned
  /\ \A l \in Loops : l > started => pc[l] = "idle"

LEMMA LaunchKeepsRows ==
  ASSUME TypeOK, RowInv, started < MaxStarts, LaunchLoop
  PROVE  RowInv'
<1>1. started + 1 \in Loops /\ started + 1 \in Scanners
  BY ScannerAssumption DEF TypeOK, Loops, Scanners
<1>2. pc[started + 1] = "idle"
  BY <1>1 DEF RowInv, TypeOK
<1>3. \A l \in Loops : l > started + 1 => l > started
  BY DEF TypeOK, Loops
<1> QED BY <1>1, <1>2, <1>3 DEF RowInv, LaunchLoop, TypeOK

LEMMA ScanKeepsRows ==
  ASSUME TypeOK, RowInv, NEW a \in Scanners, ScanStep(a)
  PROVE  RowInv'
<1> USE DEF RowInv, TypeOK, Goto, control
<1>1. UNCHANGED started /\ \A l \in Loops : l > started => l # a
  <2>1. pc[a] # "idle"
    BY DEF ScanStep, SkipRunning, EnterScan, create_scanner_run, FailEarly,
           finish_scanner_run, ReturnScan, RaiseOut
  <2>2. UNCHANGED started
    BY DEF ScanStep, SkipRunning, EnterScan, create_scanner_run, FailEarly,
           finish_scanner_run, ReturnScan, RaiseOut
  <2> QED BY <2>1, <2>2
<1>2. \A b \in Scanners \ {a} : pc'[b] = pc[b] /\ row'[b] = row[b] /\ (b \in abandoned => b \in abandoned')
  BY DEF ScanStep, SkipRunning, EnterScan, create_scanner_run, FailEarly,
         finish_scanner_run, ReturnScan, RaiseOut
<1>3. (\A l \in Loops : l > started => pc[l] = "idle")'
  BY <1>1, <1>2, ScannersApart
<1>4. ASSUME NEW b \in Scanners, pc'[b] \in {"scanning", "recording", "returning"}
      PROVE  runLock' = b
  <2>1. CASE SkipRunning(a) \/ EnterScan(a)
    BY <1>2, <1>4, <2>1, ScannersApart DEF SkipRunning, EnterScan, After
  <2>2. CASE create_scanner_run(a) \/ FailEarly(a) \/ finish_scanner_run(a)
    BY <1>2, <1>4, <2>2 DEF create_scanner_run, FailEarly, finish_scanner_run
  <2>3. CASE ReturnScan(a)
    BY <1>2, <1>4, <2>3 DEF ReturnScan, After
  <2>4. CASE RaiseOut(a)
    <3>1. pc'[a] \in {"dead", "idle"}
      BY <2>4 DEF RaiseOut
    <3>2. b # a /\ runLock = b
      BY <1>2, <1>4, <3>1
    <3> QED BY <2>4, <3>2 DEF RaiseOut
  <2> QED BY <2>1, <2>2, <2>3, <2>4 DEF ScanStep
<1>5. ASSUME NEW b \in Scanners, row'[b] = "RUNNING"
      PROVE  pc'[b] = "recording" \/ b \in abandoned'
  <2>1. CASE b # a
    BY <1>2, <1>5, <2>1
  <2>2. CASE b = a /\ create_scanner_run(a)
    BY <2>2 DEF create_scanner_run
  <2>3. CASE b = a /\ finish_scanner_run(a)
    BY <1>5, <2>3 DEF finish_scanner_run
  <2>4. CASE b = a /\ (SkipRunning(a) \/ EnterScan(a) \/ FailEarly(a) \/ ReturnScan(a))
    BY <1>5, <2>4 DEF SkipRunning, EnterScan, FailEarly, ReturnScan
  <2>5. CASE b = a /\ RaiseOut(a)
    BY <1>5, <2>5 DEF RaiseOut
  <2> QED BY <2>1, <2>2, <2>3, <2>4, <2>5 DEF ScanStep
<1> QED BY <1>3, <1>4, <1>5

LEMMA RowInductive == TypeOK /\ RowInv /\ [Next]_vars => RowInv'
<1> SUFFICES ASSUME TypeOK, RowInv, [Next]_vars PROVE RowInv'
  OBVIOUS
<1>1. CASE UNCHANGED <<started, threads>>
  BY <1>1 DEF RowInv, threads
<1>2. CASE ApiStep
  <2>1. CASE Start
    BY <2>1, LaunchKeepsRows DEF Start
  <2>2. CASE StartAlready \/ Stop \/ SaveConfig \/ SaveRaises
    BY <1>1, <2>2 DEF StartAlready, Stop, SaveConfig, SaveRaises, control
  <2> QED BY <1>2, <2>1, <2>2 DEF ApiStep
<1>3. CASE LifeStep
  <2>1. CASE Startup /\ enabled
    <3>1. started < MaxStarts
      BY <2>1, ScannerAssumption DEF Startup, TypeOK
    <3> QED BY <2>1, <3>1, LaunchKeepsRows DEF Startup
  <2>2. CASE (Startup /\ ~enabled) \/ SaveRestored \/ Shutdown
    BY <1>1, <2>2 DEF Startup, SaveRestored, Shutdown, control
  <2>3. CASE Exit
    BY <2>3, ScannersApart DEF Exit, RowInv
  <2> QED BY <1>3, <2>1, <2>2, <2>3 DEF LifeStep
<1>4. ASSUME NEW a \in Scanners, ScanStep(a) PROVE RowInv'
  BY <1>4, ScanKeepsRows
<1>5. ASSUME NEW r \in Requests, RequestScan(r) PROVE RowInv'
  <2>1. r \in Scanners /\ r \notin Loops
    BY ScannersApart
  <2> QED BY <1>5, <2>1, ScannersApart DEF RequestScan, Goto, RowInv, TypeOK, control
<1>6. ASSUME NEW l \in Loops, LoopStep(l) PROVE RowInv'
  <2>1. l \in Scanners /\ pc[l] \notin {"idle", "recording"}
    BY <1>6, ScannersApart DEF LoopStep, CheckStop, CalendarBlocks, EndWait, LeaveLoop
  <2>2. PICK p \in {"leaving", "calling", "waiting", "top", "dead"} : Goto(l, p)
    BY <1>6 DEF LoopStep, CheckStop, CalendarBlocks, EndWait, LeaveLoop, After
  <2>3. UNCHANGED <<started, runLock, row, abandoned>>
    BY <1>6 DEF LoopStep, CheckStop, CalendarBlocks, EndWait, LeaveLoop, control
  <2> QED BY <2>1, <2>2, <2>3, ScannersApart DEF Goto, RowInv, TypeOK
<1>7. CASE UNCHANGED vars
  BY <1>1, <1>7 DEF vars, control
<1> QED BY <1>2, <1>3, <1>4, <1>5, <1>6, <1>7, ScannersApart DEF Next

(* A row RUNNING of scanner_runs is a scan under way, unless the process   *)
(* ended in it or finishing it raised: no interleaving of loop threads,    *)
(* requests, starts and stops leaves one behind.                           *)
THEOREM RunningRowsAreLive == Spec => []RunningRowIsLive
<1>1. Init => RowInv
  BY DEF Init, RowInv, Scanners
<1>2. RowInv => RunningRowIsLive
  BY DEF RowInv, RunningRowIsLive
<1> QED BY <1>1, <1>2, RowInductive, ScannerTyping, PTL DEF Spec
=============================================================================
