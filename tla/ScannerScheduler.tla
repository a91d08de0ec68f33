-------------------------- MODULE ScannerScheduler --------------------------
(***************************************************************************)
(* The scanner's scheduler (scanner_scheduler.py: ScannerScheduler) in the *)
(* API server: loop threads that scan and wait, requests that scan once,   *)
(* start and stop under _lock, the configuration row they save, and the    *)
(* restore at startup.  Time is left out: a wait may end at any moment,    *)
(* because the interval passed or because the event was set, and it ends   *)
(* also when the event was cleared again since.  Of a scan the model keeps *)
(* its row of scanner_runs and what may raise.                             *)
(***************************************************************************)
EXTENDS Naturals

CONSTANTS
  Requests,    \* API worker threads that may be inside run_once
  MaxStarts,   \* bound: loop threads started in one life of the process
  StoreFails,  \* calls of the store may raise
  None

Loops == 1..MaxStarts
Scanners == Loops \cup Requests

ASSUME ScannerAssumption ==
  /\ MaxStarts \in Nat \ {0}
  /\ Requests \cap Loops = {}
  /\ StoreFails \in BOOLEAN
  /\ None \notin Scanners

VARIABLES
  process,    \* the API server: "down", "up", "closing"
  running,    \* self.running
  stop,       \* self._stop is set
  runLock,    \* who holds self._run_lock
  started,    \* the loop threads of this process, self._thread is the last
  pc,         \* where each thread is
  command,    \* the start, restore or stop that holds self._lock
  enabled,    \* enabled of the row "scanner" of scheduler_config
  row,        \* the last row of scanner_runs of each thread
  asked,      \* history: the last start or stop that was carried out
  unsaved,    \* history: the last write of the configuration raised
  killed,     \* history: loop threads ended by an exception
  abandoned   \* history: threads whose row can no longer be finished

threads == <<runLock, pc, row, killed, abandoned>>
control == <<running, stop, started>>
config == <<command, enabled, asked, unsaved>>
vars == <<process, control, threads, config>>

Scanning == {"calling", "scanning", "recording", "returning"}

TypeOK ==
  /\ process \in {"down", "up", "closing"}
  /\ running \in BOOLEAN /\ stop \in BOOLEAN
  /\ enabled \in BOOLEAN /\ unsaved \in BOOLEAN
  /\ runLock \in Scanners \cup {None}
  /\ started \in 0..MaxStarts
  /\ process = "down" => started = 0
  /\ pc \in [Scanners -> {"idle", "top", "waiting", "leaving", "dead"} \cup Scanning]
  /\ \A r \in Requests : pc[r] \in {"idle"} \cup Scanning
  /\ command \in {"none", "starting", "restoring", "stopping"}
  /\ row \in [Scanners -> {"none", "RUNNING", "finished"}]
  /\ asked \in {"nothing", "start", "stop"}
  /\ killed \subseteq Loops
  /\ abandoned \subseteq Scanners

Init ==
  /\ process = "down"
  /\ running = FALSE /\ stop = FALSE /\ started = 0
  /\ runLock = None
  /\ pc = [a \in Scanners |-> "idle"]
  /\ row = [a \in Scanners |-> "none"]
  /\ killed = {} /\ abandoned = {}
  /\ command = "none" /\ enabled = FALSE /\ asked = "nothing" /\ unsaved = FALSE

Goto(a, l) == pc' = [pc EXCEPT ![a] = l]
-----------------------------------------------------------------------------
(* start and stop, which hold _lock until the configuration is saved.      *)

(* A plausible bug: the event of the last stop is not cleared.             *)
LaunchLoop_KeepsEvent ==
  /\ running' = TRUE
  /\ started' = started + 1
  /\ pc' = [pc EXCEPT ![started + 1] = "top"]
  /\ UNCHANGED <<stop, runLock, row, killed, abandoned>>

LaunchLoop ==
  /\ stop' = FALSE
  /\ running' = TRUE
  /\ started' = started + 1
  /\ pc' = [pc EXCEPT ![started + 1] = "top"]
  /\ UNCHANGED <<runLock, row, killed, abandoned>>

Start ==
  /\ process = "up" /\ command = "none"
  /\ ~running
  /\ started < MaxStarts
  /\ LaunchLoop
  /\ command' = "starting"
  /\ UNCHANGED <<process, enabled, asked, unsaved>>

(* "if self.running: return self.status()": nothing is saved.              *)
StartAlready ==
  /\ process = "up" /\ command = "none"
  /\ running
  /\ asked' = "start"
  /\ UNCHANGED <<process, control, threads, command, enabled, unsaved>>

(* stop returns without waiting for the thread.                            *)
Stop ==
  /\ process = "up" /\ command = "none"
  /\ stop' = TRUE
  /\ running' = FALSE
  /\ command' = "stopping"
  /\ UNCHANGED <<process, started, threads, enabled, asked, unsaved>>

SaveConfig ==
  /\ command \in {"starting", "stopping"}
  /\ enabled' = (command = "starting")
  /\ asked' = IF command = "starting" THEN "start" ELSE "stop"
  /\ unsaved' = FALSE
  /\ command' = "none"
  /\ UNCHANGED <<process, control, threads>>

(* save_scheduler_config raises: the caller gets an error, but the thread  *)
(* was started, or the event was set.                                      *)
SaveRaises ==
  /\ StoreFails
  /\ command \in {"starting", "stopping"}
  /\ unsaved' = TRUE
  /\ command' = "none"
  /\ UNCHANGED <<process, control, threads, enabled, asked>>
-----------------------------------------------------------------------------
(* app_lifespan: restore before the first request, stop(persist=False) at  *)
(* the end.                                                                *)
Startup ==
  /\ process = "down"
  /\ process' = "up"
  /\ \/ enabled /\ LaunchLoop /\ command' = "restoring"
     \/ ~enabled /\ UNCHANGED <<control, threads, command>>
  /\ UNCHANGED <<enabled, asked, unsaved>>

(* The restored loop saves the configuration it was read from.             *)
SaveRestored ==
  /\ command = "restoring"
  /\ command' = "none"
  /\ UNCHANGED <<process, control, threads, enabled, asked, unsaved>>

(* A plausible bug: the stop at shutdown saves the configuration too.      *)
Shutdown_Persists ==
  /\ process = "up" /\ command = "none"
  /\ process' = "closing"
  /\ stop' = TRUE
  /\ running' = FALSE
  /\ enabled' = FALSE
  /\ UNCHANGED <<started, threads, command, asked, unsaved>>

Shutdown ==
  /\ process = "up" /\ command = "none"
  /\ process' = "closing"
  /\ stop' = TRUE
  /\ running' = FALSE
  /\ UNCHANGED <<started, threads, config>>

(* The process ends, after a shutdown, by a crash, or because the restore  *)
(* raised; the threads are daemons.                                        *)
Exit ==
  /\ process # "down"
  /\ process' = "down"
  /\ running' = FALSE /\ stop' = FALSE /\ started' = 0
  /\ runLock' = None
  /\ pc' = [a \in Scanners |-> "idle"]
  /\ killed' = {}
  /\ abandoned' = {a \in Scanners : row[a] = "RUNNING"}
  /\ command' = "none"
  /\ UNCHANGED <<row, enabled, asked, unsaved>>
-----------------------------------------------------------------------------
(* run_once, called by a loop thread or by a request.                      *)

(* A plausible bug: every caller waits for the next scan.                  *)
After_Waiting(a) == "waiting"
After(a) == IF a \in Loops THEN "waiting" ELSE "idle"

RequestScan(r) ==
  /\ process = "up" /\ command # "restoring"
  /\ pc[r] = "idle"
  /\ Goto(r, "calling")
  /\ UNCHANGED <<process, control, runLock, row, killed, abandoned, config>>

(* The calendar allows no scheduled scan: the call returns its state.      *)
CalendarBlocks(l) ==
  /\ pc[l] = "calling"
  /\ Goto(l, After(l))
  /\ UNCHANGED <<process, control, runLock, row, killed, abandoned, config>>

SkipRunning(a) ==
  /\ pc[a] = "calling"
  /\ runLock # None
  /\ Goto(a, After(a))
  /\ UNCHANGED <<process, control, runLock, row, killed, abandoned, config>>

EnterScan(a) ==
  /\ pc[a] = "calling"
  /\ runLock = None
  /\ runLock' = a
  /\ Goto(a, "scanning")
  /\ UNCHANGED <<process, control, row, killed, abandoned, config>>

create_scanner_run(a) ==
  /\ pc[a] = "scanning"
  /\ row' = [row EXCEPT ![a] = "RUNNING"]
  /\ abandoned' = abandoned \ {a}
  /\ Goto(a, "recording")
  /\ UNCHANGED <<process, control, runLock, killed, config>>

(* Something raises before there is a row: ERROR is returned, not saved.   *)
FailEarly(a) ==
  /\ pc[a] = "scanning"
  /\ Goto(a, "returning")
  /\ UNCHANGED <<process, control, runLock, row, killed, abandoned, config>>

(* A plausible bug: the early return for a broken critical source does not *)
(* finish the row.                                                         *)
finish_scanner_run_NotPaused(a) ==
  /\ pc[a] = "recording"
  /\ row' \in {row, [row EXCEPT ![a] = "finished"]}
  /\ Goto(a, "returning")
  /\ UNCHANGED <<process, control, runLock, killed, abandoned, config>>

(* COMPLETE, PAUSED for a broken critical source, or ERROR.                *)
finish_scanner_run(a) ==
  /\ pc[a] = "recording"
  /\ row' = [row EXCEPT ![a] = "finished"]
  /\ Goto(a, "returning")
  /\ UNCHANGED <<process, control, runLock, killed, abandoned, config>>

(* finally: the lock is released.                                          *)
ReturnScan(a) ==
  /\ pc[a] = "returning"
  /\ runLock' = None
  /\ Goto(a, After(a))
  /\ UNCHANGED <<process, control, row, killed, abandoned, config>>

(* The calendar cannot be read, before the try of _run_once, or finishing  *)
(* the row raises in its except: the exception passes the finally of       *)
(* run_once.  A loop thread ends of it and leaves self.running as it is.   *)
RaiseOut(a) ==
  /\ StoreFails
  /\ pc[a] \in {"calling", "scanning", "recording"}
  /\ runLock' = IF runLock = a THEN None ELSE runLock
  /\ abandoned' = IF pc[a] = "recording" THEN abandoned \cup {a} ELSE abandoned
  /\ Goto(a, IF a \in Loops THEN "dead" ELSE "idle")
  /\ killed' = killed \cup ({a} \cap Loops)
  /\ UNCHANGED <<process, control, row, config>>
-----------------------------------------------------------------------------
(* _loop                                                                   *)

(* A plausible bug: the loop never looks at the event.                     *)
CheckStop_Never(l) ==
  /\ pc[l] = "top"
  /\ Goto(l, "calling")
  /\ UNCHANGED <<process, control, runLock, row, killed, abandoned, config>>

CheckStop(l) ==
  /\ pc[l] = "top"
  /\ Goto(l, IF stop THEN "leaving" ELSE "calling")
  /\ UNCHANGED <<process, control, runLock, row, killed, abandoned, config>>

EndWait(l) ==
  /\ pc[l] = "waiting"
  /\ Goto(l, "top")
  /\ UNCHANGED <<process, control, runLock, row, killed, abandoned, config>>

(* self.running = False, without _lock and whichever thread is newest.     *)
LeaveLoop(l) ==
  /\ pc[l] = "leaving"
  /\ running' = FALSE
  /\ Goto(l, "dead")
  /\ UNCHANGED <<process, stop, started, runLock, row, killed, abandoned, config>>

ScanStep(a) ==
  \/ SkipRunning(a) \/ EnterScan(a) \/ create_scanner_run(a) \/ FailEarly(a)
  \/ finish_scanner_run(a) \/ ReturnScan(a) \/ RaiseOut(a)
LoopStep(l) == CheckStop(l) \/ CalendarBlocks(l) \/ EndWait(l) \/ LeaveLoop(l)
ApiStep == Start \/ StartAlready \/ Stop \/ SaveConfig \/ SaveRaises
LifeStep == Startup \/ SaveRestored \/ Shutdown \/ Exit

Next ==
  \/ ApiStep \/ LifeStep
  \/ \E r \in Requests : RequestScan(r) \/ ScanStep(r)
  \/ \E l \in Loops : LoopStep(l) \/ ScanStep(l)

Spec == Init /\ [][Next]_vars

(* The interpreter runs every thread, calls of the store return or raise,  *)
(* a scan ends and so does a wait.                                         *)
FairSpec == Spec /\ \A l \in Loops : WF_vars(LoopStep(l) \/ ScanStep(l))
-----------------------------------------------------------------------------
(* What status() shows the user is true: while self.running is set, the    *)
(* thread that start launched last goes on scanning, whatever threads of   *)
(* earlier starts are still about to leave.  Only an exception that        *)
(* escapes run_once ends it unnoticed.                                     *)
Alive(l) == pc[l] \notin {"idle", "leaving", "dead"}
RunningHasLoop == running => ~stop /\ (Alive(started) \/ started \in killed)

(* The schedule survives restarts: the row says what the last start or     *)
(* stop that was carried out asked for, through crashes between the change *)
(* in memory and the save, through shutdowns and through restores, as long *)
(* as no save of it raises.                                                *)
ScheduleIsPersisted ==
  ~unsaved /\ asked # "nothing" => enabled = (asked = "start")

(* A row RUNNING is a scan under way, under the run lock; only the end of  *)
(* the process and a finish that raises leave one behind.                  *)
RunningRowIsLive ==
  \A a \in Scanners : row[a] = "RUNNING" => runLock = a \/ a \in abandoned

(* When the event stays set, every loop thread ends, also those of starts  *)
(* that came before an earlier stop.                                       *)
StoppedLoopsEnd == <>[]stop => <>[](\A l \in Loops : pc[l] \in {"idle", "dead"})
=============================================================================
