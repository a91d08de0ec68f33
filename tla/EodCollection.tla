--------------------------- MODULE EodCollection ---------------------------
(***************************************************************************)
(* End-of-day collection on the evening of a trading day                   *)
(* (market_data_scheduler.py: reconcile_research_session, run_eod,         *)
(* _attempt_cooling_down, _record_health, as the foreground loop calls     *)
(* them; run_all and run_eod of another process).  The session is in its   *)
(* EOD window, so the research date is today.  Times are ages: how long    *)
(* ago a source was last attempted, how long ago the pass read the clock.  *)
(***************************************************************************)
EXTENDS Integers

CONSTANTS
  Reconciled,   \* the cash file and its index companion
  Polled,       \* the registry contracts of an EOD cadence; has the cash file
  Retry,        \* EOD_RETRY_SECONDS, 900 in the code
  MaxLag        \* bound of the duration of a pass

ASSUME EodAssumption ==
  /\ Retry \in Nat \ {0}
  /\ MaxLag \in Nat

EodSource == Reconciled \cup Polled

Today == 2
Yesterday == 1
Older == 0
NoObject == -1    \* no last-good object yet
NoAnswer == -2    \* the fetch failed, or was empty or invalid

Dates == {Older, Yesterday, Today}
Oldest == Retry + MaxLag   \* ages are not told apart beyond this one

VARIABLES
  published,   \* sources whose artifact of today is out
  last_good,   \* data_date of market_data_latest
  complete,    \* sources whose eod_complete_date is today
  age,         \* how long ago last_attempt_at is, Oldest when it is empty
  loop,        \* where the foreground loop is
  lag,         \* how long ago now_ist of the pass was read
  batch,       \* what the run of the loop has still to fetch
  got,         \* what it fetched
  lease,       \* who owns the collector lease
  other,       \* what the run of the other process has still to fetch
  other_eod,   \* it is run_eod; else run_all, which sets no eod_complete_date
  other_got,   \* what it fetched
  asked,       \* history: the sources fetched in this pass
  calm,        \* the publisher serves what it published, no process dies and
               \* no other one begins to collect, for the rest of the evening
  had_today,   \* history: the sources whose artifact of today was stored
  shared       \* history: the other process has collected

store == <<last_good, complete, age, had_today>>
loopVars == <<loop, lag, batch, got, asked>>
otherVars == <<other, other_eod, other_got, shared>>
eodVars == <<published, calm, store, loopVars, lease, otherVars>>

Answers == [EodSource -> Dates \cup {NoObject, NoAnswer}]
Nothing == [s \in EodSource |-> NoObject]

EodTypeOK ==
  /\ published \subseteq EodSource
  /\ last_good \in [EodSource -> Dates \cup {NoObject}]
  /\ complete \subseteq EodSource
  /\ age \in [EodSource -> 0..Oldest]
  /\ loop \in {"sleeping", "decided", "reconciling", "reconciled", "polling"}
  /\ lag \in 0..MaxLag
  /\ batch \subseteq EodSource
  /\ got \in Answers
  /\ lease \in {"free", "loop", "other", "dead"}
  /\ other \subseteq EodSource
  /\ other_eod \in BOOLEAN
  /\ other_got \in Answers
  /\ asked \subseteq EodSource
  /\ had_today \subseteq EodSource
  /\ {calm, shared} \subseteq BOOLEAN

EodInit ==
  /\ published = {}
  /\ last_good \in [EodSource -> {NoObject, Yesterday}]
  /\ complete = {}
  /\ age = [s \in EodSource |-> Oldest]
  /\ loop = "sleeping" /\ lag = 0 /\ batch = {} /\ got = Nothing /\ asked = {}
  /\ lease = "free"
  /\ other = {} /\ other_eod = FALSE /\ other_got = Nothing
  /\ had_today = {}
  /\ calm = FALSE /\ shared = FALSE

Older1(n) == IF n < Oldest THEN n + 1 ELSE n

ClockTick ==
  /\ loop # "sleeping" => lag < MaxLag
  /\ lag' = IF loop = "sleeping" THEN lag ELSE lag + 1
  /\ age' = [s \in EodSource |-> Older1(age[s])]
  /\ UNCHANGED <<published, calm, last_good, complete, had_today>>
  /\ UNCHANGED <<loop, batch, got, asked, lease, otherVars>>

Publish(s) ==
  /\ s \notin published
  /\ published' = published \cup {s}
  /\ UNCHANGED <<calm, store, loopVars, lease, otherVars>>

CalmDown ==
  /\ ~ calm
  /\ calm' = TRUE
  /\ UNCHANGED <<published, store, loopVars, lease, otherVars>>
-----------------------------------------------------------------------------
(* A plausible bug: the comparison is inverted.                            *)
CoolingDown_Inverted(s, since) == age[s] - since >= Retry

(* _attempt_cooling_down and the same test in run_eod, at an instant that  *)
(* lies "since" back.                                                      *)
CoolingDown(s, since) == age[s] - since < Retry

Current(s) == last_good[s] = Today

DueForEod(since) == {s \in Polled : s \notin complete /\ ~CoolingDown(s, since)}

(* What a fetch of s may bring: the resolver tries the dated addresses     *)
(* from the newest to the oldest and takes the first that answers.         *)
Fetchable(s) ==
  IF calm THEN {IF s \in published THEN Today ELSE Yesterday}
  ELSE {Older, Yesterday, NoAnswer} \cup (IF s \in published THEN {Today} ELSE {})

(* A plausible bug: a failed attempt replaces last-good as well.           *)
Commit_Failures(s, answer) ==
  /\ last_good' = [last_good EXCEPT ![s] = answer]
  /\ had_today' = IF answer = Today THEN had_today \cup {s} ELSE had_today

(* commit_success moves last-good to whatever was parsed; the relabelling  *)
(* as WAITING_FOR_PUBLICATION comes after it and touches the result only.  *)
Commit(s, answer) ==
  /\ last_good' = IF answer = NoAnswer THEN last_good ELSE [last_good EXCEPT ![s] = answer]
  /\ had_today' = IF answer = Today THEN had_today \cup {s} ELSE had_today

(* A plausible bug: only successes are recorded as attempts.               *)
LastAttempt_SuccessOnly(answers, since) ==
  age' = [s \in EodSource |->
            IF answers[s] \in {NoObject, NoAnswer} THEN age[s] ELSE since]

LastAttempt(answers, since) ==
  age' = [s \in EodSource |-> IF answers[s] = NoObject THEN age[s] ELSE since]

(* A plausible bug: a success of any date completes the day.               *)
EodComplete_AnyDate(answers) ==
  complete' = complete \cup {s \in EodSource : answers[s] \in Dates}

EodComplete(answers) == complete' = complete \cup {s \in EodSource : answers[s] = Today}
-----------------------------------------------------------------------------
(* The pass begins.  reconcile_research_session decides what it needs      *)
(* before it asks for the lease.                                           *)
BeginPass ==
  /\ loop = "sleeping"
  /\ lag' = 0
  /\ batch' = {s \in Reconciled : ~Current(s) /\ ~CoolingDown(s, 0)}
  /\ loop' = IF batch' = {} THEN "reconciled" ELSE "decided"
  /\ asked' = {}
  /\ UNCHANGED <<published, calm, store, got, lease, otherVars>>

BeginReconcile ==
  /\ loop = "decided"
  /\ lease = "free"
  /\ lease' = "loop"
  /\ loop' = "reconciling"
  /\ UNCHANGED <<published, calm, store, lag, batch, got, asked, otherVars>>

ReconcileLeaseHeld ==
  /\ loop = "decided"
  /\ lease # "free"
  /\ loop' = "reconciled"
  /\ batch' = {}
  /\ UNCHANGED <<published, calm, store, lag, got, asked, lease, otherVars>>

(* run_eod chooses its sources under the lease.                            *)
BeginEod ==
  /\ loop = "reconciled"
  /\ lease = "free"
  /\ DueForEod(lag) # {}
  /\ lease' = "loop"
  /\ batch' = DueForEod(lag)
  /\ loop' = "polling"
  /\ UNCHANGED <<published, calm, store, lag, got, asked, otherVars>>

(* Nothing is due, or another collector owns the lease; the loop sleeps.   *)
SkipEod ==
  /\ loop = "reconciled"
  /\ lease = "free" => DueForEod(lag) = {}
  /\ loop' = "sleeping"
  /\ lag' = 0
  /\ asked' = {}
  /\ UNCHANGED <<published, calm, store, batch, got, lease, otherVars>>

Fetching == loop \in {"reconciling", "polling"}

Fetch(s) ==
  /\ Fetching
  /\ s \in batch
  /\ \E answer \in Fetchable(s) :
       /\ Commit(s, answer)
       /\ got' = [got EXCEPT ![s] = answer]
  /\ batch' = batch \ {s}
  /\ asked' = asked \cup {s}
  /\ UNCHANGED <<published, calm, complete, age, loop, lag, lease, otherVars>>

(* _record_health(eod=True), and the lease is released.                    *)
EndFetching ==
  /\ Fetching
  /\ batch = {}
  /\ EodComplete(got)
  /\ LastAttempt(got, lag)
  /\ got' = Nothing
  /\ lease' = "free"
  /\ IF loop = "reconciling"
     THEN loop' = "reconciled" /\ UNCHANGED <<lag, asked>>
     ELSE loop' = "sleeping" /\ lag' = 0 /\ asked' = {}
  /\ UNCHANGED <<published, calm, last_good, had_today, batch, otherVars>>

(* The process dies between any two steps and is started again.            *)
Crash ==
  /\ ~ calm
  /\ loop # "sleeping"
  /\ loop' = "sleeping" /\ lag' = 0 /\ batch' = {} /\ got' = Nothing /\ asked' = {}
  /\ lease' = IF lease = "loop" THEN "dead" ELSE lease
  /\ UNCHANGED <<published, calm, store, otherVars>>

LeaseExpires ==
  /\ lease = "dead"
  /\ lease' = "free"
  /\ UNCHANGED <<published, calm, store, loopVars, otherVars>>
-----------------------------------------------------------------------------
(* The CLI: run_all fetches every registry contract, run_eod what is due.  *)
OtherBegins ==
  /\ ~ calm
  /\ lease = "free"
  /\ lease' = "other"
  /\ other_eod' \in BOOLEAN
  /\ shared' = TRUE
  /\ other' = IF other_eod' THEN DueForEod(0) ELSE Polled
  /\ UNCHANGED <<published, calm, store, loopVars, other_got>>

OtherFetches(s) ==
  /\ lease = "other"
  /\ s \in other
  /\ \E answer \in Fetchable(s) :
       /\ Commit(s, answer)
       /\ other_got' = [other_got EXCEPT ![s] = answer]
  /\ other' = other \ {s}
  /\ UNCHANGED <<published, calm, complete, age, loopVars, lease, other_eod, shared>>

(* The attempts carry the instant the run was handed, however long ago.     *)
OtherEnds ==
  /\ lease = "other"
  /\ other = {}
  /\ IF other_eod THEN EodComplete(other_got) ELSE UNCHANGED complete
  /\ \E took \in 0..MaxLag : LastAttempt(other_got, took)
  /\ other_got' = Nothing
  /\ lease' = "free"
  /\ UNCHANGED <<published, calm, last_good, had_today, loopVars, other, other_eod, shared>>

LoopStep ==
  \/ BeginPass \/ BeginReconcile \/ ReconcileLeaseHeld \/ BeginEod \/ SkipEod
  \/ (\E s \in EodSource : Fetch(s)) \/ EndFetching

OtherRun == (\E s \in EodSource : OtherFetches(s)) \/ OtherEnds

EodNext ==
  \/ ClockTick \/ (\E s \in EodSource : Publish(s)) \/ CalmDown
  \/ LoopStep \/ Crash \/ LeaseExpires
  \/ OtherBegins \/ OtherRun

(* Every fetch ends, the loop sleeps for poll_seconds only, the run of the *)
(* other process ends, time goes on and a dead lease expires with it.      *)
Fairness ==
  /\ WF_eodVars(LoopStep) /\ WF_eodVars(OtherRun)
  /\ WF_eodVars(ClockTick) /\ WF_eodVars(LeaseExpires)

EodSpec == EodInit /\ [][EodNext]_eodVars /\ Fairness
-----------------------------------------------------------------------------
(* A source whose day is marked complete had its object of today stored,   *)
(* through crashes between the commit and the mark, through fetches that   *)
(* fall back to older files and beside another process that collects from  *)
(* the same database.  While the loop is the only collector that object is *)
(* still its last good: nothing asks for it again before tomorrow.         *)
CompleteIsStored ==
  \A s \in complete : s \in had_today /\ (shared \/ Current(s))

(* The reconciliation and run_eod share the recorded attempts: while the   *)
(* loop is the only collector one pass asks the publisher for a source     *)
(* once, even if it failed.                                                *)
AskedOncePerPass == Fetching /\ ~shared => batch \cap asked = {}

(* Once the publisher serves what it published and no process dies any     *)
(* more, the day of each polled source is completed and the index, which   *)
(* only the reconciliation asks for, is current, whatever failed, died or  *)
(* collected before.                                                       *)
PublishedIsCollected ==
  \A s \in EodSource : s \in published /\ calm ~>
    IF s \in Polled THEN s \in complete ELSE Current(s)
=============================================================================
