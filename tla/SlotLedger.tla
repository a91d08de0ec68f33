----------------------------- MODULE SlotLedger -----------------------------
(***************************************************************************)
(* What the snapshot scheduler promises about the checkpoints of a trading *)
(* day: each is settled at most once, never before its time, and as MISSED *)
(* only after its grace window ("Run or explicitly miss every checkpoint", *)
(* docstring of MarketDataScheduler.tick).                                 *)
(***************************************************************************)
EXTENDS Naturals

CONSTANTS Slot, At, Grace

VARIABLES clock, outcome

Init ==
  /\ clock \in Nat
  /\ outcome = [s \in Slot |-> "PENDING"]

TimePasses ==
  /\ clock' \in Nat
  /\ clock' > clock
  /\ UNCHANGED outcome

Settle(s, verdict) ==
  /\ outcome[s] = "PENDING"
  /\ clock >= At[s]
  /\ verdict = "MISSED" => clock > At[s] + Grace
  /\ outcome' = [outcome EXCEPT ![s] = verdict]
  /\ UNCHANGED clock

Next == TimePasses \/ \E s \in Slot : Settle(s, "COMPLETED") \/ Settle(s, "MISSED")

Spec == Init /\ [][Next]_<<clock, outcome>>
=============================================================================
