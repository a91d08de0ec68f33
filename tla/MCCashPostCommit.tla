------------------------- MODULE MCCashPostCommit -------------------------
(* Instances of CashPostCommit: one collector, or one beside a reconcile.   *)
EXTENDS CashPostCommit, TLC

CONSTANTS collector, reconciler, a1, a2, a3
=============================================================================
