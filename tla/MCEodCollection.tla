-------------------------- MODULE MCEodCollection --------------------------
(* A small instance of the end-of-day collection for TLC: the cash file,   *)
(* which the reconciliation and run_eod both ask for, and its index        *)
(* companion, which only the reconciliation asks for.                      *)
EXTENDS EodCollection

CONSTANTS cash, index
=============================================================================
