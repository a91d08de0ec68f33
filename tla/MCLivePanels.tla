---------------------------- MODULE MCLivePanels ----------------------------
(* A small instance of the live panels for TLC: one request beside the      *)
(* background loop, and two sources, of which one alone makes a failed      *)
(* cycle.                                                                   *)
EXTENDS LivePanels

CONSTANTS q1, preopen, gainers
=============================================================================
