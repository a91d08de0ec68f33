------------------------- MODULE MCScannerScheduler -------------------------
(* A small instance of the scanner's scheduler for TLC: starts that follow *)
(* stops before the earlier thread has left, beside a request.             *)
EXTENDS ScannerScheduler

CONSTANT r1
=============================================================================
