-------------------------- MODULE MCManualRefresh --------------------------
(* A small instance of the manual refresh for TLC: two other runs with the  *)
(* default time-to-live and two refreshes with the long one.                *)
EXTENDS ManualRefresh, TLC

CONSTANTS r1, r2, a, b

MCRun == {r1, r2, a, b}
MCTtl == (r1 :> 2) @@ (r2 :> 2) @@ (a :> 3) @@ (b :> 3)
Symmetry == Permutations({r1, r2}) \cup Permutations({a, b})
=============================================================================
