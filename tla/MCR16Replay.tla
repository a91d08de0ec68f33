---------------------------- MODULE MCR16Replay ----------------------------
(* A small instance of the R16 replay for TLC: two S8 dates with a symbol   *)
(* each, a bar before them that their geometry needs, and a path of two     *)
(* sessions for the first.                                                  *)
EXTENDS R16Replay, TLC

CONSTANTS w1, w2, x, y

MCSymbolsOf == 2 :> {x} @@ 3 :> {y}
Symmetry == Permutations(Workers)
=============================================================================
