-------------------------- MODULE MCOpenAlgoStream --------------------------
(* A small instance of the stream manager for TLC: two instruments, four   *)
(* payloads of each, so that duplicates, equal timestamps and late frames  *)
(* of the first session all occur.                                         *)
EXTENDS OpenAlgoStream, TLC

CONSTANTS k1, k2, b1, b2

MCKey == {k1, k2}
MCBody == {b1, b2}

(* A payload without a timestamp, one at timestamp 1 and two that share    *)
(* timestamp 2, of each key.                                               *)
MCSent ==
  [key : MCKey, stamp : 0 .. 1, body : {b1}] \cup [key : MCKey, stamp : {2}, body : MCBody]

(* Keys are interchangeable.                                               *)
MCSymmetry == Permutations(MCKey)
=============================================================================
