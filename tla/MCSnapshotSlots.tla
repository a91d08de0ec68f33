-------------------------- MODULE MCSnapshotSlots --------------------------
(* A small instance of the foreground loop for TLC: three slots, the       *)
(* second within reach of a pass that is slow over the first, the third    *)
(* after the grace window of the second has passed.                        *)
EXTENDS SnapshotSlots, TLC

MCSlot == 1..3
MCAt == 1 :> 1 @@ 2 :> 3 @@ 3 :> 6
=============================================================================
