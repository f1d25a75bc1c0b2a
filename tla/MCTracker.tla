------------------------------ MODULE MCTracker -----------------------------
(* Tracker for TLC: each author has a partition of its own. *)
EXTENDS Tracker, TLC

CONSTANTS a1, a2, p1, p2

MCPartitionOf == (a1 :> p1) @@ (a2 :> p2)
=============================================================================
