-------------------------- MODULE MCWalkForwardQueue --------------------------
(***************************************************************************)
(* Two workers for one scope whose jobs fall into two buckets.  Thresholds *)
(* keep the order of the code's: 120 s < 300 s < 1200 s < 14 days.         *)
(***************************************************************************)
EXTENDS WalkForwardQueue

CONSTANTS w1, w2
=============================================================================
