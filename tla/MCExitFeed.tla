------------------------------ MODULE MCExitFeed ------------------------------
(* One symbol and a position on it; ages and durations of a second.          *)
EXTENDS ExitFeed

CONSTANTS c1, p1

MCCoinOf == [p \in Positions |-> c1]
=============================================================================
