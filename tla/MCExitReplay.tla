---------------------------- MODULE MCExitReplay ----------------------------
(***************************************************************************)
(* Levels and marks for the runs of ExitReplay.  A LONG from 2 with stop 1,*)
(* target 1 at 8 and target 2 at 12, and its mirror image, a SHORT from 11.*)
(* Target 1 lies far enough for the trailing stop to pass the protection   *)
(* stop of target 1 (the price half way), and target 2 far enough for the  *)
(* 75% trail.                                                              *)
(***************************************************************************)
EXTENDS ExitReplay

Level(side, official, profile, activation, hold) ==
    [side |-> side,
     entry |-> IF side = "LONG" THEN 2 ELSE 11,
     initial |-> IF side = "LONG" THEN 1 ELSE 12,
     stop |-> IF side = "LONG" THEN 1 ELSE 12,
     target1 |-> IF side = "LONG" THEN 8 ELSE 5,
     target2 |-> IF side = "LONG" THEN 12 ELSE 1,
     t1 |-> FALSE, staged |-> TRUE, official |-> official, locked |-> official,
     profile |-> profile, activation |-> activation, deadline |-> OpenedAt + hold]

\* Official rows with locked levels, and rows of the Strategy Paper books under
\* three ways of trailing; deadlines the market reaches, and one far beyond it.
MCPositions == {Level("LONG", TRUE, "BASELINE", 0, 9),
                Level("SHORT", TRUE, "BASELINE", 0, 4),
                Level("LONG", FALSE, "BASELINE", 0, 9),
                Level("SHORT", FALSE, "BASELINE", 1, 9),
                Level("LONG", FALSE, "COST_SAFE", 1, 9)}

MCOverdue == {Level("LONG", TRUE, "BASELINE", 0, 2)}

\* Marks at every level for official rows; beyond, at and between the levels
\* that a trailing stop can take for the others.
MCPrices ==
    [side \in {"LONG", "SHORT"} |->
        [official \in BOOLEAN |->
            IF official THEN IF side = "LONG" THEN {1, 2, 8, 12} ELSE {12, 11, 5, 1}
                        ELSE IF side = "LONG" THEN {2, 7, 11, 12} ELSE {11, 6, 2, 1}]]
=============================================================================
