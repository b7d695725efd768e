----------------------------- MODULE MCPaperBook -----------------------------
(***************************************************************************)
(* Model values and bounds for the runs of PaperBook.                      *)
(***************************************************************************)
EXTENDS PaperBook, TLC

CONSTANTS btc, eth, p1, p2, p3

MCPlanCoin    == (p1 :> btc) @@ (p2 :> btc) @@ (p3 :> eth)
MCPlanCoinAcc == (p1 :> btc)
MCPlanCoinOne == (p1 :> btc) @@ (p2 :> btc)
MCPlanCoinTwo == (p1 :> btc) @@ (p3 :> eth)

\* A losing and a winning fill, net of fees; funding charged or not.
MCNetMarks  == {-1, 2}
MCOneMark   == {1}
MCFunding   == {0, 1}
MCNoFunding == {0}
=============================================================================
