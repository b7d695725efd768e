--------------------------- MODULE PositionAccounts ---------------------------
(***************************************************************************)
(* What the paper book promises about the money of a position: it goes     *)
(* flat -> open -> (target 1 banked) -> closed, each stage is entered at   *)
(* most once, and the wallet ledger and the position's own report change   *)
(* together, by the same amount, in one atomic step.  PaperBook implements *)
(* this over plans, locks, several monitors and idempotent event keys.     *)
(***************************************************************************)
EXTENDS Integers

CONSTANT Positions

VARIABLES
    stage,     \* stage[p]: how far position p has come
    banked,    \* banked[p]: what the wallet ledger holds for p
    reported   \* reported[p]: what the position itself says it realized

vars == <<stage, banked, reported>>

Stages == {"flat", "open", "partial", "closed"}

Init ==
    /\ stage = [p \in Positions |-> "flat"]
    /\ banked = [p \in Positions |-> 0]
    /\ reported = [p \in Positions |-> 0]

\* The amount posted for p in this step reaches ledger and report alike.
Post(p) ==
    /\ banked' = [banked EXCEPT ![p] = banked'[p]]
    /\ reported' = [reported EXCEPT ![p] = banked'[p]]

Open(p) ==
    /\ stage[p] = "flat"
    /\ stage' = [stage EXCEPT ![p] = "open"]
    /\ UNCHANGED <<banked, reported>>

BankTarget1(p) ==
    /\ stage[p] = "open"
    /\ stage' = [stage EXCEPT ![p] = "partial"]
    /\ Post(p)

Settle(p) ==
    /\ stage[p] \in {"open", "partial"}
    /\ stage' = [stage EXCEPT ![p] = "closed"]
    /\ Post(p)

Next == \E p \in Positions : Open(p) \/ BankTarget1(p) \/ Settle(p)

Spec == Init /\ [][Next]_vars
=============================================================================
